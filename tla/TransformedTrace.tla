--------------------------- MODULE TransformedTrace ---------------------------
(***************************************************************************)
(* A computed trace with one of the methods that, next to `filter', work   *)
(* incrementally on the obsels of their source: fsa, hrules, isparql; and  *)
(* fusion, which means to (methods/fsa.py, hrules.py, isparql.py,          *)
(* fusion.py, on the common ground of methods/abstract.py).                *)
(*                                                                         *)
(* FilteredTrace has the steps of a computation and what falls between     *)
(* them; here a computation is one step, and the question is whether what  *)
(* the methods skip, resume or do again adds up to what a computation from *)
(* scratch would give.                                                     *)
(*                                                                         *)
(* What rules, queries and automata look at in an obsel is its kind.  The  *)
(* obsels of the computed trace are named by the obsel they come from and, *)
(* for fsa, a rank: several matches may end with one obsel.                *)
(***************************************************************************)
EXTENDS ObselCollection, SequencesExt

CONSTANTS
  Methods,    \* subset of {"fsa", "hrules", "isparql", "fusion"}
  Kind,       \* the kind of each obsel
  Rules,      \* hrules: a sequence of [type, kinds, typed, atts]
  Rows,       \* isparql: the rows of the result for an obsel of each kind
  Starts, Ends,  \* fsa: the kinds that a match starts and ends with
  MaxArcs,    \* bound: arcs between obsels of the source
  MaxAmend,   \* bound: edits of the source or of its range
  LongObsels  \* may an obsel begin long before another that it ends with?

ASSUME MethodsAssumption == Methods \subseteq {"fsa", "hrules", "isparql", "fusion"}
ASSUME RowsAssumption == \A k \in DOMAIN Rows : Rows[k] \in Nat
ASSUME MaxAssumption == MaxArcs \in Nat /\ MaxAmend \in Nat /\ LongObsels \in BOOLEAN

VARIABLES
  method,
  dirty,       \* METADATA.dirty of the obsels of the computed trace
  target,      \* the computed obsels: from name to attributes
  targetArcs,
  cstate,      \* METADATA.computation_state
  amended

vars == <<collection, method, dirty, target, targetArcs, cstate, amended>>

MonTags == {"str", "pse", "log"}

\* compute_trace_description, init_state
InitState == [kept |-> {}, seen |-> None, seenB |-> None, tokens |-> <<>>]

Nothing == [n \in {} |-> {}]

\* Obsels that end within the range of one another begin within it.
Tame == LongObsels \/ \A o, p \in DOMAIN obsels :
  obsels[o].e + range >= obsels[p].e => obsels[o].b + range >= obsels[p].b

TransformedInit ==
  /\ Init /\ Tame
  /\ method \in Methods
  /\ dirty = TRUE
  /\ target = Nothing /\ targetArcs = {}
  /\ cstate = InitState
  /\ amended = 0

----------------------------------------------------------------------------
(* The source changes *)

Marked ==
  /\ dirty' = TRUE
  /\ Cardinality(arcs') <= MaxArcs /\ Tame'
  /\ UNCHANGED <<method, target, targetArcs>>

Renewed == cstate' = [cstate EXCEPT !.kept = @ \ renewed']

Collected(batch) == Post(batch) /\ Marked /\ Renewed /\ UNCHANGED amended

\* After an edit of the source trace itself, the computed trace is described
\* again before anything is computed.
Amend ==
  /\ amended < MaxAmend
  /\ amended' = amended + 1
  /\ \/ /\ \/ \E o \in DOMAIN obsels : Edit(Restrict(obsels, DOMAIN obsels \ {o}), arcs)
           \/ \E o \in DOMAIN obsels, i \in Intervals : Edit([obsels EXCEPT ![o] = i], arcs)
        /\ Renewed
     \/ (\E r \in Ranges : ChangeRange(r)) /\ cstate' = InitState
  /\ Marked

----------------------------------------------------------------------------
(* The computation *)

Monotonicity(force) ==
  IF force THEN "not"
  ELSE IF "str" \in cstate.kept THEN "strict"
  ELSE IF "pse" \in cstate.kept THEN "pseudo"
  ELSE IF "log" \in cstate.kept THEN "logic" ELSE "not"

\* build_select(begin, after): in the order of obsels.
SelectAfter(seen, S) ==
  SetToSortSeq({o \in S : seen = None \/ After(obsels, o, seen)},
               LAMBDA o, p : After(obsels, p, o))

From(m) == IF m = "pseudo" /\ cstate.seenB # None THEN cstate.seenB - range ELSE 0
Since(m) == IF m = "strict" THEN cstate.seen ELSE None

\* for obs in source.iter_obsels(begin=begin, reverse=True, limit=1)
LastSeen(m) ==
  LET S == {o \in DOMAIN obsels : obsels[o].b >= From(m)}
  IN  IF S # {} THEN CHOOSE o \in S : \A p \in S \ {o} : After(obsels, o, p)
      ELSE IF m = "not" THEN None ELSE cstate.seen
SeenState(m) ==
  [cstate EXCEPT !.seen = LastSeen(m), !.kept = MonTags,
     !.seenB = IF LastSeen(m) \in DOMAIN obsels THEN obsels[LastSeen(m)].b ELSE None]

\* Mutant: the obsels of the computation before are not removed.
Old_Kept(m) == target

Old(m) == IF m = "not" THEN Nothing ELSE target
Put(f, n, attributes) == [k \in DOMAIN f \cup {n} |-> IF k = n THEN attributes ELSE f[k]]
Copy(o, type) == [b |-> obsels[o].b, e |-> obsels[o].e, type |-> type]

\* hrules: the rank of a rule, from what it says of the obsel and its place.
Rank(k) == (IF Rules[k].typed THEN 1000000 ELSE 0) + 1000 * Rules[k].atts - k

\* Mutant: the rules are applied in the order they are given.
Bgps_AsGiven == SetToSortSeq(DOMAIN Rules, LAMBDA j, k : j < k)

Bgps == SetToSortSeq(DOMAIN Rules, LAMBDA j, k : Rank(j) > Rank(k))

\* One obsel that a rule matches; `a' is what has been done so far.  An arc is
\* copied with the second of its obsels (copy_obsel).
ApplyRule(m, a, o, type) ==
  IF (m = "pseudo" /\ <<o, 0>> \in DOMAIN a.target) \/ o \in a.inserted THEN a
  ELSE [target |-> Put(a.target, <<o, 0>>, Copy(o, type)),
        inserted |-> a.inserted \cup {o},
        arcs |-> a.arcs \cup {r \in arcs : o \in r /\ \A p \in r \ {o} : <<p, 0>> \in DOMAIN a.target}]

HRules(m) ==
  LET matched(k) == SelectAfter(Since(m), {o \in DOMAIN obsels : Kind[o] \in Rules[k].kinds})
      rule(a, k) == FoldLeft(LAMBDA x, o : ApplyRule(m, x, o, Rules[k].type), a, matched(k))
      done == FoldLeft(rule,
                [target |-> Old(m), inserted |-> {}, arcs |-> IF m = "not" THEN {} ELSE targetArcs],
                Bgps)
  IN  /\ target' = done.target
      /\ targetArcs' = done.arcs
      /\ cstate' = SeenState(m)

\* isparql: the attributes of a row are added to those that its obsel has, but
\* only a strict computation adds rows to an obsel that is there.
AddRow(m, f, row) ==
  LET n == <<row[1], 0>>
  IN  IF n \notin DOMAIN f THEN Put(f, n, {row})
      ELSE IF m = "strict" THEN Put(f, n, f[n] \cup {row}) ELSE f

\* The rows of one obsel, which the query gives in any order.
RowsOf(o) == {<<o, obsels[o].b, k>> : k \in 1 .. Rows[Kind[o]]}

ISparql(m) ==
  LET read == SelectAfter(Since(m), {o \in DOMAIN obsels : obsels[o].b >= From(m)})
      rows(o, up) == SetToSortSeq(RowsOf(o), LAMBDA r, s : IF up THEN r[3] < s[3] ELSE r[3] > s[3])
  IN  /\ \E up \in BOOLEAN :
           target' = FoldLeft(LAMBDA f, o : FoldLeft(LAMBDA g, r : AddRow(m, g, r), f, rows(o, up)),
                              Old(m), read)
      /\ targetArcs' = {}
      /\ cstate' = SeenState(m)

\* fsa.feed: a token is the obsel that a match started with; an obsel that ends
\* a match ends those of all the tokens.
Feed(a, o) ==
  LET ended == Kind[o] \in Ends
      match(f, k) == Put(f, <<o, k - 1>>,
                         [b |-> obsels[a.tokens[k]].b, e |-> obsels[o].e, type |-> "match"])
  IN  [target |-> IF ended THEN FoldLeft(match, a.target, [k \in DOMAIN a.tokens |-> k]) ELSE a.target,
       tokens |-> (IF ended THEN <<>> ELSE a.tokens) \o (IF Kind[o] \in Starts THEN <<o>> ELSE <<>>),
       seen |-> o]

\* Only a strict computation takes up the tokens of the one before; any other
\* starts from an empty trace.
Automaton(m) ==
  LET resumed == m = "strict"
      start == [target |-> IF resumed THEN target ELSE Nothing,
                tokens |-> IF resumed THEN cstate.tokens ELSE <<>>,
                seen |-> IF resumed THEN cstate.seen ELSE None]
      done == FoldLeft(Feed, start, SelectAfter(start.seen, DOMAIN obsels))
  IN  /\ target' = done.target
      /\ targetArcs' = {}
      /\ cstate' = [cstate EXCEPT !.tokens = done.tokens, !.seen = done.seen, !.kept = MonTags]

\* fusion: the tags it notes are looked up by a key of another type than the
\* one they are stored under, so it always starts from an empty trace.
Fusion ==
  /\ target' = [n \in (DOMAIN obsels) \X {0} |-> Copy(n[1], "own")]
  /\ targetArcs' = arcs
  /\ cstate' = [cstate EXCEPT !.kept = {"log"}]

Refresh(force) ==
  /\ dirty \/ force
  /\ dirty' = FALSE
  /\ LET m == Monotonicity(force)
     IN  \/ method = "hrules" /\ HRules(m)
         \/ method = "isparql" /\ ISparql(m)
         \/ method = "fsa" /\ Automaton(m)
         \/ method = "fusion" /\ Fusion
  /\ renewed' = {} /\ UNCHANGED <<obsels, arcs, last, range, method, amended>>

TransformedNext ==
  \/ \E batch \in Batches : Collected(batch)
  \/ Amend
  \/ \E force \in BOOLEAN : Refresh(force)

TransformedSpec == TransformedInit /\ [][TransformedNext]_vars

----------------------------------------------------------------------------
(* What the methods promise, apart from how they compute it *)

\* Of the rules that match, the most specific: one with a type before one
\* without, then the one with more attributes, then the first.
RuleOf(o) ==
  LET S == {k \in DOMAIN Rules : Kind[o] \in Rules[k].kinds}
      beats(j, k) ==
        \/ Rules[j].typed /\ ~Rules[k].typed
        \/ Rules[j].typed = Rules[k].typed /\ Rules[j].atts > Rules[k].atts
        \/ Rules[j].typed = Rules[k].typed /\ Rules[j].atts = Rules[k].atts /\ j < k
  IN  IF S = {} THEN 0 ELSE CHOOSE j \in S : \A k \in S \ {j} : beats(j, k)

\* o starts a match that p ends.
Matches(o, p) ==
  /\ Kind[o] \in Starts /\ Kind[p] \in Ends /\ After(obsels, p, o)
  /\ \A q \in DOMAIN obsels : Kind[q] \in Ends /\ After(obsels, q, o) /\ q # p => After(obsels, q, p)
Place(o, p) == Cardinality({q \in DOMAIN obsels : Matches(q, p) /\ After(obsels, o, q)})

Expected ==
  CASE method = "hrules" ->
         LET S == {o \in DOMAIN obsels : RuleOf(o) # 0}
         IN  [n \in S \X {0} |-> Copy(n[1], Rules[RuleOf(n[1])].type)]
    [] method = "fsa" ->
         LET pairs == {m \in (DOMAIN obsels) \X (DOMAIN obsels) : Matches(m[1], m[2])}
             name(m) == <<m[2], Place(m[1], m[2])>>
         IN  [n \in {name(m) : m \in pairs} |->
                LET m == CHOOSE x \in pairs : name(x) = n
                IN  [b |-> obsels[m[1]].b, e |-> obsels[m[2]].e, type |-> "match"]]
    [] method = "fusion" -> [n \in (DOMAIN obsels) \X {0} |-> Copy(n[1], "own")]

ExpectedArcs ==
  IF method \in {"fsa", "isparql"} THEN {}
  ELSE {r \in arcs : \A o \in r : <<o, 0>> \in DOMAIN Expected}

\* An obsel for each obsel of the source that has rows, with all of them (a strict
\* computation merges them) or one (any other drops the rest).
HasRows ==
  /\ DOMAIN target = {o \in DOMAIN obsels : Rows[Kind[o]] > 0} \X {0}
  /\ \A n \in DOMAIN target :
       target[n] = RowsOf(n[1]) \/ \E row \in RowsOf(n[1]) : target[n] = {row}

\* "Always up-to-date w.r.t. the sources" (doc/source/rest/ComputedTrace.rst:4):
\* whatever the sequence of posts, edits and computations, what is served
\* without computation is what the source and the method say; of isparql, rows
\* that the source gives now, and no other.
TransformUpToDate ==
  ~dirty => /\ IF method = "isparql" THEN HasRows ELSE target = Expected
            /\ targetArcs = ExpectedArcs

\* "Each row returned by your SELECT query will create a new obsel"
\* (doc/source/methods/isparql.rst:24).
RowsAreObsels ==
  ~dirty /\ method = "isparql" =>
    \A o \in DOMAIN obsels :
      Cardinality({n \in DOMAIN target : n[1] = o}) = Rows[Kind[o]]
=============================================================================
