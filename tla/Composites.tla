------------------------------ MODULE Composites ------------------------------
(***************************************************************************)
(* The composite methods (ktbs/methods/pipe.py, parallel.py): a trace that *)
(* they compute is the fusion of intermediate traces of the same base,     *)
(* which its description creates, updates and deletes, one per sub-method: *)
(* in a chain (pipe), or side by side (parallel).                          *)
(*                                                                         *)
(* What a trace holds is the sequence of what it is made from: the obsels  *)
(* of a stored trace, which have a version, then the methods, each with    *)
(* the version of its parameters.                                          *)
(***************************************************************************)
EXTENDS Naturals, FiniteSetsExt, Sequences

CONSTANTS
  Kind,         \* "pipe" or "parallel"
  SubMethods,   \* the methods that it may be made of
  MaxLength,    \* bound: sub-methods at a time
  MaxVersion    \* bound: changes of the obsels of the sources and of the methods

Sources == {"s", "t"}

CompositesAssumption ==
  Kind \in {"pipe", "parallel"} /\ SubMethods \cap Sources = {} /\ {MaxLength, MaxVersion} \subseteq Nat

VARIABLES
  made,       \* the composite trace
  parts,      \* the intermediate traces, by their number
  versions    \* of the obsels of the stored traces, and of the methods

composites == <<made, parts, versions>>

Declared == 0   \* stands for the source of the composite trace, as a number

\* What a trace computed with method m from a trace that holds q will hold.
Apply(m, q) == Append(q, <<m, versions[m]>>)
Stored(s) == <<<<s, versions[s]>>>>

----------------------------------------------------------------------------
(* Intermediate traces *)

\* A part reads the source that it was created with: a stored trace (named),
\* or the part before.
Holds(P, i) == P[i].holds
SourceHolds(P, i) == IF P[i].prev = Declared THEN Stored(P[i].source) ELSE Holds(P, P[i].prev)

NewPart(i, m) ==
  [method |-> m, prev |-> IF Kind = "pipe" /\ i > 1 THEN i - 1 ELSE Declared, source |-> made.source,
   holds |-> <<>>, dirty |-> TRUE]

\* Mutant: a part that exists is kept as it is.
Updated_Kept(p, m) == p

\* A part that exists gets the method, and is dirty if it had another one.
Updated(p, m) == [p EXCEPT !.method = m, !.dirty = @ \/ p.method # m]

Prepared(P, methods) ==
  [i \in DOMAIN P \cup DOMAIN methods |->
     CASE i \in DOMAIN methods /\ i \in DOMAIN P -> Updated(P[i], methods[i])
       [] i \in DOMAIN methods /\ i \notin DOMAIN P -> NewPart(i, methods[i])
       [] OTHER -> P[i]]

\* The parts after the last method, up to the first number that is missing,
\* are deleted from the last one: what is the source of another is not.
Spurious(P, n) == {i \in DOMAIN P : i > n /\ \A j \in n + 1 .. i : j \in DOMAIN P}
Trimmed(P, n) == [i \in DOMAIN P \ Spurious(P, n) |-> P[i]]

\* Parts are computed in order: those before are refreshed first, and what was
\* computed again makes those after it dirty.
RefreshPart(P, i) ==
  IF ~P[i].dirty THEN P
  ELSE [j \in DOMAIN P |->
          CASE j = i -> [P[i] EXCEPT !.holds = Apply(P[i].method, SourceHolds(P, i)), !.dirty = FALSE]
            [] j # i /\ P[j].prev = i -> [P[j] EXCEPT !.dirty = TRUE]
            [] OTHER -> P[j]]
RefreshAll(P, S) ==
  LET refreshed[n \in 0 .. MaxLength] ==
        IF n = 0 THEN P ELSE IF n \in S THEN RefreshPart(refreshed[n - 1], n) ELSE refreshed[n - 1]
  IN  refreshed[MaxLength]

----------------------------------------------------------------------------
(* The composite trace *)

\* compute_trace_description: there must be a method; otherwise it fails, and
\* the effective sources remain.
Described(methods) == methods # <<>>
Effective(methods) == IF Kind = "pipe" THEN {Len(methods)} ELSE DOMAIN methods

\* The parts that the effective sources depend on.
Upstream(P, S) == IF Kind = "pipe" THEN {j \in DOMAIN P : \E i \in S : j <= i} ELSE S \cap DOMAIN P

\* GET of its obsels: its description if need be, then its effective sources,
\* then the fusion of what they hold.
Get ==
  LET undescribed == ~made.described /\ ~Described(made.methods)
      next == IF made.described \/ undescribed THEN parts
              ELSE Trimmed(Prepared(parts, made.methods), Len(made.methods))
      effective == IF made.described \/ undescribed THEN made.effective ELSE Effective(made.methods)
      failed == undescribed \/ ~(effective \subseteq DOMAIN next)
      fresh == RefreshAll(next, Upstream(next, effective))
  IN  /\ made.effective \subseteq DOMAIN parts
      /\ parts' = fresh
      /\ made' = [made EXCEPT !.described = ~undescribed, !.effective = effective, !.dirty = @ /\ failed, !.read = ~failed,
            !.holds = IF made.dirty /\ ~failed THEN {Holds(fresh, i) : i \in effective} ELSE @]
      /\ UNCHANGED versions

\* When one of the effective sources that it had is missing, it fails before its
\* description is computed; those that come before that one are refreshed.
GetFails ==
  /\ ~(made.effective \subseteq DOMAIN parts)
  /\ \E S \in SUBSET (made.effective \cap DOMAIN parts) : parts' = RefreshAll(parts, Upstream(parts, S))
  /\ made' = [made EXCEPT !.read = FALSE]
  /\ UNCHANGED versions

\* An edit of its parameter, or of its source, makes its description and its
\* obsels dirty.
SetMethods(methods) ==
  /\ methods # made.methods
  /\ made' = [made EXCEPT !.methods = methods, !.described = FALSE, !.dirty = TRUE, !.read = FALSE, !.missed = FALSE]
  /\ UNCHANGED <<parts, versions>>

SetSource(s) ==
  /\ s # made.source
  /\ made' = [made EXCEPT !.source = s, !.described = FALSE, !.dirty = TRUE, !.read = FALSE, !.missed = FALSE]
  /\ UNCHANGED <<parts, versions>>

Changes == MapThenSumSet(LAMBDA x : versions[x], DOMAIN versions)

\* A post makes what has the stored trace as source dirty: the composite trace
\* too, which declares it.
Told(s) == made.source = s

Post(s) ==
  /\ Changes < MaxVersion
  /\ versions' = [versions EXCEPT ![s] = @ + 1]
  /\ parts' = [i \in DOMAIN parts |->
                 [parts[i] EXCEPT !.dirty = @ \/ (parts[i].prev = Declared /\ parts[i].source = s)]]
  /\ made' = [made EXCEPT !.dirty = @ \/ Told(s), !.read = FALSE, !.missed = @ /\ ~Told(s)]

\* An edit of a method makes the traces that use it dirty; a composite trace
\* only names it, and misses the edit unless it is dirty anyway.
EditMethod(m) ==
  /\ Changes < MaxVersion
  /\ versions' = [versions EXCEPT ![m] = @ + 1]
  /\ parts' = [i \in DOMAIN parts |-> [parts[i] EXCEPT !.dirty = @ \/ parts[i].method = m]]
  /\ made' = [made EXCEPT !.read = FALSE, !.missed = ~made.dirty]

\* A client reads an intermediate trace, or deletes one that no other uses.
GetPart(i) ==
  /\ parts' = RefreshAll(parts, Upstream(parts, {i}))
  /\ UNCHANGED <<made, versions>>

DeletePart(i) ==
  /\ \A j \in DOMAIN parts : parts[j].prev # i
  /\ parts' = [j \in DOMAIN parts \ {i} |-> parts[j]]
  /\ made' = [made EXCEPT !.read = FALSE]
  /\ UNCHANGED versions

MethodLists == UNION {[1 .. n -> SubMethods] : n \in 0 .. MaxLength}

Init ==
  /\ versions = [x \in Sources \cup SubMethods |-> 0]
  /\ parts = <<>>
  /\ \E q \in MethodLists : made = [methods |-> q, source |-> "s", described |-> FALSE, effective |-> {}, dirty |-> TRUE,
                                    holds |-> {}, read |-> FALSE, missed |-> FALSE]

Next ==
  \/ Get \/ GetFails
  \/ \E q \in MethodLists : SetMethods(q)
  \/ \E s \in Sources : SetSource(s) \/ Post(s)
  \/ \E m \in SubMethods : EditMethod(m)
  \/ \E i \in DOMAIN parts : GetPart(i) \/ DeletePart(i)

Spec == Init /\ [][Next]_composites

----------------------------------------------------------------------------
(* Properties *)

Chain(q) == Stored(made.source) \o [i \in DOMAIN q |-> <<q[i], versions[q[i]]>>]
Expected == IF Kind = "pipe" THEN {Chain(made.methods)} ELSE {Chain(<<made.methods[i]>>) : i \in DOMAIN made.methods}

\* Known defects of the code, each on record: intermediate traces keep the source
\* that they were created with, and those after a missing number are not found.
FormerSource == \E i \in DOMAIN parts : parts[i].prev = Declared /\ parts[i].source # made.source
Gap == \E i \in DOMAIN parts : \E j \in 1 .. i : j \notin DOMAIN parts

\* What a client reads from a composite trace is what its methods, as they are,
\* make of its source, as it is, but for an edit of a method, which it misses
\* until the next post or edit of its own; and there are as many intermediate
\* traces as methods, whatever was read, changed or deleted before.
CompositeUpToDate ==
  made.read =>
    /\ made.holds = Expected \/ made.missed \/ FormerSource
    /\ DOMAIN parts = DOMAIN made.methods \/ Gap
=============================================================================
