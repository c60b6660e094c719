----------------------------- MODULE ObselSlices -----------------------------
(***************************************************************************)
(* The slices of an obsel collection that the parameters of a GET select   *)
(* (AbstractTraceObsels.get_state), the pages that a client follows with   *)
(* the `next' links, and the tags that vouch for a page.                   *)
(*                                                                         *)
(* f gives the interval of each obsel, whose URIs are numbers; a parameter *)
(* is a set of at most one value, empty when it is not given.              *)
(***************************************************************************)
EXTENDS Naturals, Sequences, FiniteSets, Functions

\* The order of obsels: end, then begin, then URI.
Precedes(f, o, p) ==
  \/ f[o].e < f[p].e
  \/ f[o].e = f[p].e /\ f[o].b < f[p].b
  \/ f[o].e = f[p].e /\ f[o].b = f[p].b /\ o < p

NoParameter ==
  [minb |-> {}, maxb |-> {}, mine |-> {}, maxe |-> {}, after |-> {}, before |-> {},
   limit |-> {}, offset |-> {}, reverse |-> FALSE]

\* check_parameters: `after' and `before' are existing obsels.
CheckParameters(f, p) == p.after \cup p.before \subseteq DOMAIN f

\* The alternatives that are written for `after' and `before'.
AfterCases(f, p, o) ==
  IF p.after = {} THEN <<>> ELSE
  LET a == CHOOSE x \in p.after : TRUE
  IN  <<f[o].e > f[a].e, f[o].e = f[a].e /\ f[o].b > f[a].b,
        f[o].e = f[a].e /\ f[o].b = f[a].b /\ o > a>>
BeforeCases(f, p, o) ==
  IF p.before = {} THEN <<>> ELSE
  LET b == CHOOSE x \in p.before : TRUE
  IN  <<f[o].e < f[b].e, f[o].e = f[b].e /\ f[o].b < f[b].b,
        f[o].e = f[b].e /\ f[o].b = f[b].b /\ o < b>>

\* The conditions of build_select are joined without parentheses: what comes
\* before `after' or `before' limits their first alternative only, what comes
\* after them their last one only.
Joined(first, s, t) ==
  LET one(u, guard) == [u EXCEPT ![1] = guard /\ u[1]]
      last(u, guard) == [u EXCEPT ![Len(u)] = u[Len(u)] /\ guard]
  IN  CASE s = <<>> /\ t = <<>> -> <<first>>
        [] s = <<>> /\ t # <<>> -> one(t, first)
        [] s # <<>> /\ t = <<>> -> one(s, first)
        [] OTHER -> last(one(s, first), t[1]) \o Tail(t)

\* Mutant: the obsel that a page starts after is listed again.
Selected_Inclusive(f, p) ==
  {o \in DOMAIN f :
     /\ \A m \in p.maxb : f[o].b <= m
     /\ \A m \in p.mine : f[o].e >= m
     /\ \A m \in p.minb : f[o].b >= m
     /\ \A m \in p.maxe : f[o].e <= m
     /\ \A a \in p.after : ~Precedes(f, o, a)
     /\ \A b \in p.before : ~Precedes(f, b, o)}

\* build_select, where `maxb' and `mine' come as a pattern of their own.
Selected(f, p) ==
  {o \in DOMAIN f :
     /\ \A m \in p.maxb : f[o].b <= m
     /\ \A m \in p.mine : f[o].e >= m
     /\ LET within == (\A m \in p.minb : f[o].b >= m) /\ (\A m \in p.maxe : f[o].e <= m)
            cases == Joined(within, AfterCases(f, p, o), BeforeCases(f, p, o))
        IN  \E k \in DOMAIN cases : cases[k]}

\* ORDER BY, OFFSET and LIMIT
Sorted(f, S) ==
  CHOOSE q \in [1 .. Cardinality(S) -> S] : \A i, j \in DOMAIN q : i < j => Precedes(f, q[i], q[j])
Listed(f, p, S) ==
  LET size == Cardinality(S)
      ordered == [i \in 1 .. size |-> Sorted(f, S)[IF p.reverse THEN size + 1 - i ELSE i]]
      skip == IF p.offset = {} THEN 0 ELSE CHOOSE n \in p.offset : TRUE
      rest == SubSeq(ordered, skip + 1, Len(ordered))
  IN  IF p.limit = {} THEN rest
      ELSE LET n == CHOOSE x \in p.limit : TRUE IN SubSeq(rest, 1, IF n < Len(rest) THEN n ELSE Len(rest))

\* The obsels that are described.
Slice(f, p) == Listed(f, p, Selected(f, p))

\* maxobs: one of the obsels of the slice that end last, whatever the order.
MaxObs(f, s) == {o \in Range(s) : \A q \in Range(s) : f[q].e <= f[o].e}

\* The `next' link: the filters are kept, the offset is not; zero counts as a
\* parameter that is not given.
Positive(S) == {n \in S : n > 0}
NextLinks(f, p) ==
  LET s == Slice(f, p)
      kept == [NoParameter EXCEPT !.limit = p.limit, !.minb = Positive(p.minb), !.maxb = Positive(p.maxb),
                                  !.mine = Positive(p.mine), !.maxe = Positive(p.maxe)]
  IN  IF Positive(p.limit) = {} \/ s = <<>> THEN {}
      ELSE {IF p.reverse THEN [kept EXCEPT !.reverse = TRUE, !.before = {o}]
                         ELSE [kept EXCEPT !.after = {o}] : o \in MaxObs(f, s)}

\* Mutant: the tags of the whole collection are those of a page.
PageTags_Always(f, range, last, p) == {"str", "pse"}

\* The tags of a page, iter_etags({'maxe': ..., 'before': ...}); last is the
\* last obsel of the collection, or there is none.
PageTags(f, range, last, p) ==
  LET s == Slice(f, p)
      ends == {f[o].e : o \in MaxObs(f, s) \cup p.before}
      maxe == CHOOSE e \in ends : \A d \in ends : d <= e
  IN  CASE last = {} \/ ends = {} -> {}
        [] p.before = last /\ last # {} /\ ends # {} -> {"str"}
        [] OTHER -> LET end == f[CHOOSE o \in last : TRUE].e
                    IN  {t \in {"str", "pse"} : maxe < end /\ (t = "pse" => maxe + range < end)}

----------------------------------------------------------------------------
(* Properties *)

\* The pages that a client visits, from p on.
Pages(f, p) ==
  LET step(acc) == IF acc.at = {} THEN acc
                   ELSE LET q == CHOOSE x \in acc.at : TRUE
                        IN  [seen |-> acc.seen \o Slice(f, q), at |-> NextLinks(f, q)]
      visited[k \in 0 .. Cardinality(DOMAIN f) + 2] == IF k = 0 THEN [seen |-> <<>>, at |-> {p}] ELSE step(visited[k - 1])
  IN  visited[Cardinality(DOMAIN f) + 2]

Untied(f) == \A o, q \in DOMAIN f : f[o].e = f[q].e => o = q

\* By following the `next' links, a client retrieves exactly the obsels that
\* the parameters select, each of them once and in order
\* (doc/source/rest/Trace.rst:79-86), when no two obsels end together.  It does
\* not when the order is reversed: the link starts before the first obsel of
\* the page, not before the last one (trace_obsels.py:280); nor when `before' is
\* given, which the link forgets.
PagesCoverSlice(f, p) ==
  Untied(f) /\ ~p.reverse /\ p.before = {} =>
    LET end == Pages(f, p)
    IN  end.at = {} /\ end.seen = Slice(f, [p EXCEPT !.limit = {}])

LastOf(f) == {o \in DOMAIN f : \A q \in DOMAIN f \ {o} : Precedes(f, q, o)}

\* A page that is served with the strictly monotonic tag is the same after an
\* obsel is collected at the end of the trace, which keeps that tag.  Obsels
\* that the last one hides may appear when begin timestamps are bounded, and
\* those that the last one pushes when the order is reversed; and `before' is
\* not applied to all obsels when `after' is given too (see Joined).
SliceTagSound(f, range, p) ==
  p.minb = {} /\ p.maxb = {} /\ ~p.reverse /\ (p.after = {} \/ p.before = {}) =>
    \A n \in (1 .. Cardinality(DOMAIN f) + 1) \ DOMAIN f : \A i \in [b : 0 .. 3, e : 0 .. 3] :
      LET g == [o \in DOMAIN f \cup {n} |-> IF o = n THEN i ELSE f[o]]
      IN  i.b <= i.e /\ LastOf(g) = {n} /\ "str" \in PageTags(f, range, LastOf(f), p)
            => Slice(g, p) = Slice(f, p)
=============================================================================
