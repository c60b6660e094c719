--------------------------- MODULE ObselCollection ---------------------------
(***************************************************************************)
(* The obsels of a stored trace (lib/ktbs/engine/trace_obsels.py), with    *)
(* the metadata that the rest of the system trusts: the last obsel, and    *)
(* the four tags by which computed traces and HTTP caches decide what has  *)
(* not changed.                                                            *)
(*                                                                         *)
(* Obsels are collected by post_graph, several at a time; the collection   *)
(* is amended by any other edit.  A tag is a token derived from the time   *)
(* and the previous etag, never equal to an earlier one; `renewed` says    *)
(* which tags the last operation replaced, and the properties relate it to *)
(* what the operation did to the obsels.                                   *)
(*                                                                         *)
(* The URIs of the obsels are numbers: only their order matters.  An arc   *)
(* between two obsels is the pair of them, whatever its direction.         *)
(***************************************************************************)
EXTENDS Naturals, FiniteSets, Sequences

CONSTANTS
  Ids,          \* URIs of obsels, in their order
  MaxTime,      \* bound: timestamps
  Ranges,       \* pseudo-monotonicity ranges
  MaxBatch,     \* bound: obsels in a posted graph (1 or 2)
  MaxRel,       \* bound: obsels that a new one is related to
  None,         \* no obsel
  AmendLast,    \* may an edit give the last obsel an earlier end?
  TiedLast      \* may an edit leave two obsels with the greatest end?

ASSUME IdsAssumption == Ids \subseteq Nat /\ None \notin Ids
ASSUME MaxTimeAssumption == MaxTime \in Nat
ASSUME RangesAssumption == Ranges \subseteq Nat
ASSUME BatchAssumption == MaxBatch \in {1, 2} /\ MaxRel \in Nat
ASSUME EditsAssumption == AmendLast \in BOOLEAN /\ TiedLast \in BOOLEAN

VARIABLES
  obsels,    \* begin and end of each obsel of the collection
  arcs,      \* pairs of related obsels
  last,      \* METADATA.last_obsel
  range,     \* pseudo-monotonicity range of the trace
  renewed    \* tags that the last operation replaced

collection == <<obsels, arcs, last, range, renewed>>

Intervals == {i \in [b : 0 .. MaxTime, e : 0 .. MaxTime] : i.b <= i.e}

Contents == UNION {[S -> Intervals] : S \in SUBSET Ids}

AllTags == {"etag", "str", "pse", "log"}

\* The order of obsels: end, then begin, then URI.
After(f, o, p) ==
  \/ f[o].e > f[p].e
  \/ f[o].e = f[p].e /\ f[o].b > f[p].b
  \/ f[o].e = f[p].e /\ f[o].b = f[p].b /\ o > p

Init ==
  /\ obsels = [o \in {} |-> [b |-> 0, e |-> 0]]
  /\ arcs = {}
  /\ last = None
  /\ range \in Ranges
  /\ renewed = AllTags

----------------------------------------------------------------------------
(* Collecting: StoredTrace.post_graph *)

\* prepare_edit: the last obsel and its timestamps, and no change detected.
Prepared ==
  [last |-> last,
   b |-> IF last = None THEN 0 ELSE obsels[last].b,
   e |-> IF last = None THEN 0 ELSE obsels[last].e,
   str |-> TRUE, pse |-> TRUE]

\* Mutant: the begin timestamps of obsels that end together are not compared.
NotAfterLast_EndOnly(p, o, i) == i.e < p.e

\* Is obsel o, with interval i, placed before the last obsel of p, or is it it?
NotAfterLast(p, o, i) ==
  \/ i.e < p.e
  \/ i.e = p.e /\ i.b < p.b
  \/ i.e = p.e /\ i.b = p.b /\ o <= p.last

\* Mutant: the range is not subtracted from the end of the last obsel.
BeyondRange_Loose(p, i) == i.e + 2 * range < p.e

\* Is an obsel with interval i too far from the last obsel of p?
BeyondRange(p, i) ==
  \/ i.e + range < p.e
  \/ i.e = p.e /\ i.b + range < p.b

\* Mutant: the obsels that the new one is related to are not looked at.
Detect_NewOnly(p, x, f) ==
  IF p.last = None
  THEN [p EXCEPT !.last = x.id, !.b = x.b, !.e = x.e]
  ELSE LET str == ~NotAfterLast(p, x.id, f[x.id])
       IN  [last |-> IF str THEN x.id ELSE p.last,
            b |-> IF str THEN x.b ELSE p.b,
            e |-> IF str THEN x.e ELSE p.e,
            str |-> p.str /\ str,
            pse |-> p.pse /\ ~BeyondRange(p, f[x.id])]

\* _detect_mon_change, for a new obsel x; f has the timestamps of all obsels,
\* x included.  An arc changes both obsels, so the related ones count too.
Detect(p, x, f) ==
  IF p.last = None
  THEN [p EXCEPT !.last = x.id, !.b = x.b, !.e = x.e]
  ELSE LET changed == {x.id} \cup x.rel
           isLast == ~NotAfterLast(p, x.id, f[x.id])
       IN  [last |-> IF isLast THEN x.id ELSE p.last,
            b |-> IF isLast THEN x.b ELSE p.b,
            e |-> IF isLast THEN x.e ELSE p.e,
            str |-> p.str /\ \A o \in changed : ~NotAfterLast(p, o, f[o]),
            pse |-> p.pse /\ \A o \in changed : ~BeyondRange(p, f[o])]

\* The graphs that may be posted: new obsels, sorted by begin and end, each
\* related to obsels that are there when it is added.
NewObsel(known) ==
  {x \in [id : Ids, b : 0 .. MaxTime, e : 0 .. MaxTime, rel : SUBSET known] :
     x.id \notin known /\ x.b <= x.e /\ Cardinality(x.rel) <= MaxRel}
Sorted(x, y) == x.b < y.b \/ (x.b = y.b /\ x.e <= y.e)
Batches ==
  LET one == NewObsel(DOMAIN obsels)
      two(x) == {y \in NewObsel(DOMAIN obsels \cup {x.id}) : Sorted(x, y)}
  IN  {<<x>> : x \in one} \cup
      IF MaxBatch = 1 THEN {} ELSE UNION {{<<x, y>> : y \in two(x)} : x \in one}

Members(batch) == {batch[k] : k \in DOMAIN batch}

\* The collection once an obsel is added.
With(f, x) ==
  [o \in DOMAIN f \cup {x.id} |-> IF o = x.id THEN [b |-> x.b, e |-> x.e] ELSE f[o]]

\* The obsels are added and compared with the last one, one by one.
Added(so, x) ==
  LET f == With(so.obsels, x)
  IN  [obsels |-> f, p |-> Detect(so.p, x, f)]
Collect(batch) ==
  LET one == Added([obsels |-> obsels, p |-> Prepared], batch[1])
  IN  IF Len(batch) = 1 THEN one ELSE Added(one, batch[2])

\* _update_bk_metadata_in
TagsAfter(p) ==
  {"etag"} \cup (IF p.str THEN {} ELSE {"str"}) \cup (IF p.pse THEN {} ELSE {"pse"})

\* post_graph: with obsel_collection.edit({"add_obsels_only": 1}), then ack_edit.
Post(batch) ==
  LET result == Collect(batch)
  IN  /\ obsels' = result.obsels
      /\ arcs' = arcs \cup UNION {{{x.id, o} : o \in x.rel} : x \in Members(batch)}
      /\ last' = result.p.last
      /\ renewed' = TagsAfter(result.p)
      /\ UNCHANGED range

----------------------------------------------------------------------------
(* Amending: every edit without add_obsels_only *)

Latest(f, S) == {o \in S : \A p \in S : f[p].e <= f[o].e}

\* What FIND_LAST_OBSEL may return: one of the obsels with the greatest end,
\* among those that end no sooner than the last obsel did, if it is still there.
FindLast(f) ==
  LET from == IF last # None /\ last \in DOMAIN f
              THEN {o \in DOMAIN f : f[o].e >= obsels[last].e}
              ELSE DOMAIN f
  IN  IF from = {} THEN {None} ELSE Latest(f, from)

\* ack_edit: all the tags, and the last obsel.
AckEdit(f) == last' \in FindLast(f) /\ renewed' = AllTags

\* What the two constants allow an edit to do.
MayLeave(f) ==
  /\ ~AmendLast /\ last \in DOMAIN f => f[last].e >= obsels[last].e
  /\ ~TiedLast => \A o, p \in Latest(f, DOMAIN f) : o = p

\* Any new content: obsels removed, changed, added; arcs removed.
Edit(f, keptArcs) ==
  /\ MayLeave(f)
  /\ obsels' = f
  /\ arcs' = {a \in keptArcs : a \subseteq DOMAIN f}
  /\ AckEdit(f)
  /\ UNCHANGED range

\* delete: the collection is emptied, not destroyed.
Empty == Edit([o \in {} |-> [b |-> 0, e |-> 0]], {})

\* The trace is given another range (AbstractTrace.ack_edit): if it is wider,
\* an empty edit of the collection renews the tags.
ChangeRange(r) ==
  /\ r # range
  /\ range' = r
  /\ IF r > range THEN MayLeave(obsels) /\ AckEdit(obsels)
                  ELSE UNCHANGED last /\ renewed' = {}
  /\ UNCHANGED <<obsels, arcs>>

----------------------------------------------------------------------------

Next ==
  \/ \E batch \in Batches : Post(batch)
  \/ \E f \in Contents : \E kept \in SUBSET arcs : Edit(f, kept)
  \/ Empty
  \/ \E r \in Ranges : ChangeRange(r)

Spec == Init /\ [][Next]_collection

----------------------------------------------------------------------------
(* Properties *)

TypeOK ==
  /\ obsels \in Contents
  /\ arcs \subseteq SUBSET DOMAIN obsels
  /\ last \in DOMAIN obsels \cup {None}
  /\ range \in Ranges
  /\ renewed \subseteq AllTags

\* The metadata names the last obsel of the collection, in the order in which
\* obsels are listed.
LastIsLast ==
  IF DOMAIN obsels = {} THEN last = None
  ELSE /\ last # None
       /\ \A o \in DOMAIN obsels \ {last} : After(obsels, last, o)

Untouched(o) ==
  /\ o \in DOMAIN obsels' /\ obsels'[o] = obsels[o]
  /\ {a \in arcs' : o \in a} = {a \in arcs : o \in a}

\* "It does not change as long as obsels are added after all existing obsels,
\* without any relation to previous obsels" (trace_obsels.py:75): while the
\* strictly monotonic tag is kept, the listing only grows at its end.
StrMonTagSound ==
  [][renewed' # {} /\ "str" \notin renewed' =>
       /\ \A o \in DOMAIN obsels : Untouched(o)
       /\ \A n \in DOMAIN obsels' \ DOMAIN obsels :
            \A o \in DOMAIN obsels : After(obsels', n, o)]_collection

EndOf(f) == IF DOMAIN f = {} THEN 0 ELSE f[CHOOSE o \in Latest(f, DOMAIN f) : TRUE].e

\* While the pseudo-monotonic tag is kept, the obsels that are added or that
\* get new arcs end within the range of the end of the trace.
PseMonTagSound ==
  [][renewed' # {} /\ "pse" \notin renewed' =>
       /\ \A o \in DOMAIN obsels : o \in DOMAIN obsels' /\ obsels'[o] = obsels[o]
       /\ \A o \in DOMAIN obsels' :
            o \notin DOMAIN obsels \/ ~Untouched(o)
              => obsels'[o].e + range >= EndOf(obsels)]_collection

\* "It does not change as long as arcs are only added to the graph, not
\* removed" (trace_obsels.py:112).
LogMonTagSound ==
  [][renewed' # {} /\ "log" \notin renewed' =>
       /\ \A o \in DOMAIN obsels : o \in DOMAIN obsels' /\ obsels'[o] = obsels[o]
       /\ arcs \subseteq arcs']_collection

----------------------------------------------------------------------------
(* Caching a page of the listing *)

\* iter_etags: the tags that vouch for the page of the obsels ending by maxe.
PageTags(maxe) ==
  {t \in {"str", "pse"} :
     /\ last # None
     /\ maxe < obsels[last].e
     /\ t = "pse" => maxe + range < obsels[last].e}

Page(f, r, maxe) ==
  LET shown == {o \in DOMAIN f : f[o].e <= maxe}
  IN  <<[o \in shown |-> f[o]], {a \in r : a \cap shown # {}}>>

\* A client that was given a page with one of these tags may keep it as long
\* as the collection keeps the tag: the page has not changed.
PageTagSound ==
  [][\A maxe \in 0 .. MaxTime :
       PageTags(maxe) \subseteq renewed' \/
       Page(obsels', arcs', maxe) = Page(obsels, arcs, maxe)]_collection
=============================================================================
