------------------------ MODULE FilteredTrace_proofs -------------------------
(***************************************************************************)
(* What the tags of an obsel collection vouch for, for any URIs, instants  *)
(* and ranges, as long as edits leave the last obsel last and alone.  Then *)
(* a filtered trace that is computed incrementally, by what the tags of    *)
(* its source vouch for, is the one that a computation from scratch gives, *)
(* for any boundaries too: as long as requests wait for the computation    *)
(* under way, and in the other conditions in which TLC finds it true (the  *)
(* constants of FilteredTrace that are FALSE in Assumed).                  *)
(***************************************************************************)
EXTENDS FilteredTrace, TLAPS

USE IdsAssumption, MaxTimeAssumption, RangesAssumption, BatchAssumption, EditsAssumption

----------------------------------------------------------------------------
(* The inductive invariant *)

IInv == TypeOK /\ LastIsLast

\* Monotonicity as prepare_edit and _detect_mon_change keep it.
Detections ==
  [last : Ids \cup {None}, b : 0 .. MaxTime, e : 0 .. MaxTime, str : BOOLEAN, pse : BOOLEAN]

\* p knows the last obsel of f, and when it is.
Knows(p, f) ==
  IF p.last = None THEN DOMAIN f = {}
  ELSE /\ p.last \in DOMAIN f /\ f[p.last] = [b |-> p.b, e |-> p.e]
       /\ \A o \in DOMAIN f \ {p.last} : After(f, p.last, o)

\* f is g, or is what obsels added to g make of it.
Keeps(f, g) == DOMAIN g \subseteq DOMAIN f /\ \A o \in DOMAIN g : f[o] = g[o]

----------------------------------------------------------------------------
(* Timestamps *)

LEMMA ContentsAre ==
  \A f : f \in Contents <=> DOMAIN f \subseteq Ids /\ f \in [DOMAIN f -> Intervals]
BY DEF Contents

LEMMA Times ==
  ASSUME NEW f \in Contents, NEW o \in DOMAIN f
  PROVE  /\ o \in Ids /\ o \in Nat /\ o # None
         /\ f[o] = [b |-> f[o].b, e |-> f[o].e] /\ f[o].b \in 0 .. MaxTime /\ f[o].e \in 0 .. MaxTime
         /\ f[o].b \in Nat /\ f[o].e \in Nat
<1>1. DOMAIN f \subseteq Ids /\ f \in [DOMAIN f -> Intervals]
  BY ContentsAre
<1>2. f[o] \in Intervals
  BY <1>1, ContentsAre
<1>3. f[o] \in [b : 0 .. MaxTime, e : 0 .. MaxTime]
  BY <1>2 DEF Intervals
<1>4. f[o].b \in 0 .. MaxTime /\ f[o].e \in 0 .. MaxTime /\ f[o] = [b |-> f[o].b, e |-> f[o].e]
  BY <1>3
<1>5. o \in Ids /\ o \in Nat /\ o # None
  BY <1>1
<1>6. f[o].b \in Nat /\ f[o].e \in Nat
  BY <1>4
<1> QED
  BY <1>4, <1>5, <1>6

LEMMA AfterIsTransitive ==
  ASSUME NEW f \in Contents, NEW o \in DOMAIN f, NEW p \in DOMAIN f, NEW q \in DOMAIN f,
         After(f, o, p), After(f, p, q)
  PROVE  After(f, o, q)
BY Times DEF After

\* A collection with one more obsel keeps the others, and their order.
LEMMA WithKeeps ==
  ASSUME NEW f \in Contents, NEW known, known = DOMAIN f, NEW x \in NewObsel(known)
  PROVE  LET g == With(f, x)
         IN  /\ g \in Contents /\ DOMAIN g = DOMAIN f \cup {x.id} /\ x.id \notin DOMAIN f
             /\ Keeps(g, f) /\ g[x.id] = [b |-> x.b, e |-> x.e]
             /\ x.rel \subseteq DOMAIN f
             /\ \A o, p \in DOMAIN f : After(g, o, p) <=> After(f, o, p)
<1> DEFINE g == With(f, x)
<1>1. /\ x.id \in Ids /\ x.b \in 0 .. MaxTime /\ x.e \in 0 .. MaxTime /\ x.b <= x.e
      /\ x.id \notin DOMAIN f /\ x.rel \subseteq DOMAIN f
  BY DEF NewObsel
<1>2. DOMAIN g = DOMAIN f \cup {x.id} /\ g[x.id] = [b |-> x.b, e |-> x.e]
  BY DEF With
<1>3. \A o \in DOMAIN f : g[o] = f[o]
  BY <1>1 DEF With
<1>4. g \in Contents
  <2>1. [b |-> x.b, e |-> x.e] \in Intervals
    BY <1>1 DEF Intervals
  <2>2. DOMAIN f \subseteq Ids /\ \A o \in DOMAIN f : f[o] \in Intervals
    BY ContentsAre
  <2>3. g \in [DOMAIN g -> Intervals]
    BY <1>2, <2>1, <2>2 DEF With
  <2> QED
    BY <1>1, <1>2, <2>2, <2>3, ContentsAre
<1>5. \A o, p \in DOMAIN f : After(g, o, p) <=> After(f, o, p)
  BY <1>3 DEF After
<1> HIDE DEF g
<1> QED
  BY <1>1, <1>2, <1>3, <1>4, <1>5 DEF g, Keeps

----------------------------------------------------------------------------
(* Detecting *)

\* What _detect_mon_change finds of a new obsel, and what it promises when it
\* finds nothing.
LEMMA DetectKnows ==
  ASSUME NEW f \in Contents, NEW p \in Detections, Knows(p, f),
         NEW known, known = DOMAIN f, NEW x \in NewObsel(known), range \in Ranges
  PROVE  LET g == With(f, x)
             q == Detect(p, x, g)
         IN  /\ q \in Detections /\ Knows(q, g)
             /\ q.str => p.str /\ x.rel = {} /\ \A o \in DOMAIN f : After(g, x.id, o)
             /\ q.pse => p.pse
             /\ p.last # None =>
                  /\ q.e >= p.e
                  /\ q.pse => \A o \in {x.id} \cup x.rel : g[o].e + range >= p.e
<1> DEFINE g == With(f, x)
           q == Detect(p, x, g)
           changed == {x.id} \cup x.rel
<1>0. /\ g \in Contents /\ DOMAIN g = DOMAIN f \cup {x.id} /\ x.id \notin DOMAIN f
      /\ \A o \in DOMAIN f : g[o] = f[o]
      /\ g[x.id] = [b |-> x.b, e |-> x.e] /\ x.rel \subseteq DOMAIN f
      /\ \A o, r \in DOMAIN f : After(g, o, r) <=> After(f, o, r)
  BY WithKeeps DEF Keeps
<1>p. /\ p.last \in Ids \cup {None} /\ p.b \in 0 .. MaxTime /\ p.e \in 0 .. MaxTime
      /\ p.str \in BOOLEAN /\ p.pse \in BOOLEAN
      /\ p = [last |-> p.last, b |-> p.b, e |-> p.e, str |-> p.str, pse |-> p.pse]
  BY DEF Detections
<1>x. /\ x.id \in Ids /\ x.id \in Nat /\ x.id # None
      /\ x.b \in 0 .. MaxTime /\ x.e \in 0 .. MaxTime
  BY DEF NewObsel
<1> HIDE DEF g
<1>1. CASE p.last = None
  <2>1. q = [last |-> x.id, b |-> x.b, e |-> x.e, str |-> p.str, pse |-> p.pse]
    BY <1>1, <1>p DEF Detect
  <2> HIDE DEF q
  <2>2. DOMAIN f = {} /\ DOMAIN g = {x.id} /\ x.rel = {}
    BY <1>0, <1>1 DEF Knows
  <2>3. q \in Detections
    BY <1>p, <1>x, <2>1 DEF Detections
  <2>4. Knows(q, g)
    BY <1>0, <1>x, <2>1, <2>2 DEF Knows
  <2> QED
    BY <1>1, <2>1, <2>2, <2>3, <2>4 DEF q, g
<1>2. CASE p.last # None
  <2> DEFINE isLast == ~NotAfterLast(p, x.id, g[x.id])
  <2>1. q = [last |-> IF isLast THEN x.id ELSE p.last,
             b |-> IF isLast THEN x.b ELSE p.b,
             e |-> IF isLast THEN x.e ELSE p.e,
             str |-> p.str /\ \A o \in changed : ~NotAfterLast(p, o, g[o]),
             pse |-> p.pse /\ \A o \in changed : ~BeyondRange(p, g[o])]
    BY <1>2 DEF Detect
  <2> HIDE DEF q
  <2>2. /\ p.last \in DOMAIN f /\ g[p.last] = [b |-> p.b, e |-> p.e] /\ p.last \in Nat
        /\ \A o \in DOMAIN f \ {p.last} : After(g, p.last, o)
    BY <1>0, <1>2, <1>p DEF Knows
  <2>3. isLast <=> After(g, x.id, p.last)
    <3>1. x.id # p.last
      BY <1>0, <2>2
    <3> QED
      BY <1>0, <1>p, <1>x, <2>2, <3>1 DEF NotAfterLast, After
  <2>4. ~isLast => After(g, p.last, x.id)
    <3>1. x.id # p.last
      BY <1>0, <2>2
    <3> QED
      BY <1>0, <1>p, <1>x, <2>2, <3>1 DEF NotAfterLast, After
  <2>5. isLast => \A o \in DOMAIN f : After(g, x.id, o)
    <3> SUFFICES ASSUME isLast, NEW o \in DOMAIN f PROVE After(g, x.id, o)
      OBVIOUS
    <3>1. CASE o = p.last
      BY <2>3, <3>1
    <3>2. CASE o # p.last
      BY <1>0, <2>2, <2>3, <3>2, AfterIsTransitive
    <3> QED
      BY <3>1, <3>2
  <2>6. q \in Detections
    <3>1. /\ q.last \in Ids \cup {None} /\ q.b \in 0 .. MaxTime /\ q.e \in 0 .. MaxTime
      BY <1>p, <1>x, <2>1
    <3>2. q.str \in BOOLEAN /\ q.pse \in BOOLEAN
      BY <1>p, <2>1
    <3> QED
      BY <2>1, <3>1, <3>2 DEF Detections
  <2>7. Knows(q, g)
    <3>1. CASE isLast
      BY <1>0, <1>x, <2>1, <2>5, <3>1 DEF Knows
    <3>2. CASE ~isLast
      BY <1>0, <1>2, <2>1, <2>2, <2>4, <3>2 DEF Knows
    <3> QED
      BY <3>1, <3>2
  <2>8. ASSUME q.str PROVE p.str /\ x.rel = {} /\ isLast
    <3>1. p.str /\ \A o \in changed : ~NotAfterLast(p, o, g[o])
      BY <2>1, <2>8
    <3>2. isLast
      BY <3>1
    <3>3. ASSUME NEW o \in x.rel PROVE FALSE
      <4>1. o \in DOMAIN g /\ o \in DOMAIN f /\ ~NotAfterLast(p, o, g[o])
        BY <1>0, <3>1, <3>3
      <4>2. o = p.last \/ After(g, p.last, o)
        BY <2>2, <4>1
      <4>3. o \in Nat /\ g[o].b \in Nat /\ g[o].e \in Nat
        BY <1>0, <4>1, Times
      <4> QED
        BY <1>p, <2>2, <4>1, <4>2, <4>3 DEF NotAfterLast, After
    <3> QED
      BY <3>1, <3>2, <3>3
  <2>9. q.e >= p.e
    <3>1. isLast => x.e >= p.e
      BY <1>0, <1>p, <1>x DEF NotAfterLast
    <3> QED
      BY <1>p, <2>1, <3>1
  <2>10. ASSUME q.pse, NEW o \in changed PROVE g[o].e + range >= p.e
    <3>1. ~BeyondRange(p, g[o])
      BY <2>1, <2>10
    <3>2. o \in DOMAIN g
      BY <1>0, <2>10
    <3>3. g[o].e \in Nat /\ range \in Nat
      BY <1>0, <3>2, Times
    <3> QED
      BY <1>p, <3>1, <3>3 DEF BeyondRange
  <2>11. q.pse => p.pse
    BY <2>1
  <2> QED
    BY <2>5, <2>6, <2>7, <2>8, <2>9, <2>10, <2>11 DEF q, g
<1> QED
  BY <1>1, <1>2

LEMMA PreparedKnows ==
  ASSUME IInv
  PROVE  /\ obsels \in Contents /\ range \in Ranges
         /\ Prepared \in Detections /\ Knows(Prepared, obsels)
         /\ last # None => last \in DOMAIN obsels /\ Prepared.e = obsels[last].e
<1>0. obsels \in Contents /\ range \in Ranges /\ last \in DOMAIN obsels \cup {None}
  BY DEF IInv, TypeOK
<1>1. CASE last = None
  <2>1. Prepared = [last |-> None, b |-> 0, e |-> 0, str |-> TRUE, pse |-> TRUE]
    BY <1>1 DEF Prepared
  <2>2. DOMAIN obsels = {}
    BY <1>1 DEF IInv, LastIsLast
  <2> QED
    BY <1>0, <1>1, <2>1, <2>2 DEF Detections, Knows
<1>2. CASE last # None
  <2>0. last \in DOMAIN obsels
    BY <1>0, <1>2
  <2>1. Prepared = [last |-> last, b |-> obsels[last].b, e |-> obsels[last].e,
                    str |-> TRUE, pse |-> TRUE]
    BY <1>2 DEF Prepared
  <2>2. /\ last \in Ids /\ obsels[last] = [b |-> obsels[last].b, e |-> obsels[last].e]
        /\ obsels[last].b \in 0 .. MaxTime /\ obsels[last].e \in 0 .. MaxTime
    BY <1>0, <2>0, Times
  <2>3. \A o \in DOMAIN obsels \ {last} : After(obsels, last, o)
    BY <2>0 DEF IInv, LastIsLast
  <2>4. Prepared \in Detections
    BY <2>1, <2>2 DEF Detections
  <2>5. Knows(Prepared, obsels)
    BY <1>2, <2>0, <2>1, <2>2, <2>3 DEF Knows
  <2> QED
    BY <1>0, <2>0, <2>1, <2>4, <2>5
<1> QED
  BY <1>1, <1>2

\* What a posted graph, of one obsel or two, leaves of the collection and of
\* what was known of it.
LEMMA Collected ==
  ASSUME IInv, NEW batch \in Batches
  PROVE  LET f == Collect(batch).obsels
             p == Collect(batch).p
         IN  /\ f \in Contents /\ Keeps(f, obsels) /\ p \in Detections /\ Knows(p, f)
             /\ DOMAIN f = DOMAIN obsels \cup {x.id : x \in Members(batch)}
             /\ \A x \in Members(batch) : x.id \notin DOMAIN obsels /\ x.rel \subseteq DOMAIN f
             /\ p.str => \A x \in Members(batch) :
                           x.rel = {} /\ \A o \in DOMAIN obsels : After(f, x.id, o)
             /\ p.pse /\ last # None =>
                  \A x \in Members(batch) : \A o \in {x.id} \cup x.rel :
                    f[o].e + range >= obsels[last].e
<1>0. /\ obsels \in Contents /\ range \in Ranges
      /\ Prepared \in Detections /\ Knows(Prepared, obsels)
      /\ last # None => last \in DOMAIN obsels /\ Prepared.e = obsels[last].e
      /\ Prepared.last = last
  BY PreparedKnows DEF Prepared
<1>1. PICK x \in NewObsel(DOMAIN obsels) :
        \/ batch = <<x>>
        \/ \E y \in NewObsel(DOMAIN obsels \cup {x.id}) : batch = <<x, y>>
  BY DEF Batches
<1> DEFINE f == With(obsels, x)
           p == Detect(Prepared, x, f)
<1>f. /\ f \in Contents /\ DOMAIN f = DOMAIN obsels \cup {x.id} /\ x.id \notin DOMAIN obsels
      /\ Keeps(f, obsels) /\ x.rel \subseteq DOMAIN obsels
  BY <1>0, WithKeeps
<1>p. /\ p \in Detections /\ Knows(p, f)
      /\ p.str => x.rel = {} /\ \A o \in DOMAIN obsels : After(f, x.id, o)
      /\ last # None =>
           /\ p.e >= obsels[last].e
           /\ p.pse => \A o \in {x.id} \cup x.rel : f[o].e + range >= obsels[last].e
  BY <1>0, DetectKnows
<1>a. Added([obsels |-> obsels, p |-> Prepared], x) = [obsels |-> f, p |-> p]
  BY DEF Added
<1> HIDE DEF f, p
<1>2. CASE batch = <<x>>
  <2>1. Collect(batch) = [obsels |-> f, p |-> p]
    BY <1>2, <1>a DEF Collect
  <2>2. Members(batch) = {x}
    BY <1>2 DEF Members
  <2> QED
    BY <1>f, <1>p, <2>1, <2>2
<1>3. ASSUME NEW y \in NewObsel(DOMAIN obsels \cup {x.id}), batch = <<x, y>>
      PROVE  LET h == Collect(batch).obsels
                 q == Collect(batch).p
             IN  /\ h \in Contents /\ Keeps(h, obsels) /\ q \in Detections /\ Knows(q, h)
                 /\ DOMAIN h = DOMAIN obsels \cup {z.id : z \in Members(batch)}
                 /\ \A z \in Members(batch) : z.id \notin DOMAIN obsels /\ z.rel \subseteq DOMAIN h
                 /\ q.str => \A z \in Members(batch) :
                               z.rel = {} /\ \A o \in DOMAIN obsels : After(h, z.id, o)
                 /\ q.pse /\ last # None =>
                      \A z \in Members(batch) : \A o \in {z.id} \cup z.rel :
                        h[o].e + range >= obsels[last].e
  <2> DEFINE h == With(f, y)
             q == Detect(p, y, h)
  <2>h. /\ h \in Contents /\ DOMAIN h = DOMAIN f \cup {y.id} /\ y.id \notin DOMAIN f
        /\ Keeps(h, f) /\ y.rel \subseteq DOMAIN f
        /\ \A o, r \in DOMAIN f : After(h, o, r) <=> After(f, o, r)
    <3>1. DOMAIN f = DOMAIN obsels \cup {x.id} /\ f \in Contents
      BY <1>f
    <3>2. \E known : known = DOMAIN f /\ y \in NewObsel(known)
      BY <1>3, <3>1
    <3> QED
      BY <3>1, <3>2, WithKeeps DEF Keeps
  <2>q. /\ q \in Detections /\ Knows(q, h)
        /\ q.str => p.str /\ y.rel = {} /\ \A o \in DOMAIN f : After(h, y.id, o)
        /\ q.pse => p.pse
        /\ p.last # None /\ q.pse => \A o \in {y.id} \cup y.rel : h[o].e + range >= p.e
    BY <1>0, <1>f, <1>p, DetectKnows
  <2>1. Collect(batch) = [obsels |-> h, p |-> q]
    BY <1>3, <1>a DEF Collect, Added
  <2>2. Members(batch) = {x, y}
    BY <1>3 DEF Members
  <2> HIDE DEF h, q
  <2>3. Keeps(h, obsels)
    BY <1>f, <2>h DEF Keeps
  <2>4. q.str => /\ x.rel = {} /\ \A o \in DOMAIN obsels : After(h, x.id, o)
                 /\ y.rel = {} /\ \A o \in DOMAIN obsels : After(h, y.id, o)
    BY <1>f, <1>p, <2>h, <2>q
  <2>5. ASSUME q.pse, last # None, NEW z \in {x, y}, NEW o \in {z.id} \cup z.rel
        PROVE  h[o].e + range >= obsels[last].e
    <3>1. CASE z = x
      <4>1. o \in DOMAIN f /\ f[o].e + range >= obsels[last].e
        BY <1>f, <1>p, <2>q, <2>5, <3>1
      <4> QED
        BY <2>h, <4>1 DEF Keeps
    <3>2. CASE z = y
      <4>1. p.last # None
        BY <1>f, <1>p DEF Knows
      <4>2. h[o].e + range >= p.e /\ p.e >= obsels[last].e
        BY <1>p, <2>q, <2>5, <3>2, <4>1
      <4>3. h[o].e \in Nat /\ range \in Nat /\ p.e \in Nat /\ obsels[last].e \in Nat
        <5>1. o \in DOMAIN h /\ last \in DOMAIN obsels
          BY <1>0, <2>h, <2>5, <3>2
        <5>2. p.e \in 0 .. MaxTime
          BY <1>p DEF Detections
        <5> QED
          BY <1>0, <2>h, <5>1, <5>2, Times
      <4> QED
        BY <4>2, <4>3
    <3> QED
      BY <3>1, <3>2
  <2>6. DOMAIN h = DOMAIN obsels \cup {x.id, y.id}
    BY <1>f, <2>h
  <2> QED
    BY <1>f, <2>h, <2>q, <2>1, <2>2, <2>3, <2>4, <2>5, <2>6
<1> QED
  BY <1>1, <1>2, <1>3

----------------------------------------------------------------------------
(* Amending *)

\* The obsel that ack_edit finds is the last one.
LEMMA Found ==
  ASSUME IInv, ~AmendLast, ~TiedLast, NEW f \in Contents, MayLeave(f), NEW l \in FindLast(f)
  PROVE  /\ l \in DOMAIN f \cup {None}
         /\ IF DOMAIN f = {} THEN l = None
            ELSE l # None /\ \A o \in DOMAIN f \ {l} : After(f, l, o)
<1> DEFINE kept == last # None /\ last \in DOMAIN f
           from == IF kept THEN {o \in DOMAIN f : f[o].e >= obsels[last].e} ELSE DOMAIN f
<1>0. /\ obsels \in Contents /\ (last # None => last \in DOMAIN obsels)
  BY DEF IInv, TypeOK
<1>1. \A o \in DOMAIN f : f[o].e \in Nat /\ o # None
  BY Times
<1>2. kept => last \in from /\ obsels[last].e \in Nat
  BY <1>0, Times DEF MayLeave
<1>3. \A o \in DOMAIN f \ from : \A r \in from : f[o].e < f[r].e
  BY <1>1, <1>2
<1>4. from = {} <=> DOMAIN f = {}
  BY <1>2
<1>5. l \in IF from = {} THEN {None} ELSE Latest(f, from)
  BY DEF FindLast
<1> HIDE DEF from
<1>6. from \subseteq DOMAIN f
  BY DEF from
<1>7. CASE from = {}
  BY <1>4, <1>5, <1>7
<1>8. CASE from # {}
  <2>1. l \in from /\ l \in DOMAIN f /\ \A o \in from : f[o].e <= f[l].e
    BY <1>5, <1>6, <1>8 DEF Latest
  <2>2. \A o \in DOMAIN f : f[o].e <= f[l].e
    BY <1>1, <1>3, <2>1
  <2>3. ASSUME NEW o \in DOMAIN f \ {l} PROVE After(f, l, o)
    <3>1. ~(f[l].e <= f[o].e)
      <4>1. SUFFICES ASSUME f[l].e <= f[o].e PROVE FALSE
        OBVIOUS
      <4>2. \A r \in DOMAIN f : f[r].e <= f[o].e
        BY <1>1, <2>1, <2>2, <4>1
      <4>3. l \in Latest(f, DOMAIN f) /\ o \in Latest(f, DOMAIN f)
        BY <2>1, <2>2, <4>2 DEF Latest
      <4> QED
        BY <4>3 DEF MayLeave
    <3> QED
      BY <1>1, <2>1, <3>1 DEF After
  <2> QED
    BY <1>1, <1>4, <1>8, <2>1, <2>3
<1> QED
  BY <1>7, <1>8

\* The kinds of steps: obsels are added, or the collection is amended and every
\* tag is renewed, or nothing is said of the tags because nothing changes.
LEMMA Kinds ==
  ASSUME IInv, Next
  PROVE  \/ \E batch \in Batches : Post(batch)
         \/ /\ \E f \in Contents : MayLeave(f) /\ obsels' = f /\ AckEdit(f)
            /\ range' \in Ranges
            /\ arcs' \subseteq SUBSET DOMAIN obsels'
         \/ /\ UNCHANGED <<obsels, arcs, last>>
            /\ range' \in Ranges /\ renewed' = {}
<1>0. obsels \in Contents /\ range \in Ranges /\ arcs \subseteq SUBSET DOMAIN obsels
  BY DEF IInv, TypeOK
<1>1. ASSUME NEW f \in Contents, NEW kept, Edit(f, kept)
      PROVE  /\ \E g \in Contents : MayLeave(g) /\ obsels' = g /\ AckEdit(g)
             /\ range' \in Ranges
             /\ arcs' \subseteq SUBSET DOMAIN obsels'
  BY <1>0, <1>1 DEF Edit
<1>2. [o \in {} |-> [b |-> 0, e |-> 0]] \in Contents
  BY ContentsAre
<1>3. ASSUME NEW r \in Ranges, ChangeRange(r), r > range
      PROVE  /\ \E g \in Contents : MayLeave(g) /\ obsels' = g /\ AckEdit(g)
             /\ range' \in Ranges
             /\ arcs' \subseteq SUBSET DOMAIN obsels'
  BY <1>0, <1>3 DEF ChangeRange
<1>4. ASSUME NEW r \in Ranges, ChangeRange(r), ~(r > range)
      PROVE  UNCHANGED <<obsels, arcs, last>> /\ range' \in Ranges /\ renewed' = {}
  BY <1>4 DEF ChangeRange
<1> QED
  BY <1>1, <1>2, <1>3, <1>4 DEF Next, Empty

----------------------------------------------------------------------------
(* The theorems *)

LEMMA InitInvariant == Init => IInv
BY ContentsAre DEF Init, IInv, TypeOK, LastIsLast, AllTags

LEMMA NextInvariant ==
  ASSUME ~AmendLast, ~TiedLast, IInv, [Next]_collection
  PROVE  IInv'
<1>0. /\ obsels \in Contents /\ range \in Ranges /\ arcs \subseteq SUBSET DOMAIN obsels
  BY DEF IInv, TypeOK
<1>1. CASE UNCHANGED collection
  BY <1>1 DEF collection, IInv, TypeOK, LastIsLast, After
<1>2. ASSUME NEW batch \in Batches, Post(batch) PROVE IInv'
  <2> PICK f, p : /\ f = Collect(batch).obsels /\ p = Collect(batch).p
    OBVIOUS
  <2>1. /\ f \in Contents /\ Keeps(f, obsels) /\ p \in Detections /\ Knows(p, f)
        /\ DOMAIN f = DOMAIN obsels \cup {x.id : x \in Members(batch)}
        /\ \A x \in Members(batch) : x.rel \subseteq DOMAIN f
    BY Collected
  <2>2. /\ obsels' = f /\ last' = p.last /\ renewed' = TagsAfter(p) /\ range' = range
        /\ arcs' = arcs \cup (UNION {{{x.id, o} : o \in x.rel} : x \in Members(batch)})
    BY <1>2 DEF Post
  <2>3. arcs' \subseteq SUBSET DOMAIN f
    <3> SUFFICES ASSUME NEW a \in arcs' PROVE a \subseteq DOMAIN f
      OBVIOUS
    <3>1. CASE a \in arcs
      BY <1>0, <2>1, <3>1
    <3>2. CASE a \notin arcs
      <4>1. PICK x \in Members(batch) : a \in {{x.id, o} : o \in x.rel}
        BY <2>2, <3>2
      <4>2. PICK o \in x.rel : a = {x.id, o}
        BY <4>1
      <4>3. x.id \in DOMAIN f /\ o \in DOMAIN f
        BY <2>1
      <4> QED
        BY <4>2, <4>3
    <3> QED
      BY <3>1, <3>2
  <2>4. last' \in DOMAIN f \cup {None}
    BY <2>1, <2>2 DEF Knows
  <2>5. TypeOK'
    BY <1>0, <2>1, <2>2, <2>3, <2>4 DEF TypeOK, TagsAfter, AllTags
  <2>6. IF DOMAIN f = {} THEN p.last = None
        ELSE p.last # None /\ \A o \in DOMAIN f \ {p.last} : After(f, p.last, o)
    BY <2>1 DEF Knows
  <2>7. LastIsLast'
    BY <2>2, <2>6 DEF LastIsLast, After
  <2> QED
    BY <2>5, <2>7 DEF IInv
<1>3. ASSUME NEW f \in Contents, MayLeave(f), obsels' = f, AckEdit(f),
             range' \in Ranges, arcs' \subseteq SUBSET DOMAIN obsels'
      PROVE  IInv'
  <2>1. last' \in FindLast(f) /\ renewed' = AllTags
    BY <1>3 DEF AckEdit
  <2>2. /\ last' \in DOMAIN f \cup {None}
        /\ IF DOMAIN f = {} THEN last' = None
           ELSE last' # None /\ \A o \in DOMAIN f \ {last'} : After(f, last', o)
    BY <1>3, <2>1, Found
  <2>3. TypeOK'
    BY <1>3, <2>1, <2>2 DEF TypeOK
  <2>4. LastIsLast'
    BY <1>3, <2>2 DEF LastIsLast, After
  <2> QED
    BY <2>3, <2>4 DEF IInv
<1>4. ASSUME UNCHANGED <<obsels, arcs, last>>, range' \in Ranges, renewed' = {}
      PROVE  IInv'
  BY <1>4 DEF IInv, TypeOK, LastIsLast, After
<1> QED
  BY <1>1, <1>2, <1>3, <1>4, Kinds

\* While no edit makes the last obsel end earlier or leaves another one that
\* ends with it, the metadata names the last obsel in the order of the listing:
\* prepare_edit, _detect_mon_change and ack_edit (trace_obsels.py:363-541).
THEOREM Invariance == ~AmendLast /\ ~TiedLast => (Spec => [](TypeOK /\ LastIsLast))
<1> SUFFICES ASSUME ~AmendLast, ~TiedLast PROVE Spec => []IInv
  BY DEF IInv
<1>1. Init => IInv
  BY InitInvariant
<1>2. IInv /\ [Next]_collection => IInv'
  BY NextInvariant
<1> QED
  BY <1>1, <1>2, PTL DEF Spec

\* What a post does to the obsels that were there, and where it puts the new
\* ones, as far as the tags that it keeps tell.
LEMMA PostKeeps ==
  ASSUME IInv, NEW batch \in Batches, Post(batch)
  PROVE  /\ obsels' \in Contents /\ Keeps(obsels', obsels) /\ range' = range
         /\ arcs \subseteq arcs' /\ \A a \in arcs' \ arcs : \E n \in a : n \notin DOMAIN obsels
         /\ "str" \notin renewed' =>
              /\ arcs' = arcs
              /\ \A n \in DOMAIN obsels' \ DOMAIN obsels :
                   \A o \in DOMAIN obsels : After(obsels', n, o)
         /\ "pse" \notin renewed' /\ last # None =>
              \A o \in DOMAIN obsels' :
                o \notin DOMAIN obsels \/ {a \in arcs' : o \in a} # {a \in arcs : o \in a}
                  => obsels'[o].e + range >= obsels[last].e
<1> PICK f, p : f = Collect(batch).obsels /\ p = Collect(batch).p
  OBVIOUS
<1>1. /\ f \in Contents /\ Keeps(f, obsels)
      /\ DOMAIN f = DOMAIN obsels \cup {x.id : x \in Members(batch)}
      /\ \A x \in Members(batch) : x.id \notin DOMAIN obsels
      /\ p.str => \A x \in Members(batch) :
                    x.rel = {} /\ \A o \in DOMAIN obsels : After(f, x.id, o)
      /\ p.pse /\ last # None =>
           \A x \in Members(batch) : \A o \in {x.id} \cup x.rel : f[o].e + range >= obsels[last].e
  BY Collected
<1>2. /\ obsels' = f /\ renewed' = TagsAfter(p) /\ range' = range
      /\ arcs' = arcs \cup (UNION {{{x.id, o} : o \in x.rel} : x \in Members(batch)})
  BY DEF Post
<1>3. ASSUME "str" \notin renewed'
      PROVE  /\ arcs' = arcs
             /\ \A n \in DOMAIN f \ DOMAIN obsels : \A o \in DOMAIN obsels : After(f, n, o)
  <2>1. p.str
    BY <1>2, <1>3 DEF TagsAfter
  <2>2. UNION {{{x.id, o} : o \in x.rel} : x \in Members(batch)} = {}
    BY <1>1, <2>1
  <2>3. \A n \in DOMAIN f \ DOMAIN obsels : \E x \in Members(batch) : n = x.id
    BY <1>1
  <2> QED
    BY <1>1, <1>2, <2>1, <2>2, <2>3
<1>4. ASSUME "pse" \notin renewed', last # None, NEW o \in DOMAIN f,
             o \notin DOMAIN obsels \/ {a \in arcs' : o \in a} # {a \in arcs : o \in a}
      PROVE  f[o].e + range >= obsels[last].e
  <2>1. p.pse
    BY <1>2, <1>4 DEF TagsAfter
  <2>2. \E x \in Members(batch) : o \in {x.id} \cup x.rel
    <3>1. CASE o \notin DOMAIN obsels
      BY <1>1, <3>1
    <3>2. CASE {a \in arcs' : o \in a} # {a \in arcs : o \in a}
      <4>1. PICK a \in arcs' : o \in a /\ a \notin arcs
        BY <1>2, <3>2
      <4>2. PICK x \in Members(batch) : a \in {{x.id, r} : r \in x.rel}
        BY <1>2, <4>1
      <4> QED
        BY <4>1, <4>2
    <3> QED
      BY <1>4, <3>1, <3>2
  <2> QED
    BY <1>1, <1>4, <2>1, <2>2
<1>5. \A n, o : After(f, n, o) => After(obsels', n, o)
  BY <1>2 DEF After
<1>6. ASSUME NEW a \in arcs', a \notin arcs PROVE \E n \in a : n \notin DOMAIN obsels
  <2>1. PICK x \in Members(batch) : a \in {{x.id, r} : r \in x.rel}
    BY <1>2, <1>6
  <2> QED
    BY <1>1, <2>1
<1> QED
  BY <1>1, <1>2, <1>3, <1>4, <1>5, <1>6

\* An operation that keeps a tag, and says so, is a post.
LEMMA KeepsTag ==
  ASSUME IInv, [Next]_collection, renewed' # {}, NEW t \in {"str", "pse"}, t \notin renewed'
  PROVE  (\E batch \in Batches : Post(batch)) \/ UNCHANGED collection
<1>1. t \in AllTags
  BY DEF AllTags
<1> QED
  BY <1>1, Kinds DEF AckEdit

LEMMA EndIs ==
  ASSUME IInv, last # None
  PROVE  EndOf(obsels) = obsels[last].e /\ last \in DOMAIN obsels /\ obsels[last].e \in Nat
<1>1. obsels \in Contents /\ last \in DOMAIN obsels
  BY DEF IInv, TypeOK
<1>2. \A o \in DOMAIN obsels : obsels[o].e \in Nat /\ obsels[o].e <= obsels[last].e
  <2> SUFFICES ASSUME NEW o \in DOMAIN obsels
               PROVE  obsels[o].e \in Nat /\ obsels[o].e <= obsels[last].e
    OBVIOUS
  <2>1. obsels[o].e \in Nat /\ obsels[last].e \in Nat
    BY <1>1, Times
  <2>2. o = last \/ After(obsels, last, o)
    BY <1>1 DEF IInv, LastIsLast
  <2> QED
    BY <2>1, <2>2 DEF After
<1>3. last \in Latest(obsels, DOMAIN obsels)
  BY <1>1, <1>2 DEF Latest
<1> DEFINE l == CHOOSE o \in Latest(obsels, DOMAIN obsels) : TRUE
<1>4. l \in Latest(obsels, DOMAIN obsels)
  BY <1>3
<1> HIDE DEF l
<1>5. l \in DOMAIN obsels /\ obsels[l].e >= obsels[last].e
  BY <1>1, <1>4 DEF Latest
<1>6. obsels[l].e = obsels[last].e
  BY <1>1, <1>2, <1>5
<1>7. EndOf(obsels) = obsels[l].e
  BY <1>1 DEF EndOf, l
<1> QED
  BY <1>1, <1>2, <1>6, <1>7

\* While the strictly monotonic tag is kept, the obsels that were there and
\* their arcs are what they were, and the new ones come after them in the
\* listing (get_str_mon_tag, trace_obsels.py:69).
THEOREM StrTagCorrect == ~AmendLast /\ ~TiedLast => (Spec => StrMonTagSound)
<1> SUFFICES ASSUME ~AmendLast, ~TiedLast PROVE Spec => StrMonTagSound
  OBVIOUS
<1>1. TypeOK /\ LastIsLast /\ [Next]_collection =>
        [renewed' # {} /\ "str" \notin renewed' =>
           /\ \A o \in DOMAIN obsels : Untouched(o)
           /\ \A n \in DOMAIN obsels' \ DOMAIN obsels :
                \A o \in DOMAIN obsels : After(obsels', n, o)]_collection
  <2> SUFFICES ASSUME IInv, [Next]_collection, ~UNCHANGED collection,
                      renewed' # {}, "str" \notin renewed'
               PROVE  /\ \A o \in DOMAIN obsels : Untouched(o)
                      /\ \A n \in DOMAIN obsels' \ DOMAIN obsels :
                           \A o \in DOMAIN obsels : After(obsels', n, o)
    BY DEF IInv
  <2> PICK batch \in Batches : Post(batch)
    BY KeepsTag
  <2> QED
    BY PostKeeps DEF Untouched, Keeps
<1> QED
  BY <1>1, Invariance, PTL DEF Spec, StrMonTagSound

\* While the pseudo-monotonic tag is kept, the obsels that are new or get new
\* arcs end within the range of the end of the trace (get_pse_mon_tag,
\* trace_obsels.py:87), and the timestamps of the others are what they were.
THEOREM PseTagCorrect == ~AmendLast /\ ~TiedLast => (Spec => PseMonTagSound)
<1> SUFFICES ASSUME ~AmendLast, ~TiedLast PROVE Spec => PseMonTagSound
  OBVIOUS
<1>1. TypeOK /\ LastIsLast /\ [Next]_collection =>
        [renewed' # {} /\ "pse" \notin renewed' =>
           /\ \A o \in DOMAIN obsels : o \in DOMAIN obsels' /\ obsels'[o] = obsels[o]
           /\ \A o \in DOMAIN obsels' :
                o \notin DOMAIN obsels \/ ~Untouched(o)
                  => obsels'[o].e + range >= EndOf(obsels)]_collection
  <2> SUFFICES ASSUME IInv, [Next]_collection, ~UNCHANGED collection,
                      renewed' # {}, "pse" \notin renewed'
               PROVE  /\ \A o \in DOMAIN obsels : o \in DOMAIN obsels' /\ obsels'[o] = obsels[o]
                      /\ \A o \in DOMAIN obsels' :
                           o \notin DOMAIN obsels \/ ~Untouched(o)
                             => obsels'[o].e + range >= EndOf(obsels)
    BY DEF IInv
  <2> PICK batch \in Batches : Post(batch)
    BY KeepsTag
  <2>1. obsels' \in Contents /\ \A o \in DOMAIN obsels : o \in DOMAIN obsels' /\ obsels'[o] = obsels[o]
    BY PostKeeps DEF Keeps
  <2>2. ASSUME NEW o \in DOMAIN obsels', o \notin DOMAIN obsels \/ ~Untouched(o)
        PROVE  obsels'[o].e + range >= EndOf(obsels)
    <3>1. CASE last = None
      <4>1. EndOf(obsels) = 0
        BY <3>1 DEF IInv, LastIsLast, EndOf
      <4>2. obsels'[o].e \in Nat /\ range \in Nat
        BY <2>1, Times DEF IInv, TypeOK
      <4> QED
        BY <4>1, <4>2
    <3>2. CASE last # None
      <4>1. o \notin DOMAIN obsels \/ {a \in arcs' : o \in a} # {a \in arcs : o \in a}
        BY <2>1, <2>2 DEF Untouched
      <4>2. obsels'[o].e + range >= obsels[last].e
        BY <3>2, <4>1, PostKeeps
      <4> QED
        BY <3>2, <4>2, EndIs
    <3> QED
      BY <3>1, <3>2
  <2> QED
    BY <2>1, <2>2
<1> QED
  BY <1>1, Invariance, PTL DEF Spec, PseMonTagSound

\* A page of obsels that ends soon enough is the same as long as one of the
\* tags that iter_etags gives with it is kept (trace_obsels.py:431-463): a
\* client may keep its copy.
THEOREM PageTagCorrect == ~AmendLast /\ ~TiedLast => (Spec => PageTagSound)
<1> SUFFICES ASSUME ~AmendLast, ~TiedLast PROVE Spec => PageTagSound
  OBVIOUS
<1>1. TypeOK /\ LastIsLast /\ [Next]_collection =>
        [\A maxe \in 0 .. MaxTime :
           PageTags(maxe) \subseteq renewed' \/
           Page(obsels', arcs', maxe) = Page(obsels, arcs, maxe)]_collection
  <2> SUFFICES ASSUME IInv, [Next]_collection, ~UNCHANGED collection,
                      NEW maxe \in 0 .. MaxTime, NEW t \in PageTags(maxe), t \notin renewed'
               PROVE  Page(obsels', arcs', maxe) = Page(obsels, arcs, maxe)
    BY DEF IInv
  <2>1. /\ t \in {"str", "pse"} /\ last # None /\ maxe < obsels[last].e
        /\ t = "pse" => maxe + range < obsels[last].e
    BY DEF PageTags
  <2>2. /\ obsels \in Contents /\ last \in DOMAIN obsels /\ range \in Nat
        /\ maxe \in Nat /\ obsels[last].e \in Nat
    BY <2>1, EndIs DEF IInv, TypeOK
  <2>3. CASE renewed' = {}
    <3>1. obsels' = obsels /\ arcs' = arcs
      BY <2>3, Kinds DEF Post, TagsAfter, AckEdit, AllTags
    <3> QED
      BY <3>1
  <2>4. CASE renewed' # {}
    <3> PICK batch \in Batches : Post(batch)
      BY <2>1, <2>4, KeepsTag
    <3>1. obsels' \in Contents /\ \A o \in DOMAIN obsels : o \in DOMAIN obsels' /\ obsels'[o] = obsels[o]
      BY PostKeeps DEF Keeps
    <3>2. ASSUME NEW o \in DOMAIN obsels', obsels'[o].e <= maxe
          PROVE  o \in DOMAIN obsels /\ {a \in arcs' : o \in a} = {a \in arcs : o \in a}
      <4>0. obsels'[o].e \in Nat /\ obsels'[last].e = obsels[last].e
        BY <2>2, <3>1, Times
      <4>1. CASE t = "str"
        <5>1. arcs' = arcs /\ (o \notin DOMAIN obsels => After(obsels', o, last))
          BY <2>2, <4>1, PostKeeps
        <5>2. o \in DOMAIN obsels
          BY <2>1, <2>2, <3>2, <4>0, <5>1 DEF After
        <5> QED
          BY <5>1, <5>2
      <4>2. CASE t = "pse"
        <5>1. \/ o \in DOMAIN obsels /\ {a \in arcs' : o \in a} = {a \in arcs : o \in a}
              \/ obsels'[o].e + range >= obsels[last].e
          BY <2>1, <4>2, PostKeeps
        <5> QED
          BY <2>1, <2>2, <3>2, <4>0, <4>2, <5>1
      <4> QED
        BY <2>1, <4>1, <4>2
    <3> PICK shown : shown = {o \in DOMAIN obsels : obsels[o].e <= maxe}
      OBVIOUS
    <3>3. {o \in DOMAIN obsels' : obsels'[o].e <= maxe} = shown
      BY <3>1, <3>2
    <3>4. [o \in shown |-> obsels'[o]] = [o \in shown |-> obsels[o]]
      BY <3>1
    <3>5. {a \in arcs' : a \cap shown # {}} = {a \in arcs : a \cap shown # {}}
      <4>1. \A o \in shown : {a \in arcs' : o \in a} = {a \in arcs : o \in a}
        BY <3>2, <3>3
      <4> QED
        BY <4>1
    <3> QED
      BY <3>3, <3>4, <3>5 DEF Page
  <2> QED
    BY <2>3, <2>4
<1> QED
  BY <1>1, Invariance, PTL DEF Spec, PageTagSound

(***************************************************************************)
(* The filtered trace                                                      *)
(***************************************************************************)

USE BoundsAssumption, UseAssumption

Assumed ==
  ~AmendLast /\ ~TiedLast /\ OneAtATime /\ ~LongObsels /\ ~MinWithRange /\ ~ForcedFails

----------------------------------------------------------------------------
(* The inductive invariant *)

Typed ==
  /\ bounds \in Bounds
  /\ undescribed \in BOOLEAN /\ dirty \in BOOLEAN
  /\ target \in Contents
  /\ cstate \in [kept : SUBSET MonTags, min : Nat \cup {NoTime}, max : Nat \cup {NoTime},
                 seen : Ids \cup {None}, seenB : Nat \cup {NoTime}, passed : BOOLEAN]
  /\ mode \in Modes
  /\ phase \in {"idle", "copy", "see", "note"}

\* An arc has ends.
ArcsHaveEnds == {} \notin arcs

\* The description is that of the present boundaries, or is to be computed.
Description ==
  /\ undescribed => dirty /\ phase = "idle"
  /\ ~undescribed => cstate.min = bounds.min /\ cstate.max = bounds.max

\* What has been copied is what the source has.
CopiesAgree ==
  /\ DOMAIN target \subseteq Selected
  /\ \A o \in DOMAIN target : target[o] = obsels[o]
  /\ targetArcs = {a \in arcs : a \subseteq DOMAIN target}
WholeView == CopiesAgree /\ Selected \subseteq DOMAIN target

\* The last obsel noted is in the source, not before the lower boundary.
SeenAgrees ==
  IF cstate.seen = None THEN cstate.seenB = NoTime /\ ~cstate.passed
  ELSE /\ cstate.seen \in DOMAIN obsels /\ cstate.seenB = obsels[cstate.seen].b
       /\ AtLeast(cstate.seenB, bounds.min)
       /\ cstate.passed <=> bounds.max # NoTime /\ obsels[cstate.seen].e > bounds.max

\* What is still to be copied is where the tags that are kept say.
Missing == Selected \ DOMAIN target
TagsAgree ==
  /\ "str" \in cstate.kept => \A n \in Missing :
       /\ cstate.seen # None => After(obsels, n, cstate.seen)
       /\ \A o \in DOMAIN target : After(obsels, n, o)
  /\ "pse" \in cstate.kept /\ cstate.seen # None => \A n \in Missing :
       obsels[n].b + range >= obsels[cstate.seen].b

\* A state that some tag vouches for tells what remains to be done.
Usable == CopiesAgree /\ SeenAgrees /\ TagsAgree

\* What each phase may rely on.
Phases ==
  /\ phase \in {"idle", "copy"} /\ ~undescribed /\ cstate.kept # {} => Usable
  /\ phase = "idle" /\ ~dirty => WholeView
  /\ phase = "copy" /\ mode # "not" => mode = Monotonicity(cstate)
  /\ phase = "copy" /\ mode = "strict" => ~cstate.passed
  /\ phase \in {"see", "note"} => WholeView
  /\ (phase = "see" /\ mode # "not") \/ phase = "note" => SeenAgrees

FInv == IInv /\ Typed /\ ArcsHaveEnds /\ Tame(obsels, range, bounds) /\ Description /\ Phases

----------------------------------------------------------------------------
(* The source *)

\* The source moves as a collection does, or is only read.
LEMMA SourceNext ==
  ASSUME Assumed, IInv, ArcsHaveEnds, FilteredNext
  PROVE  IInv' /\ ArcsHaveEnds'
<1>0. obsels \in Contents /\ renewed \subseteq AllTags /\ ~AmendLast /\ ~TiedLast
  BY DEF IInv, TypeOK, Assumed
<1>1. CASE SourceUnchanged
  BY <1>1 DEF SourceUnchanged, IInv, TypeOK, LastIsLast, After, ArcsHaveEnds
<1>2. ASSUME NEW batch \in Batches, Post(batch) PROVE IInv' /\ ArcsHaveEnds'
  <2>1. Next
    BY <1>2 DEF Next
  <2>2. \A a \in arcs' \ arcs : a # {}
    BY <1>2, PostKeeps
  <2> QED
    BY <1>0, <2>1, <2>2, NextInvariant DEF ArcsHaveEnds
<1>3. ASSUME NEW f \in Amended, NEW kept \in SUBSET arcs, Edit(f, kept)
      PROVE  IInv' /\ ArcsHaveEnds'
  <2>0. DOMAIN obsels \subseteq Ids /\ obsels \in [DOMAIN obsels -> Intervals]
    BY <1>0, ContentsAre
  <2>1. f \in Contents
    <3>1. CASE \E o \in DOMAIN obsels : f = Restrict(obsels, DOMAIN obsels \ {o})
      <4> PICK o \in DOMAIN obsels : f = Restrict(obsels, DOMAIN obsels \ {o})
        BY <3>1
      <4>1. f \in [DOMAIN obsels \ {o} -> Intervals]
        BY <2>0 DEF Restrict
      <4> QED
        BY <2>0, <4>1, ContentsAre
    <3>2. CASE \E o \in DOMAIN obsels, i \in Intervals : f = [obsels EXCEPT ![o] = i]
      <4>1. f \in [DOMAIN obsels -> Intervals]
        BY <2>0, <3>2
      <4> QED
        BY <2>0, <4>1, ContentsAre
    <3> QED
      BY <3>1, <3>2 DEF Amended
  <2>2. Next
    BY <1>3, <2>1 DEF Next
  <2>3. arcs' \subseteq arcs
    BY <1>3 DEF Edit
  <2> QED
    BY <1>0, <2>2, <2>3, NextInvariant DEF ArcsHaveEnds
<1>4. ASSUME NEW r \in Ranges, ChangeRange(r) PROVE IInv' /\ ArcsHaveEnds'
  <2>1. Next
    BY <1>4 DEF Next
  <2> QED
    BY <1>0, <1>4, <2>1, NextInvariant DEF ArcsHaveEnds, ChangeRange
<1>5. CASE UNCHANGED collection
  BY <1>0, <1>5, NextInvariant DEF collection, ArcsHaveEnds
<1>6. Compute => SourceUnchanged
  BY DEF Compute, Describe, Begin, CopyAll, CopyFails, Copy, See, NoteTags
<1>7. Change => \/ \E batch \in Batches : Post(batch)
                \/ \E f \in Amended : \E kept \in SUBSET arcs : Edit(f, kept)
                \/ \E r \in Ranges : ChangeRange(r)
                \/ UNCHANGED collection
  BY DEF Change, CollectSource, AmendSource, RangeSource, EditBounds
<1> QED
  BY <1>1, <1>2, <1>3, <1>4, <1>5, <1>6, <1>7 DEF FilteredNext

\* Obsels have timestamps, and so have those copied of them.
LEMMA ObselTimes ==
  ASSUME IInv
  PROVE  /\ range \in Nat
         /\ \A o \in DOMAIN obsels : /\ o \in Ids /\ o # None
                                     /\ obsels[o].b \in Nat /\ obsels[o].e \in Nat
<1>1. obsels \in Contents /\ range \in Nat
  BY DEF IInv, TypeOK
<1>2. ASSUME NEW o \in DOMAIN obsels
      PROVE  o \in Ids /\ o # None /\ obsels[o].b \in Nat /\ obsels[o].e \in Nat
  BY <1>1, Times
<1> QED
  BY <1>1, <1>2

LEMMA BoundsType ==
  ASSUME Typed
  PROVE  /\ bounds.min \in Nat \cup {NoTime} /\ bounds.max \in Nat \cup {NoTime}
         /\ cstate.kept \subseteq MonTags
<1>1. bounds \in [min : Nat \cup {NoTime}, max : Nat \cup {NoTime}]
  BY DEF Typed
<1> QED
  BY <1>1 DEF Typed

----------------------------------------------------------------------------
(* Changes *)

\* What a post leaves to be copied is where the tags that it keeps say.
LEMMA PostLeavesUsable ==
  ASSUME FInv, Usable, ~LongObsels, NEW batch \in Batches, Post(batch), Tame(obsels', range', bounds),
         UNCHANGED <<bounds, target, targetArcs>>,
         cstate' = [cstate EXCEPT !.kept = @ \ renewed']
  PROVE  Usable'
<1>0. /\ IInv /\ Typed /\ CopiesAgree /\ SeenAgrees /\ TagsAgree
  BY DEF FInv, Usable
<1>k. /\ obsels' \in Contents /\ range' = range
      /\ \A o \in DOMAIN obsels : o \in DOMAIN obsels' /\ obsels'[o] = obsels[o]
      /\ arcs \subseteq arcs' /\ \A a \in arcs' \ arcs : \E n \in a : n \notin DOMAIN obsels
      /\ "str" \notin renewed' =>
           \A n \in DOMAIN obsels' \ DOMAIN obsels : \A o \in DOMAIN obsels : After(obsels', n, o)
      /\ "pse" \notin renewed' /\ last # None =>
           \A n \in DOMAIN obsels' \ DOMAIN obsels : obsels'[n].e + range >= obsels[last].e
  BY <1>0, PostKeeps DEF Keeps
<1>c. /\ cstate'.kept = cstate.kept \ renewed' /\ cstate'.seen = cstate.seen
      /\ cstate'.seenB = cstate.seenB /\ cstate'.passed = cstate.passed
  BY <1>0 DEF Typed
<1>s. DOMAIN target \subseteq Selected /\ Selected \subseteq DOMAIN obsels
  BY <1>0 DEF CopiesAgree, Selected
<1>o. \A o \in DOMAIN obsels : o \in Selected' <=> o \in Selected
  BY <1>k DEF Selected
<1>1. CopiesAgree'
  <2>1. DOMAIN target' \subseteq Selected' /\ \A o \in DOMAIN target' : target'[o] = obsels'[o]
    BY <1>0, <1>k, <1>s, <1>o DEF CopiesAgree
  <2>2. {a \in arcs' : a \subseteq DOMAIN target} = {a \in arcs : a \subseteq DOMAIN target}
    BY <1>k, <1>s
  <2> QED
    BY <1>0, <2>1, <2>2 DEF CopiesAgree
<1>2. SeenAgrees'
  BY <1>0, <1>k, <1>c DEF SeenAgrees, AtLeast
<1>m. ASSUME NEW n \in Missing' PROVE n \in Missing \/ n \in DOMAIN obsels' \ DOMAIN obsels
  BY <1>o, <1>m DEF Missing, Selected
<1>n. Missing \subseteq DOMAIN obsels
  BY <1>s DEF Missing
<1>a. \A n, o \in DOMAIN obsels : After(obsels', n, o) <=> After(obsels, n, o)
  BY <1>k DEF After
<1>3. ASSUME "str" \in cstate'.kept, NEW n \in Missing'
      PROVE  /\ cstate'.seen # None => After(obsels', n, cstate'.seen)
             /\ \A o \in DOMAIN target' : After(obsels', n, o)
  <2>1. "str" \in cstate.kept /\ "str" \notin renewed'
    BY <1>c, <1>3
  <2>2. /\ cstate.seen # None => cstate.seen \in DOMAIN obsels
        /\ \A o \in DOMAIN target : o \in DOMAIN obsels
    BY <1>0, <1>s DEF SeenAgrees
  <2>3. CASE n \in Missing
    BY <1>0, <1>c, <1>n, <1>a, <2>1, <2>2, <2>3 DEF TagsAgree
  <2>4. CASE n \in DOMAIN obsels' \ DOMAIN obsels
    BY <1>k, <1>c, <2>1, <2>2, <2>4
  <2> QED
    BY <1>m, <1>3, <2>3, <2>4
<1>4. ASSUME "pse" \in cstate'.kept, cstate'.seen # None, NEW n \in Missing'
      PROVE  obsels'[n].b + range' >= obsels'[cstate'.seen].b
  <2>1. "pse" \in cstate.kept /\ "pse" \notin renewed' /\ cstate.seen # None
    BY <1>c, <1>4
  <2>2. cstate.seen \in DOMAIN obsels
    BY <1>0, <2>1 DEF SeenAgrees
  <2>3. CASE n \in Missing
    BY <1>0, <1>k, <1>c, <1>n, <2>1, <2>2, <2>3 DEF TagsAgree
  <2>4. CASE n \in DOMAIN obsels' \ DOMAIN obsels
    <3>1. /\ last # None /\ obsels[last].e \in Nat /\ obsels[cstate.seen].e \in Nat
          /\ obsels[last].e >= obsels[cstate.seen].e
      <4>1. last \in DOMAIN obsels /\ last # None
        BY <1>0, <2>2 DEF IInv, TypeOK, LastIsLast
      <4>2. cstate.seen = last \/ After(obsels, last, cstate.seen)
        BY <1>0, <2>2, <4>1 DEF IInv, LastIsLast
      <4>3. obsels[last].e \in Nat /\ obsels[cstate.seen].e \in Nat
        BY <1>0, <2>2, <4>1, ObselTimes
      <4> QED
        BY <4>1, <4>2, <4>3 DEF After
    <3>2. obsels'[n].e \in Nat /\ range \in Nat
      BY <1>0, <1>k, <2>4, Times, ObselTimes
    <3>3. obsels'[n].e + range >= obsels[last].e
      BY <1>k, <2>1, <2>4, <3>1
    <3>4. obsels'[n].e + range >= obsels'[cstate.seen].e
      BY <1>k, <2>2, <3>1, <3>2, <3>3
    <3> QED
      BY <1>k, <1>c, <2>2, <2>4, <3>4 DEF Tame
  <2> QED
    BY <1>m, <1>4, <2>3, <2>4
<1>5. TagsAgree'
  BY <1>3, <1>4 DEF TagsAgree
<1> QED
  BY <1>1, <1>2, <1>5 DEF Usable

LEMMA ChangeFInv ==
  ASSUME Assumed, FInv, Change
  PROVE  FInv'
<1>0. IInv /\ Typed /\ ArcsHaveEnds /\ Description /\ Phases
  BY DEF FInv
<1>i. IInv' /\ ArcsHaveEnds'
  BY <1>0, SourceNext DEF FilteredNext
<1>p. phase = "idle"
  BY DEF Change, CollectSource, AmendSource, RangeSource, EditBounds, Served, Assumed
<1>1. ASSUME NEW batch \in Batches, CollectSource(batch) PROVE FInv'
  <2>0. /\ Post(batch) /\ Tame(obsels', range', bounds) /\ dirty' = TRUE
        /\ cstate' = [cstate EXCEPT !.kept = @ \ renewed']
        /\ UNCHANGED <<bounds, undescribed, target, targetArcs, mode, phase>>
    BY <1>1 DEF CollectSource, MarkObsels
  <2>1. /\ cstate'.kept = cstate.kept \ renewed' /\ cstate'.min = cstate.min /\ cstate'.max = cstate.max
        /\ cstate' \in [kept : SUBSET MonTags, min : Nat \cup {NoTime}, max : Nat \cup {NoTime},
                        seen : Ids \cup {None}, seenB : Nat \cup {NoTime}, passed : BOOLEAN]
    BY <1>0, <2>0 DEF Typed
  <2>2. Typed'
    BY <1>0, <2>0, <2>1 DEF Typed
  <2>3. Description'
    BY <1>0, <1>p, <2>0, <2>1 DEF Description
  <2>4. ASSUME ~undescribed', cstate'.kept # {} PROVE Usable'
    <3>1. Usable
      BY <1>0, <1>p, <2>0, <2>1, <2>4 DEF Phases
    <3> QED
      BY <2>0, <3>1, PostLeavesUsable DEF Assumed
  <2>5. Phases'
    BY <1>p, <2>0, <2>4 DEF Phases
  <2>6. Tame(obsels, range, bounds)'
    BY <2>0 DEF Tame
  <2> QED
    BY <1>i, <2>2, <2>3, <2>5, <2>6 DEF FInv
<1>2. ASSUME NEW f \in Amended, NEW kept \in SUBSET arcs, AmendSource(f, kept) PROVE FInv'
  <2>0. /\ renewed' = AllTags /\ Tame(obsels', range', bounds) /\ dirty' = TRUE
        /\ cstate' = [cstate EXCEPT !.kept = @ \ renewed']
        /\ UNCHANGED <<bounds, undescribed, target, targetArcs, mode, phase>>
    BY <1>2 DEF AmendSource, Edit, AckEdit, MarkObsels
  <2>1. /\ cstate'.kept = cstate.kept \ renewed' /\ cstate'.min = cstate.min /\ cstate'.max = cstate.max
        /\ cstate' \in [kept : SUBSET MonTags, min : Nat \cup {NoTime}, max : Nat \cup {NoTime},
                        seen : Ids \cup {None}, seenB : Nat \cup {NoTime}, passed : BOOLEAN]
    BY <1>0, <2>0 DEF Typed
  <2>2. Typed'
    BY <1>0, <2>0, <2>1 DEF Typed
  <2>3. Description'
    BY <1>0, <1>p, <2>0, <2>1 DEF Description
  <2>4. cstate'.kept = {}
    BY <1>0, <2>0, <2>1, BoundsType DEF MonTags, AllTags
  <2>5. Phases'
    BY <1>p, <2>0, <2>4 DEF Phases
  <2>6. Tame(obsels, range, bounds)'
    BY <2>0 DEF Tame
  <2> QED
    BY <1>i, <2>2, <2>3, <2>5, <2>6 DEF FInv
<1>3. ASSUME NEW r \in Ranges, RangeSource(r) PROVE FInv'
  <2>0. /\ obsels' = obsels /\ Tame(obsels, range', bounds) /\ dirty' = TRUE /\ undescribed' = TRUE
        /\ cstate' = [cstate EXCEPT !.kept = @ \ renewed']
        /\ UNCHANGED <<bounds, target, targetArcs, mode, phase>>
    BY <1>3 DEF RangeSource, ChangeRange
  <2>1. cstate' \in [kept : SUBSET MonTags, min : Nat \cup {NoTime}, max : Nat \cup {NoTime},
                     seen : Ids \cup {None}, seenB : Nat \cup {NoTime}, passed : BOOLEAN]
    BY <1>0, <2>0 DEF Typed
  <2>2. Typed'
    BY <1>0, <2>0, <2>1 DEF Typed
  <2>3. Description' /\ Phases'
    BY <1>p, <2>0 DEF Description, Phases
  <2>4. Tame(obsels, range, bounds)'
    BY <2>0 DEF Tame
  <2> QED
    BY <1>i, <2>2, <2>3, <2>4 DEF FInv
<1>4. ASSUME NEW b \in Bounds, EditBounds(b) PROVE FInv'
  <2>0. /\ Tame(obsels, range, b) /\ bounds' = b /\ dirty' = TRUE /\ undescribed' = TRUE
        /\ UNCHANGED <<collection, target, targetArcs, cstate, mode, phase>>
    BY <1>4 DEF EditBounds
  <2>1. Typed'
    BY <1>0, <2>0 DEF Typed
  <2>2. Description' /\ Phases'
    BY <1>p, <2>0 DEF Description, Phases
  <2>3. Tame(obsels, range, bounds)'
    BY <2>0 DEF Tame, collection
  <2> QED
    BY <1>i, <2>1, <2>2, <2>3 DEF FInv
<1> QED
  BY <1>1, <1>2, <1>3, <1>4 DEF Change

----------------------------------------------------------------------------
(* Computations *)

\* A step of a computation reads the source, and leaves the boundaries.
LEMMA ComputeReads ==
  ASSUME Assumed, FInv, Compute
  PROVE  /\ IInv' /\ ArcsHaveEnds' /\ Tame(obsels, range, bounds)'
         /\ UNCHANGED <<obsels, arcs, last, range, bounds>>
<1>1. UNCHANGED <<obsels, arcs, last, range, bounds>>
  BY DEF Compute, Describe, Begin, CopyAll, CopyFails, Copy, See, NoteTags, SourceUnchanged
<1>2. IInv' /\ ArcsHaveEnds'
  BY SourceNext DEF FilteredNext, FInv
<1>3. Tame(obsels, range, bounds)'
  BY <1>1 DEF FInv, Tame
<1> QED
  BY <1>1, <1>2, <1>3

\* What is true of the copies and of the obsel noted stays so while they and
\* the source do.
LEMMA SameView ==
  ASSUME UNCHANGED <<obsels, arcs, range, bounds>>
  PROVE  /\ Selected' = Selected
         /\ UNCHANGED <<target, targetArcs>> =>
              (CopiesAgree' <=> CopiesAgree) /\ (WholeView' <=> WholeView)
         /\ cstate' = cstate => (SeenAgrees' <=> SeenAgrees)
         /\ UNCHANGED <<target, targetArcs, cstate>> => (Usable' <=> Usable)
<1>1. Selected' = Selected
  BY DEF Selected, AtLeast, AtMost
<1>2. UNCHANGED <<target, targetArcs>> =>
        (CopiesAgree' <=> CopiesAgree) /\ (WholeView' <=> WholeView)
  BY <1>1 DEF CopiesAgree, WholeView
<1>3. cstate' = cstate => (SeenAgrees' <=> SeenAgrees)
  BY DEF SeenAgrees, AtLeast
<1>4. UNCHANGED <<target, targetArcs, cstate>> => (TagsAgree' <=> TagsAgree)
  BY <1>1 DEF TagsAgree, Missing, After
<1> QED
  BY <1>1, <1>2, <1>3, <1>4 DEF Usable

LEMMA DescribedType ==
  ASSUME NEW b \in Bounds
  PROVE  /\ Described(b) \in
              [kept : SUBSET MonTags, min : Nat \cup {NoTime}, max : Nat \cup {NoTime},
               seen : Ids \cup {None}, seenB : Nat \cup {NoTime}, passed : BOOLEAN]
         /\ Described(b).kept = {} /\ Described(b).min = b.min /\ Described(b).max = b.max
<1>1. b \in [min : Nat \cup {NoTime}, max : Nat \cup {NoTime}]
  OBVIOUS
<1>2. b.min \in Nat \cup {NoTime} /\ b.max \in Nat \cup {NoTime}
  BY <1>1
<1> QED
  BY <1>2 DEF Described

LEMMA DescribeFInv ==
  ASSUME Assumed, FInv, Describe
  PROVE  FInv'
<1>0. Typed /\ Description /\ Phases
  BY DEF FInv
<1>1. /\ phase = "idle" /\ undescribed /\ undescribed' = FALSE /\ cstate' = Described(bounds)
      /\ UNCHANGED <<bounds, dirty, target, targetArcs, mode, phase>>
  BY DEF Describe
<1>2. /\ IInv' /\ ArcsHaveEnds' /\ Tame(obsels, range, bounds)'
  BY ComputeReads DEF Compute
<1>3. /\ cstate' \in [kept : SUBSET MonTags, min : Nat \cup {NoTime}, max : Nat \cup {NoTime},
                      seen : Ids \cup {None}, seenB : Nat \cup {NoTime}, passed : BOOLEAN]
      /\ cstate'.kept = {} /\ cstate'.min = bounds.min /\ cstate'.max = bounds.max
  BY <1>0, <1>1, DescribedType DEF Typed
<1>4. Typed'
  BY <1>0, <1>1, <1>3 DEF Typed
<1>5. Description' /\ Phases'
  BY <1>0, <1>1, <1>3 DEF Description, Phases
<1> QED
  BY <1>2, <1>4, <1>5 DEF FInv

\* Once an obsel beyond the upper boundary has been met, a strict computation
\* has nothing left to copy.
LEMMA PassedLeavesNothing ==
  ASSUME FInv, Usable, "str" \in cstate.kept, cstate.passed
  PROVE  WholeView
<1>0. IInv /\ Typed /\ CopiesAgree /\ SeenAgrees /\ TagsAgree
  BY DEF FInv, Usable
<1>1. /\ cstate.seen # None /\ cstate.seen \in DOMAIN obsels
      /\ bounds.max # NoTime /\ obsels[cstate.seen].e > bounds.max
  BY <1>0 DEF SeenAgrees
<1>2. ASSUME NEW n \in Missing PROVE FALSE
  <2>1. n \in DOMAIN obsels /\ obsels[n].e <= bounds.max
    BY <1>1, <1>2 DEF Missing, Selected, AtMost
  <2>2. After(obsels, n, cstate.seen)
    BY <1>0, <1>1, <1>2 DEF TagsAgree
  <2>3. bounds.max \in Nat /\ obsels[n].e \in Nat /\ obsels[cstate.seen].e \in Nat
    BY <1>0, <1>1, <2>1, ObselTimes, BoundsType
  <2> QED
    BY <1>1, <2>1, <2>2, <2>3 DEF After
<1> QED
  BY <1>0, <1>2 DEF WholeView, Missing

LEMMA BeginFInv ==
  ASSUME Assumed, FInv, NEW force \in BOOLEAN, Begin(force)
  PROVE  FInv'
<1>0. Typed /\ Description /\ Phases
  BY DEF FInv
<1> DEFINE c == IF undescribed THEN Described(bounds) ELSE cstate
           m == IF force THEN "not" ELSE Monotonicity(c)
<1>1. /\ phase = "idle" /\ dirty' = FALSE /\ undescribed' = FALSE /\ cstate' = c /\ mode' = m
      /\ phase' = IF m = "strict" /\ c.passed THEN "note" ELSE "copy"
      /\ UNCHANGED <<bounds, target, targetArcs>>
  BY DEF Begin
<1>2. /\ IInv' /\ ArcsHaveEnds' /\ Tame(obsels, range, bounds)'
      /\ UNCHANGED <<obsels, arcs, range, bounds>>
  BY ComputeReads DEF Compute
<1>3. /\ c \in [kept : SUBSET MonTags, min : Nat \cup {NoTime}, max : Nat \cup {NoTime},
                seen : Ids \cup {None}, seenB : Nat \cup {NoTime}, passed : BOOLEAN]
      /\ undescribed => c.kept = {}
      /\ c.min = bounds.min /\ c.max = bounds.max
  BY <1>0, DescribedType DEF Typed, Description
<1>4. m \in Modes /\ (m = "strict" => "str" \in c.kept) /\ (m # "not" => m = Monotonicity(c))
  BY DEF Modes, Monotonicity
<1>5. ASSUME c.kept # {} PROVE Usable /\ c = cstate
  BY <1>0, <1>1, <1>3, <1>5 DEF Phases
<1>6. ASSUME m = "strict", c.passed PROVE WholeView /\ SeenAgrees
  BY <1>4, <1>5, <1>6, PassedLeavesNothing DEF Usable
<1> HIDE DEF c, m
<1>7. Typed'
  BY <1>0, <1>1, <1>3, <1>4 DEF Typed
<1>8. Description'
  BY <1>0, <1>1, <1>3 DEF Description
<1>9. cstate'.kept # {} => Usable'
  BY <1>1, <1>2, <1>5, SameView
<1>10. mode' # "not" => mode' = Monotonicity(cstate)'
  BY <1>1, <1>4 DEF Monotonicity
<1>11. phase' = "note" => WholeView' /\ SeenAgrees'
  <2> HAVE phase' = "note"
  <2>1. m = "strict" /\ c.passed /\ c = cstate
    BY <1>1, <1>4, <1>5
  <2> QED
    BY <1>1, <1>2, <1>6, <2>1, SameView
<1>12. Phases'
  BY <1>1, <1>9, <1>10, <1>11 DEF Phases
<1> QED
  BY <1>2, <1>7, <1>8, <1>12 DEF FInv

----------------------------------------------------------------------------
(* Copying *)

\* What the copies are made of: a computation that assumes nothing forgets
\* those that are there.
Old == IF mode = "not" THEN {} ELSE DOMAIN target

\* A computation that assumes something has a state to go on from.
LEMMA UnderWay ==
  ASSUME FInv, phase # "idle"
  PROVE  /\ ~undescribed /\ cstate.min = bounds.min /\ cstate.max = bounds.max
         /\ phase = "copy" /\ mode # "not" => Usable
         /\ phase = "copy" /\ mode = "strict" => "str" \in cstate.kept /\ ~cstate.passed
         /\ phase = "copy" /\ mode = "pseudo" => "pse" \in cstate.kept
         /\ phase = "copy" /\ "str" \in cstate.kept /\ mode # "not" => mode = "strict"
<1>1. Description /\ Phases
  BY DEF FInv
<1>2. ~undescribed /\ cstate.min = bounds.min /\ cstate.max = bounds.max
  BY <1>1 DEF Description
<1>3. ASSUME phase = "copy", mode # "not"
      PROVE  /\ mode = Monotonicity(cstate) /\ cstate.kept # {}
             /\ mode = "strict" => "str" \in cstate.kept /\ ~cstate.passed
             /\ mode = "pseudo" => "pse" \in cstate.kept
             /\ "str" \in cstate.kept => mode = "strict"
  BY <1>1, <1>3 DEF Phases, Monotonicity
<1>4. phase = "copy" /\ mode # "not" => Usable
  BY <1>1, <1>2, <1>3 DEF Phases
<1> QED
  BY <1>2, <1>3, <1>4

\* The lower boundary of a pseudo-monotonic computation is not below that of
\* the trace.
LEMMA FromAboveMin ==
  ASSUME FInv, ~MinWithRange, phase # "idle", mode = "pseudo" => SeenAgrees,
         NEW o \in DOMAIN obsels, AtLeast(obsels[o].b, From)
  PROVE  AtLeast(obsels[o].b, bounds.min)
<1>0. IInv /\ Typed /\ (range = 0 \/ bounds.min = NoTime)
  BY DEF FInv, Tame
<1>1. CASE mode = "pseudo" /\ cstate.seenB # NoTime /\ bounds.min # NoTime
  <2>1. range = 0 /\ From = cstate.seenB - range
    BY <1>0, <1>1 DEF From
  <2>2. cstate.seenB \in Nat /\ AtLeast(cstate.seenB, bounds.min)
    BY <1>0, <1>1 DEF Typed, SeenAgrees
  <2>3. bounds.min \in Nat /\ obsels[o].b \in Nat
    BY <1>0, <1>1, BoundsType, ObselTimes
  <2>4. From = cstate.seenB
    BY <2>1, <2>2
  <2> QED
    BY <1>1, <2>2, <2>3, <2>4 DEF AtLeast
<1>2. CASE ~(mode = "pseudo" /\ cstate.seenB # NoTime)
  BY <1>2, UnderWay DEF From
<1>3. CASE bounds.min = NoTime
  BY <1>3 DEF AtLeast
<1> QED
  BY <1>1, <1>2, <1>3

\* What a computation reads is to be copied, and with the copies that it keeps
\* there is nothing else to copy.
LEMMA ReadIs ==
  ASSUME FInv, Assumed, phase = "copy"
  PROVE  Read \subseteq Selected /\ Selected \ Old \subseteq Read
<1>0. IInv /\ Typed /\ cstate.min = bounds.min /\ cstate.max = bounds.max
  BY UnderWay DEF FInv
<1>1. CASE mode # "pseudo" /\ ~(mode = "strict" /\ cstate.seen # None)
  <2>1. From = bounds.min
    BY <1>0, <1>1 DEF From
  <2>2. Read = {o \in DOMAIN obsels : Within(o)}
    BY <1>1 DEF Read
  <2> QED
    BY <1>0, <2>1, <2>2 DEF Selected, Within
<1>2. CASE mode = "strict" /\ cstate.seen # None
  <2>1. /\ Usable /\ "str" \in cstate.kept /\ ~cstate.passed
    BY <1>2, UnderWay
  <2>2. /\ cstate.seen \in DOMAIN obsels
        /\ AtLeast(obsels[cstate.seen].b, bounds.min) /\ AtMost(obsels[cstate.seen].e, bounds.max)
    <3>1. /\ cstate.seen \in DOMAIN obsels /\ cstate.seenB = obsels[cstate.seen].b
          /\ AtLeast(cstate.seenB, bounds.min)
          /\ ~(bounds.max # NoTime /\ obsels[cstate.seen].e > bounds.max)
      BY <1>2, <2>1 DEF Usable, SeenAgrees
    <3>2. obsels[cstate.seen].e \in Nat /\ bounds.max \in Nat \cup {NoTime}
      BY <1>0, <3>1, ObselTimes, BoundsType
    <3> QED
      BY <3>1, <3>2 DEF AtMost
  <2>3. From = bounds.min
    BY <1>0, <1>2 DEF From
  <2>4. Read = {o \in DOMAIN obsels :
                  /\ After(obsels, o, cstate.seen)
                  /\ obsels[o].e > obsels[cstate.seen].e => Within(o)}
    BY <1>2, <2>2 DEF Read
  <2>5. \A o \in DOMAIN obsels : Within(o) <=> o \in Selected
    BY <1>0, <2>3 DEF Within, Selected
  <2>6. ASSUME NEW o \in Read PROVE o \in Selected
    <3>1. CASE obsels[o].e > obsels[cstate.seen].e
      BY <2>4, <2>5, <2>6, <3>1
    <3>2. CASE ~(obsels[o].e > obsels[cstate.seen].e)
      <4>1. o \in DOMAIN obsels /\ After(obsels, o, cstate.seen)
        BY <2>4, <2>6
      <4>2. /\ obsels[o].b \in Nat /\ obsels[o].e \in Nat
            /\ obsels[cstate.seen].b \in Nat /\ obsels[cstate.seen].e \in Nat
            /\ bounds.min \in Nat \cup {NoTime}
        BY <1>0, <2>2, <4>1, ObselTimes, BoundsType
      <4>3. obsels[o].e = obsels[cstate.seen].e /\ obsels[o].b >= obsels[cstate.seen].b
        BY <3>2, <4>1, <4>2 DEF After
      <4>4. AtLeast(obsels[o].b, bounds.min)
        BY <2>2, <4>2, <4>3 DEF AtLeast
      <4> QED
        BY <2>2, <4>1, <4>3, <4>4 DEF Selected
    <3> QED
      BY <3>1, <3>2
  <2>7. ASSUME NEW o \in Selected \ Old PROVE o \in Read
    <3>1. o \in Missing /\ o \in DOMAIN obsels
      BY <1>2, <2>7 DEF Missing, Old, Selected
    <3>2. After(obsels, o, cstate.seen)
      BY <1>2, <2>1, <3>1 DEF Usable, TagsAgree
    <3> QED
      BY <2>4, <2>5, <2>7, <3>1, <3>2
  <2> QED
    BY <2>6, <2>7
<1>3. CASE mode = "pseudo"
  <2>1. Usable /\ "pse" \in cstate.kept
    BY <1>3, UnderWay
  <2>2. Read = {o \in DOMAIN obsels : Within(o)}
    BY <1>3 DEF Read
  <2>3. ASSUME NEW o \in Read PROVE o \in Selected
    <3>1. o \in DOMAIN obsels /\ AtLeast(obsels[o].b, From) /\ AtMost(obsels[o].e, bounds.max)
      BY <1>0, <2>2, <2>3 DEF Within
    <3>2. AtLeast(obsels[o].b, bounds.min)
      BY <2>1, <3>1, FromAboveMin DEF Usable, Assumed
    <3> QED
      BY <3>1, <3>2 DEF Selected
  <2>4. ASSUME NEW o \in Selected \ Old PROVE o \in Read
    <3>1. /\ o \in Missing /\ o \in DOMAIN obsels
          /\ AtLeast(obsels[o].b, bounds.min) /\ AtMost(obsels[o].e, bounds.max)
      BY <1>3, <2>4 DEF Missing, Old, Selected
    <3>2. CASE cstate.seenB = NoTime
      BY <1>0, <2>2, <3>1, <3>2 DEF From, Within
    <3>3. CASE cstate.seenB # NoTime
      <4>1. From = cstate.seenB - range /\ cstate.seenB \in Nat /\ range \in Nat /\ obsels[o].b \in Nat
        BY <1>0, <1>3, <3>1, <3>3, ObselTimes DEF From, Typed
      <4>2. cstate.seen # None /\ cstate.seenB = obsels[cstate.seen].b
        BY <2>1, <3>3 DEF Usable, SeenAgrees
      <4>3. obsels[o].b + range >= cstate.seenB
        BY <2>1, <3>1, <4>2 DEF Usable, TagsAgree
      <4>4. obsels[o].b >= From
        BY <4>1, <4>3
      <4> QED
        BY <1>0, <2>2, <3>1, <4>4 DEF Within, AtLeast
    <3> QED
      BY <3>2, <3>3
  <2> QED
    BY <2>3, <2>4
<1> QED
  BY <1>1, <1>2, <1>3

\* The copies are what the source has, whatever part of what is read has been
\* copied.
LEMMA CopyGives ==
  ASSUME Assumed, FInv, NEW S \in SUBSET Read, Copy(S)
  PROVE  /\ target' \in Contents /\ DOMAIN target' = Old \cup S /\ S \subseteq Selected
         /\ CopiesAgree'
         /\ \A o \in DOMAIN target' : target'[o] = obsels[o]
<1>0. /\ IInv /\ Typed /\ ArcsHaveEnds /\ phase = "copy"
      /\ target' = Copied(S) /\ targetArcs' = CopiedArcs(S)
      /\ UNCHANGED <<obsels, arcs, range, bounds>>
  BY DEF FInv, Copy, SourceUnchanged
<1>1. S \subseteq Selected
  BY <1>0, ReadIs
<1>2. /\ mode # "not" => CopiesAgree
      /\ Old \subseteq Selected
  BY <1>0, UnderWay DEF Usable, CopiesAgree, Old
<1>3. DOMAIN target' = Old \cup S
  BY <1>0 DEF Copied, Old
<1>4. \A o \in DOMAIN target' : target'[o] = obsels[o]
  BY <1>0, <1>2, <1>3 DEF Copied, Old, CopiesAgree
<1>5. target' \in Contents
  <2>1. Old \cup S \subseteq DOMAIN obsels
    BY <1>1, <1>2 DEF Selected
  <2>2. DOMAIN obsels \subseteq Ids /\ \A o \in DOMAIN obsels : obsels[o] \in Intervals
    BY <1>0, ContentsAre DEF IInv, TypeOK
  <2>3. target' = [o \in DOMAIN target' |-> target'[o]]
    BY <1>0 DEF Copied
  <2>4. target' \in [DOMAIN target' -> Intervals]
    BY <1>3, <1>4, <2>1, <2>2, <2>3
  <2> QED
    BY <1>3, <2>1, <2>2, <2>4, ContentsAre
<1>6. targetArcs' = {a \in arcs : a \subseteq DOMAIN target'}
  <2>1. CASE mode = "not"
    <3>1. targetArcs' = {a \in arcs : a \subseteq S /\ a \cap S # {}}
      BY <1>0, <2>1, ZenonT(30) DEF CopiedArcs
    <3>2. DOMAIN target' = S
      BY <1>3, <2>1 DEF Old
    <3>3. \A a \in arcs : a # {}
      BY <1>0 DEF ArcsHaveEnds
    <3>4. \A a \in arcs : a \subseteq S => a \cap S # {}
      BY <3>3
    <3> QED
      BY <3>1, <3>2, <3>4
  <2>2. CASE mode # "not"
    <3> PICK new : new = IF mode = "strict" THEN S ELSE S \ DOMAIN target
      OBVIOUS
    <3>1. /\ targetArcs = {a \in arcs : a \subseteq DOMAIN target}
          /\ targetArcs' = targetArcs \cup
               {a \in arcs : a \subseteq DOMAIN target \cup S /\ a \cap new # {}}
      BY <1>0, <1>2, <2>2 DEF CopiedArcs, CopiesAgree
    <3>2. S \ DOMAIN target \subseteq new /\ DOMAIN target' = DOMAIN target \cup S
      BY <1>3, <2>2 DEF Old
    <3> QED
      BY <3>1, <3>2
  <2> QED
    BY <2>1, <2>2
<1>7. Selected' = Selected
  BY <1>0, SameView
<1>8. CopiesAgree'
  BY <1>0, <1>1, <1>2, <1>3, <1>4, <1>6, <1>7 DEF CopiesAgree
<1> QED
  BY <1>1, <1>3, <1>4, <1>5, <1>8

LEMMA CopyAllFInv ==
  ASSUME Assumed, FInv, CopyAll
  PROVE  FInv'
<1>0. Typed /\ Description
  BY DEF FInv
<1>1. /\ Copy(Read) /\ phase = "copy" /\ phase' = "see"
      /\ UNCHANGED <<bounds, undescribed, dirty, cstate, mode>>
  BY DEF CopyAll, Copy
<1>2. /\ IInv' /\ ArcsHaveEnds' /\ Tame(obsels, range, bounds)'
      /\ UNCHANGED <<obsels, arcs, range, bounds>>
  BY ComputeReads DEF Compute
<1>3. target' \in Contents /\ DOMAIN target' = Old \cup Read /\ CopiesAgree'
  BY <1>1, CopyGives
<1>4. Selected' = Selected /\ Selected \ Old \subseteq Read /\ (SeenAgrees' <=> SeenAgrees)
  BY <1>1, <1>2, ReadIs, SameView
<1>5. WholeView'
  BY <1>3, <1>4 DEF WholeView
<1>6. mode' # "not" => SeenAgrees'
  BY <1>1, <1>4, UnderWay DEF Usable
<1>7. Typed' /\ Description'
  BY <1>0, <1>1, <1>3 DEF Typed, Description
<1>8. Phases'
  BY <1>1, <1>5, <1>6 DEF Phases
<1> QED
  BY <1>2, <1>7, <1>8 DEF FInv

\* A computation that fails has copied the first of the obsels that it reads:
\* those that it leaves are where the tags say.
LEMMA CopyFailsFInv ==
  ASSUME Assumed, FInv, NEW S \in Partial, CopyFails(S)
  PROVE  FInv'
<1>0. Typed /\ Description
  BY DEF FInv
<1>1. /\ Copy(S) /\ phase = "copy" /\ phase' = "idle" /\ mode' = "not" /\ dirty' = TRUE
      /\ UNCHANGED <<bounds, undescribed, cstate>>
      /\ mode = "not" => cstate.kept = {}
  BY DEF CopyFails, Copy, Stop, Assumed
<1>2. /\ IInv' /\ ArcsHaveEnds' /\ Tame(obsels, range, bounds)'
      /\ UNCHANGED <<obsels, arcs, range, bounds>>
  BY ComputeReads DEF Compute
<1>s. S \subseteq Read /\ \A o \in S, p \in Read \ S : After(obsels, p, o)
  BY DEF Partial
<1>3. target' \in Contents /\ DOMAIN target' = Old \cup S /\ CopiesAgree'
  BY <1>1, <1>s, CopyGives
<1>4. Selected' = Selected /\ Selected \ Old \subseteq Read /\ (SeenAgrees' <=> SeenAgrees)
  BY <1>1, <1>2, ReadIs, SameView
<1>5. ASSUME cstate.kept # {} PROVE Usable'
  <2>1. /\ mode # "not" /\ Usable /\ Old = DOMAIN target
        /\ "str" \in cstate.kept => mode = "strict"
    BY <1>1, <1>5, UnderWay DEF Old
  <2>2. Missing' \subseteq Missing /\ Missing' \cap S = {} /\ Missing' \subseteq Read
    BY <1>3, <1>4, <2>1 DEF Missing
  <2>3. ASSUME "str" \in cstate.kept, NEW n \in Missing'
        PROVE  /\ cstate.seen # None => After(obsels, n, cstate.seen)
               /\ \A o \in DOMAIN target' : After(obsels, n, o)
    <3>1. n \in Missing /\ n \in Read \ S
      BY <2>2, <2>3
    <3> QED
      BY <1>3, <1>s, <2>1, <2>3, <3>1 DEF Usable, TagsAgree
  <2>4. "pse" \in cstate.kept /\ cstate.seen # None =>
          \A n \in Missing' : obsels[n].b + range >= obsels[cstate.seen].b
    BY <2>1, <2>2 DEF Usable, TagsAgree
  <2>5. TagsAgree'
    BY <1>1, <1>2, <2>3, <2>4 DEF TagsAgree, After
  <2> QED
    BY <1>3, <1>4, <2>1, <2>5 DEF Usable
<1>6. Typed' /\ Description'
  BY <1>0, <1>1, <1>3 DEF Typed, Description, Modes
<1>7. Phases'
  BY <1>1, <1>5 DEF Phases
<1> QED
  BY <1>2, <1>6, <1>7 DEF FInv

----------------------------------------------------------------------------
(* Noting *)

LEMMA SeeFInv ==
  ASSUME Assumed, FInv, See
  PROVE  FInv'
<1>0. IInv /\ Typed /\ Description /\ Phases
  BY DEF FInv
<1>1. /\ phase = "see" /\ phase' = "note"
      /\ UNCHANGED <<bounds, undescribed, dirty, target, targetArcs, mode>>
  BY DEF See
<1>2. /\ IInv' /\ ArcsHaveEnds' /\ Tame(obsels, range, bounds)'
      /\ UNCHANGED <<obsels, arcs, range, bounds>>
  BY ComputeReads DEF Compute
<1>3. /\ cstate.min = bounds.min /\ cstate.max = bounds.max
      /\ WholeView /\ (mode # "not" => SeenAgrees)
  BY <1>0, <1>1, UnderWay DEF Phases
<1>c. cstate = [kept |-> cstate.kept, min |-> cstate.min, max |-> cstate.max,
                seen |-> cstate.seen, seenB |-> cstate.seenB, passed |-> cstate.passed]
      /\ cstate.kept \in SUBSET MonTags
      /\ cstate.min \in Nat \cup {NoTime} /\ cstate.max \in Nat \cup {NoTime}
  BY <1>0 DEF Typed
<1>4. WholeView'
  BY <1>1, <1>2, <1>3, SameView
<1>5. /\ SeenAgrees'
      /\ cstate' \in [kept : SUBSET MonTags, min : Nat \cup {NoTime}, max : Nat \cup {NoTime},
                      seen : Ids \cup {None}, seenB : Nat \cup {NoTime}, passed : BOOLEAN]
      /\ cstate'.min = cstate.min /\ cstate'.max = cstate.max
  <2>1. CASE cstate' = [cstate EXCEPT !.seen = None, !.seenB = NoTime, !.passed = FALSE]
    <3>1. cstate' = [kept |-> cstate.kept, min |-> cstate.min, max |-> cstate.max,
                     seen |-> None, seenB |-> NoTime, passed |-> FALSE]
      BY <1>c, <2>1
    <3> QED
      BY <1>c, <3>1 DEF SeenAgrees
  <2>2. CASE cstate' = cstate /\ mode # "not"
    BY <1>0, <1>2, <1>3, <2>2, SameView DEF Typed
  <2>3. ASSUME NEW o \in DOMAIN obsels, AtLeast(obsels[o].b, From),
               cstate' = [cstate EXCEPT !.seen = o, !.seenB = obsels[o].b, !.passed = Passed(o)]
        PROVE  /\ SeenAgrees'
               /\ cstate' \in [kept : SUBSET MonTags, min : Nat \cup {NoTime}, max : Nat \cup {NoTime},
                               seen : Ids \cup {None}, seenB : Nat \cup {NoTime}, passed : BOOLEAN]
               /\ cstate'.min = cstate.min /\ cstate'.max = cstate.max
    <3>1. cstate' = [kept |-> cstate.kept, min |-> cstate.min, max |-> cstate.max,
                     seen |-> o, seenB |-> obsels[o].b, passed |-> Passed(o)]
      BY <1>c, <2>3
    <3>2. o \in Ids /\ o # None /\ obsels[o].b \in Nat
      BY <1>0, <2>3, ObselTimes
    <3>3. AtLeast(obsels[o].b, bounds.min)
      BY <1>1, <1>3, <2>3, FromAboveMin DEF Assumed
    <3>4. Passed(o) \in BOOLEAN /\ (Passed(o) <=> bounds.max # NoTime /\ obsels[o].e > bounds.max)
      BY <1>3 DEF Passed
    <3>5. SeenAgrees'
      BY <1>2, <2>3, <3>1, <3>2, <3>3, <3>4 DEF SeenAgrees, AtLeast
    <3>6. cstate' \in [kept : SUBSET MonTags, min : Nat \cup {NoTime}, max : Nat \cup {NoTime},
                       seen : Ids \cup {None}, seenB : Nat \cup {NoTime}, passed : BOOLEAN]
      BY <1>c, <3>1, <3>2, <3>4
    <3> QED
      BY <3>1, <3>5, <3>6
  <2> QED
    BY <2>1, <2>2, <2>3 DEF See
<1>6. Typed' /\ Description'
  BY <1>0, <1>1, <1>3, <1>5 DEF Typed, Description
<1>7. Phases'
  BY <1>1, <1>4, <1>5 DEF Phases
<1> QED
  BY <1>2, <1>6, <1>7 DEF FInv

LEMMA NoteTagsFInv ==
  ASSUME Assumed, FInv, NoteTags
  PROVE  FInv'
<1>0. Typed /\ Description /\ Phases
  BY DEF FInv
<1>1. /\ phase = "note" /\ phase' = "idle" /\ mode' = "not"
      /\ cstate' = [cstate EXCEPT !.kept = MonTags]
      /\ UNCHANGED <<bounds, undescribed, dirty, target, targetArcs>>
  BY DEF NoteTags, Stop
<1>2. /\ IInv' /\ ArcsHaveEnds' /\ Tame(obsels, range, bounds)'
      /\ UNCHANGED <<obsels, arcs, range, bounds>>
  BY ComputeReads DEF Compute
<1>3. /\ cstate' \in [kept : SUBSET MonTags, min : Nat \cup {NoTime}, max : Nat \cup {NoTime},
                      seen : Ids \cup {None}, seenB : Nat \cup {NoTime}, passed : BOOLEAN]
      /\ cstate'.min = cstate.min /\ cstate'.max = cstate.max /\ cstate'.seen = cstate.seen
      /\ cstate'.seenB = cstate.seenB /\ cstate'.passed = cstate.passed
  BY <1>0, <1>1 DEF Typed
<1>4. WholeView /\ SeenAgrees
  BY <1>0, <1>1 DEF Phases
<1>5. WholeView'
  BY <1>1, <1>2, <1>4, SameView
<1>6. SeenAgrees'
  BY <1>2, <1>3, <1>4 DEF SeenAgrees, AtLeast
<1>7. Usable'
  <2>1. Missing' = {}
    BY <1>5 DEF WholeView, Missing
  <2> QED
    BY <1>5, <1>6, <2>1 DEF Usable, WholeView, TagsAgree
<1>8. Typed' /\ Description'
  BY <1>0, <1>1, <1>3 DEF Typed, Description, Modes
<1>9. Phases'
  BY <1>1, <1>5, <1>7 DEF Phases
<1> QED
  BY <1>2, <1>8, <1>9 DEF FInv

----------------------------------------------------------------------------
(* The theorems *)

LEMMA FilteredInitInvariant == FilteredInit => FInv
<1> SUFFICES ASSUME FilteredInit PROVE FInv
  OBVIOUS
<1>1. /\ Init /\ bounds \in Bounds /\ undescribed = TRUE /\ dirty = TRUE
      /\ target = [o \in {} |-> [b |-> 0, e |-> 0]]
      /\ cstate = Described(bounds) /\ mode = "not" /\ phase = "idle"
      /\ Tame(obsels, range, bounds)
  BY DEF FilteredInit, InitComputed
<1>2. IInv /\ ArcsHaveEnds
  BY <1>1, InitInvariant DEF Init, ArcsHaveEnds
<1>3. target \in Contents
  BY <1>1, ContentsAre
<1>4. Typed
  BY <1>1, <1>3, DescribedType DEF Typed, Modes
<1>5. Description /\ Phases
  BY <1>1 DEF Description, Phases
<1> QED
  BY <1>1, <1>2, <1>4, <1>5 DEF FInv

LEMMA FilteredNextInvariant ==
  ASSUME Assumed, FInv, [FilteredNext]_vars
  PROVE  FInv'
<1>1. CASE UNCHANGED vars
  <2>0. UNCHANGED <<obsels, arcs, last, range, renewed, bounds, undescribed, dirty, target,
                    targetArcs, cstate, mode, phase>>
    BY <1>1 DEF vars, collection, computed
  <2>1. IInv' /\ Typed' /\ ArcsHaveEnds' /\ Description' /\ Tame(obsels, range, bounds)'
    BY <2>0 DEF FInv, IInv, TypeOK, LastIsLast, After, Typed, ArcsHaveEnds, Description, Tame
  <2>2. /\ Usable' <=> Usable
        /\ WholeView' <=> WholeView
        /\ SeenAgrees' <=> SeenAgrees
    BY <2>0, SameView
  <2>3. Phases'
    BY <2>0, <2>2 DEF FInv, Phases, Monotonicity
  <2> QED
    BY <2>1, <2>3 DEF FInv
<1>2. CASE Change
  BY <1>2, ChangeFInv
<1>3. CASE Compute
  BY <1>3, DescribeFInv, BeginFInv, CopyAllFInv, CopyFailsFInv, SeeFInv, NoteTagsFInv DEF Compute
<1> QED
  BY <1>1, <1>2, <1>3 DEF FilteredNext

\* While requests wait for the computation under way, and on the collections
\* that Assumed describes, the computation state of a filtered trace tells what
\* remains to be copied, after a failed computation too (filter.py:106-192,
\* abstract.py:121-195).
THEOREM FilterInvariance == Assumed => (FilteredSpec => []FInv)
<1> SUFFICES ASSUME Assumed PROVE FilteredSpec => []FInv
  OBVIOUS
<1>1. FilteredInit => FInv
  BY FilteredInitInvariant
<1>2. FInv /\ [FilteredNext]_vars => FInv'
  BY FilteredNextInvariant
<1> QED
  BY <1>1, <1>2, PTL DEF FilteredSpec

\* Then the obsels that are served without computation are exactly those of the
\* source, with their arcs, that the boundaries select: what a computation from
\* scratch would give (ComputedTraceObsels.force_state_refresh,
\* trace_obsels.py:572-620).
THEOREM ViewCorrect ==
  ~AmendLast /\ ~TiedLast /\ OneAtATime /\ ~LongObsels /\ ~MinWithRange /\ ~ForcedFails
    => (FilteredSpec => []ViewUpToDate)
<1> SUFFICES ASSUME Assumed PROVE FilteredSpec => []ViewUpToDate
  BY DEF Assumed
<1>1. FInv => ViewUpToDate
  <2> SUFFICES ASSUME FInv, phase = "idle", ~dirty
               PROVE  /\ target = [o \in Selected |-> obsels[o]]
                      /\ targetArcs = {a \in arcs : a \subseteq Selected}
    BY DEF ViewUpToDate
  <2>1. WholeView /\ target \in Contents
    BY DEF FInv, Phases, Typed
  <2>2. DOMAIN target = Selected /\ target \in [DOMAIN target -> Intervals]
    BY <2>1, ContentsAre DEF WholeView, CopiesAgree
  <2> QED
    BY <2>1, <2>2 DEF WholeView, CopiesAgree
<1> QED
  BY <1>1, FilterInvariance, PTL

\* A computation that assumes a tag loses and changes nothing of what has been
\* copied, and one that assumes the strict tag copies only what comes after it
\* (_FilterMethod.do_compute_obsels, filter.py:106-192).
THEOREM MonotonicCorrect ==
  ~AmendLast /\ ~TiedLast /\ OneAtATime /\ ~LongObsels /\ ~MinWithRange /\ ~ForcedFails
    => (FilteredSpec => FilterIsMonotonic)
<1> SUFFICES ASSUME Assumed PROVE FilteredSpec => FilterIsMonotonic
  BY DEF Assumed
<1>1. FInv /\ [FilteredNext]_vars =>
        [/\ phase = "copy" /\ mode # "not" =>
              /\ \A o \in DOMAIN target : o \in DOMAIN target' /\ target'[o] = target[o]
              /\ targetArcs \subseteq targetArcs'
         /\ phase = "copy" /\ mode = "strict" =>
              \A n \in DOMAIN target' \ DOMAIN target :
                \A o \in DOMAIN target : After(target', n, o)]_vars
  <2> SUFFICES ASSUME FInv, FilteredNext, phase = "copy", mode # "not"
               PROVE  /\ \A o \in DOMAIN target : o \in DOMAIN target' /\ target'[o] = target[o]
                      /\ targetArcs \subseteq targetArcs'
                      /\ mode = "strict" =>
                           \A n \in DOMAIN target' \ DOMAIN target :
                             \A o \in DOMAIN target : After(target', n, o)
    OBVIOUS
  <2>1. PICK S \in SUBSET Read : Copy(S)
    BY DEF FilteredNext, Change, CollectSource, AmendSource, RangeSource, EditBounds, Served,
           Assumed, Compute, Describe, Begin, CopyAll, CopyFails, See, NoteTags, Partial
  <2>2. /\ Usable /\ Old = DOMAIN target
        /\ mode = "strict" => "str" \in cstate.kept
    BY UnderWay DEF Old
  <2>3. /\ DOMAIN target' = DOMAIN target \cup S /\ S \subseteq Selected
        /\ \A o \in DOMAIN target' : target'[o] = obsels[o]
    BY <2>1, <2>2, CopyGives
  <2>4. \A o \in DOMAIN target : o \in DOMAIN target' /\ target'[o] = target[o]
    BY <2>2, <2>3 DEF Usable, CopiesAgree
  <2>5. targetArcs \subseteq targetArcs'
    BY <2>1 DEF Copy, CopiedArcs
  <2>6. ASSUME mode = "strict", NEW n \in DOMAIN target' \ DOMAIN target, NEW o \in DOMAIN target
        PROVE  After(target', n, o)
    <3>1. n \in Missing
      BY <2>3, <2>6 DEF Missing
    <3>2. After(obsels, n, o)
      BY <2>2, <2>6, <3>1 DEF Usable, TagsAgree
    <3> QED
      BY <2>3, <2>4, <2>6, <3>2 DEF After
  <2> QED
    BY <2>4, <2>5, <2>6
<1> QED
  BY <1>1, FilterInvariance, PTL DEF FilteredSpec, FilterIsMonotonic
=============================================================================
