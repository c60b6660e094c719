-------------------------- MODULE TraceGraph_proofs --------------------------
(***************************************************************************)
(* Referential integrity of the graph of traces and methods, for any       *)
(* names, built-in methods and settings, and any number of time-outs: as   *)
(* long as traces name methods that exist (~Dangling), what is named       *)
(* exists and both ends of each arc agree, except for the traces whose     *)
(* deletion timed out; and if no method in use gets another built-in one   *)
(* at its root (~Reparented), a trace that is not marked, and has lost no  *)
(* mark to a computation that timed out, has the description that its      *)
(* method and its sources call for.                                        *)
(***************************************************************************)
EXTENDS TraceGraph, TLAPS

USE NamesAssumption

\* Neither part is inductive alone: a deletion is refused because of the reverse
\* arcs, and an arc has its reverse because what it leads to exists.
IInv == TypeOK /\ ReverseArcs /\ NoDangling

----------------------------------------------------------------------------
(* Operators *)

\* Following the parents leads to a built-in method, or to none; also after a step.
LEMMA RootNow == ASSUME NEW m PROVE Root(m) \in Builtins \cup {None}
<1> DEFINE found == {parent[y] : y \in Lineage(m)} \cap Builtins
<1>1. found # {} => (CHOOSE b \in found : TRUE) \in found
  OBVIOUS
<1>2. Root(m) = IF m \in Builtins THEN m
                ELSE IF found = {} THEN None ELSE CHOOSE b \in found : TRUE
  BY DEF Root
<1>3. found \subseteq Builtins
  OBVIOUS
<1> HIDE DEF found
<1> QED
  BY <1>1, <1>2, <1>3

LEMMA RootType == ASSUME NEW x PROVE Root(method[x])' \in Builtins \cup {None}
<1> DEFINE found == {parent'[y] : y \in Lineage(method[x])'} \cap Builtins
<1>1. found # {} => (CHOOSE b \in found : TRUE) \in found
  OBVIOUS
<1>2. found \subseteq Builtins
  OBVIOUS
<1>3. Root(method[x])' = IF method'[x] \in Builtins THEN method'[x]
                         ELSE IF found = {} THEN None ELSE CHOOSE b \in found : TRUE
  BY DEF Root
<1> HIDE DEF found
<1> QED
  BY <1>1, <1>2, <1>3

\* The comparison of a description with its inputs is a truth value.
LEMMA CompareType ==
  ASSUME NEW S, Compare(S), outdated \in [Traces -> BOOLEAN]
  PROVE  outdated' \in [Traces -> BOOLEAN]
<1>1. \A t \in Traces : outdated'[t] \in BOOLEAN
  <2> TAKE t \in Traces
  <2> DEFINE changed == IF t \in S
                        THEN impl'[t] # Root(method[t])'
                        ELSE outdated[t] \/ Inputs(t)' # Inputs(t) \/ sources'[t] \cap S # {}
  <2>1. outdated'[t] = (kind'[t] = "computed" /\ changed)
    BY DEF Compare
  <2> HIDE DEF changed
  <2> QED
    BY <2>1
<1>2. outdated' = [t \in Traces |-> outdated'[t]]
  BY DEF Compare
<1> QED
  BY <1>1, <1>2

\* Only computed traces stay among those that lost a mark.
LEMMA UnmarkedType ==
  ASSUME NEW S, Compare(S), unmarked \subseteq Traces
  PROVE  unmarked' \subseteq Computed' /\ unmarked' \subseteq unmarked /\ unmarked' \cap S = {}
<1> QED
  BY DEF Compare, Computed

\* Heirs of a method are methods.
LEMMA HeirsType ==
  ASSUME NEW m \in Methods PROVE Heirs(m) \subseteq Methods
<1> QED
  BY DEF Heirs, Closure

\* Only computed traces have marks, sources, or a place in a reverse arc.
LEMMA ReverseAreComputed ==
  ASSUME IInv
  PROVE  /\ \A s, t \in Traces : t \in transformed[s] => t \in Computed
         /\ \A m \in Methods : usedBy[m] \subseteq Computed
         /\ \A m \in Methods : Affected(m) \subseteq Computed
<1>1. \A s, t \in Traces : t \in transformed[s] => t \in Computed
  BY DEF IInv, TypeOK, ReverseArcs
<1>2. \A m \in Methods : usedBy[m] \subseteq Computed
  <2> TAKE m \in Methods
  <2> SUFFICES ASSUME NEW t \in usedBy[m] PROVE t \in Computed
    OBVIOUS
  <2>1. t \in Traces /\ method[t] = m /\ m # None
    BY DEF IInv, TypeOK, ReverseArcs
  <2> QED
    BY <2>1 DEF IInv, TypeOK
<1>3. \A m \in Methods : Affected(m) \subseteq Computed
  <2> TAKE m \in Methods
  <2>1. Heirs(m) \subseteq Methods
    BY HeirsType
  <2> QED
    BY <2>1, <1>2 DEF Affected
<1> QED
  BY <1>1, <1>2, <1>3

\* The traces above a trace are traces, also after a step.
LEMMA AboveType ==
  ASSUME NEW t \in Traces, sources' \in [Traces -> SUBSET Traces]
  PROVE  Above(t)' \subseteq Traces
<1>1. sources'[t] \subseteq Traces
  OBVIOUS
<1> QED
  BY <1>1 DEF Above, Closure

\* Reading a state marks and computes computed traces only.
LEMMA ReadType ==
  ASSUME NEW t \in Traces, NEW D \in SUBSET Computed', NEW late \in SUBSET Computed',
         NEW i \in [Traces -> Builtins \cup {None}],
         \A u \in Traces : i[u] # None => u \in Computed',
         sources' \in [Traces -> SUBSET Traces],
         \A s, u \in Traces : u \in transformed'[s] => u \in Computed',
         outdated \in [Traces -> BOOLEAN], unmarked \subseteq Traces,
         Read(t, D, i, late)
  PROVE  /\ dirty' \in [Traces -> BOOLEAN]
         /\ impl' \in [Traces -> Builtins \cup {None}]
         /\ outdated' \in [Traces -> BOOLEAN]
         /\ unmarked' \subseteq Computed'
         /\ \A u \in Traces : dirty'[u] \/ impl'[u] # None => u \in Computed'
<1> DEFINE R == Refreshed(t, D)
           mark(x) == x \in late \/ (x \notin R /\ (x \in D \/ \E y \in R : x \in transformed'[y]))
           kept(x) == IF x \in R /\ i[x] = None THEN Root(method[x])' ELSE i[x]
<1>1. /\ dirty' = [x \in Traces |-> mark(x)]
      /\ impl' = [x \in Traces |-> kept(x)]
      /\ Compare(R)
  BY DEF Read
<1>2. R \subseteq Computed'
  BY AboveType DEF Refreshed, Computed
<1>3. R \subseteq Traces
  BY <1>2 DEF Computed
<1>4. \A x : Root(method[x])' \in Builtins \cup {None}
  BY RootType
<1>5. outdated' \in [Traces -> BOOLEAN] /\ unmarked' \subseteq Computed'
  BY <1>1, CompareType, UnmarkedType
<1> HIDE DEF R
<1>6. \A x \in Traces : mark(x) \in BOOLEAN /\ (mark(x) => x \in Computed')
  BY <1>3
<1>7. \A x \in Traces : kept(x) \in Builtins \cup {None} /\ (kept(x) # None => x \in Computed')
  BY <1>2, <1>4
<1> HIDE DEF mark, kept
<1> QED
  BY <1>1, <1>5, <1>6, <1>7

----------------------------------------------------------------------------
(* IInv is preserved, one lemma per action *)

\* Nothing exists yet.
LEMMA InitIInv == Init => IInv
<1> SUFFICES ASSUME Init PROVE IInv
  OBVIOUS
<1>1. TypeOK
  BY DEF Init, TypeOK, Computed
<1>2. ReverseArcs
  BY DEF Init, ReverseArcs
<1>3. NoDangling
  BY DEF Init, NoDangling, Computed, Defined
<1> QED
  BY <1>1, <1>2, <1>3 DEF IInv

\* The other variables stay.
LEMMA StutterIInv == ASSUME IInv, UNCHANGED vars PROVE IInv'
<1> QED
  BY DEF IInv, vars, TypeOK, ReverseArcs, NoDangling, Existing, Computed, Defined

\* Creating a stored trace: it has no arcs yet.
LEMMA CreateStoredIInv ==
  ASSUME IInv, NEW t \in Traces, NEW v \in Settings, CreateStored(t, v)
  PROVE  IInv'
<1> USE DEF IInv
<1>0. outdated' \in [Traces -> BOOLEAN] /\ unmarked' \subseteq Computed'
  BY CompareType, UnmarkedType DEF CreateStored, TypeOK, Computed
<1>1. kind' \in [Traces -> {"none", "stored", "computed"}] /\ Computed' = Computed
  BY DEF CreateStored, TypeOK, Computed
<1>2. own' \in [Traces -> Settings \cup {None}]
  BY DEF CreateStored, TypeOK
<1>3. TypeOK'
  BY <1>0, <1>1, <1>2 DEF CreateStored, arcs, TypeOK
<1>4. ReverseArcs'
  BY DEF CreateStored, arcs, ReverseArcs
<1>5. Existing \subseteq Existing' /\ Defined' = Defined
  BY DEF CreateStored, arcs, Existing, Defined, TypeOK
<1>6. NoDangling'
  BY <1>1, <1>5 DEF CreateStored, arcs, NoDangling
<1> QED
  BY <1>3, <1>4, <1>6

\* Editing a stored trace marks those it is a source of, which are computed.
LEMMA EditStoredIInv ==
  ASSUME IInv, NEW t \in Traces, NEW v \in Settings, EditStored(t, v)
  PROVE  IInv'
<1> USE DEF IInv
<1>0. outdated' \in [Traces -> BOOLEAN] /\ unmarked' \subseteq Computed'
  BY CompareType, UnmarkedType DEF EditStored, TypeOK, Computed
<1>1. Existing' = Existing /\ Computed' = Computed /\ Defined' = Defined
  BY DEF EditStored, arcs, Existing, Computed, Defined
<1>2. own' \in [Traces -> Settings \cup {None}]
  BY DEF EditStored, TypeOK
<1>3. /\ dirty' \in [Traces -> BOOLEAN]
      /\ \A u \in Traces : dirty'[u] => dirty[u] \/ u \in Computed
  BY ReverseAreComputed DEF EditStored, Mark, TypeOK
<1>4. TypeOK'
  BY <1>0, <1>1, <1>2, <1>3 DEF EditStored, arcs, TypeOK
<1>5. ReverseArcs' /\ NoDangling'
  BY <1>1 DEF EditStored, arcs, ReverseArcs, NoDangling
<1> QED
  BY <1>4, <1>5

\* The new reverse arcs of sources, for any set of sources S of t.
LEMMA NotifiedArcs ==
  ASSUME IInv, NEW t \in Traces, NEW S \in SUBSET Traces,
         sources' \in [Traces -> SUBSET Traces],
         \A u \in Traces : u # t => sources'[u] = sources[u] /\ (u \in halfDeleted' <=> u \in halfDeleted),
         S = IF t \in halfDeleted' THEN {} ELSE sources'[t],
         transformed' = Notified(t, S)
  PROVE  /\ transformed' \in [Traces -> SUBSET Traces]
         /\ \A s, u \in Traces :
              u \in transformed'[s] <=> s \in sources'[u] /\ u \notin halfDeleted'
<1>1. transformed' \in [Traces -> SUBSET Traces]
  BY DEF IInv, TypeOK, Notified
<1>2. ASSUME NEW s \in Traces, NEW u \in Traces
      PROVE  u \in transformed'[s] <=> s \in sources'[u] /\ u \notin halfDeleted'
  <2>1. transformed'[s] = IF s \in S THEN transformed[s] \cup {t} ELSE transformed[s] \ {t}
    BY DEF Notified
  <2>2. u \in transformed[s] <=> s \in sources[u] /\ u \notin halfDeleted
    BY DEF IInv, ReverseArcs
  <2>3. CASE u # t
    <3>1. u \in transformed'[s] <=> u \in transformed[s]
      BY <2>1, <2>3
    <3> QED
      BY <2>2, <2>3, <3>1
  <2>4. CASE u = t
    <3>1. t \in transformed'[s] <=> s \in S
      BY <2>1
    <3> QED
      BY <2>4, <3>1
  <2> QED
    BY <2>3, <2>4
<1> QED
  BY <1>1, <1>2

\* The traces marked because t gets the sources S are t and computed traces.
LEMMA MarkedAreComputed ==
  ASSUME IInv, NEW t \in Traces, NEW S \in SUBSET Traces
  PROVE  MarkedBySources(t, S) \subseteq Computed \cup {t}
<1> SUFFICES ASSUME NEW s \in sources[t] \cup S, NEW u \in Notified(t, S)[s]
             PROVE  u \in Computed \cup {t}
  BY DEF MarkedBySources
<1>1. s \in Traces
  BY DEF IInv, TypeOK
<1>2. u = t \/ u \in transformed[s]
  BY <1>1 DEF Notified
<1>3. transformed[s] \subseteq Traces
  BY <1>1 DEF IInv, TypeOK
<1> QED
  BY <1>1, <1>2, <1>3, ReverseAreComputed

\* The new reverse arc of the method, when the method of t becomes m.
LEMMA UsingArcs ==
  ASSUME IInv, NEW t \in Traces, NEW m \in Builtins \cup Defined \cup {None},
         \A u \in Traces : u # t => method'[u] = method[u] /\ (u \in halfDeleted' <=> u \in halfDeleted),
         m = IF t \in halfDeleted' THEN None ELSE method'[t],
         usedBy' = Using(t, m)
  PROVE  /\ usedBy' \in [Methods -> SUBSET Traces]
         /\ \A x \in Methods, u \in Traces :
              u \in usedBy'[x] <=> method'[u] = x /\ u \notin halfDeleted'
<1>1. usedBy' \in [Methods -> SUBSET Traces]
  BY DEF IInv, TypeOK, Using
<1>2. ASSUME NEW x \in Methods, NEW u \in Traces
      PROVE  u \in usedBy'[x] <=> method'[u] = x /\ u \notin halfDeleted'
  <2>1. usedBy'[x] = IF x = m /\ x \in Defined THEN usedBy[x] \cup {t} ELSE usedBy[x] \ {t}
    BY DEF Using
  <2>2. u \in usedBy[x] <=> method[u] = x /\ u \notin halfDeleted
    BY DEF IInv, ReverseArcs
  <2>3. x = m => x \in Defined
    OBVIOUS
  <2>4. x # None
    OBVIOUS
  <2>5. CASE u # t
    <3>1. u \in usedBy'[x] <=> u \in usedBy[x]
      BY <2>1, <2>5
    <3> QED
      BY <2>2, <2>5, <3>1
  <2>6. CASE u = t
    <3>1. t \in usedBy'[x] <=> x = m
      BY <2>1, <2>3
    <3> QED
      BY <2>4, <2>6, <3>1
  <2> QED
    BY <2>5, <2>6
<1> QED
  BY <1>1, <1>2

\* Creating a computed trace, over sources and a method that exist.
LEMMA CreateComputedIInv ==
  ASSUME IInv, ~Dangling, NEW t \in Traces, CreateComputed(t)
  PROVE  IInv'
<1> USE DEF IInv
<1> PICK S \in SUBSET (Existing \ halfDeleted), m \in Usable, v \in Settings :
      /\ sources' = [sources EXCEPT ![t] = S]
      /\ transformed' = Notified(t, S)
      /\ method' = [method EXCEPT ![t] = m]
      /\ usedBy' = Using(t, m)
      /\ own' = [own EXCEPT ![t] = v]
      /\ UNCHANGED <<methodVars, halfDeleted>>
      /\ Read(t, Marked \cup MarkedBySources(t, S) \cup {t}, impl, {})
  BY DEF CreateComputed
<1>1. S \subseteq Existing \ halfDeleted /\ S \in SUBSET Traces /\ m \in Builtins \cup Defined
  BY DEF Usable, Existing
<1>2. /\ kind' \in [Traces -> {"none", "stored", "computed"}]
      /\ Computed' = Computed \cup {t} /\ Existing' = Existing \cup {t}
      /\ Defined' = Defined
      /\ t \notin Existing
  BY DEF CreateComputed, methodVars, TypeOK, Computed, Existing, Defined
<1>3. own' \in [Traces -> Settings \cup {None}]
  BY DEF TypeOK
<1>6. \A u \in Traces : u # t => sources'[u] = sources[u] /\ method'[u] = method[u]
  BY DEF TypeOK
<1>7. sources'[t] = S /\ method'[t] = m /\ m # None /\ halfDeleted' = halfDeleted
  BY <1>1 DEF TypeOK, Defined
<1>4. /\ sources' \in [Traces -> SUBSET Traces]
      /\ transformed' \in [Traces -> SUBSET Traces]
      /\ \A s, u \in Traces :
           u \in transformed'[s] <=> s \in sources'[u] /\ u \notin halfDeleted'
  <2>1. sources' \in [Traces -> SUBSET Traces] /\ t \notin halfDeleted
    BY <1>1, <1>2 DEF TypeOK, Computed, Existing
  <2> QED
    BY <1>1, <1>6, <1>7, <2>1, NotifiedArcs
<1>5. /\ method' \in [Traces -> Methods \cup Builtins \cup {None}]
      /\ usedBy' \in [Methods -> SUBSET Traces]
      /\ \A x \in Methods, u \in Traces :
           u \in usedBy'[x] <=> method'[u] = x /\ u \notin halfDeleted'
  <2>1. method' \in [Traces -> Methods \cup Builtins \cup {None}] /\ t \notin halfDeleted
    BY <1>1, <1>2 DEF TypeOK, Computed, Existing, Defined
  <2> QED
    BY <1>1, <1>6, <1>7, <2>1, UsingArcs
<1>8. \A u \in Traces : /\ sources'[u] # {} => u \in Computed'
                        /\ method'[u] # None <=> u \in Computed'
  BY <1>2, <1>6, <1>7 DEF TypeOK
<1>9. /\ dirty' \in [Traces -> BOOLEAN]
      /\ impl' \in [Traces -> Builtins \cup {None}]
      /\ outdated' \in [Traces -> BOOLEAN] /\ unmarked' \subseteq Computed'
      /\ \A u \in Traces : dirty'[u] \/ impl'[u] # None => u \in Computed'
  <2> DEFINE D == Marked \cup MarkedBySources(t, S) \cup {t}
  <2>1. MarkedBySources(t, S) \subseteq Computed \cup {t}
    BY <1>1, MarkedAreComputed
  <2>2. D \in SUBSET Computed'
    BY <1>2, <2>1 DEF Marked, TypeOK
  <2>3. \A s, u \in Traces : u \in transformed'[s] => u \in Computed'
    BY <1>4, <1>8
  <2>4. /\ impl \in [Traces -> Builtins \cup {None}] /\ outdated \in [Traces -> BOOLEAN]
        /\ unmarked \subseteq Traces
        /\ \A u \in Traces : impl[u] # None => u \in Computed'
    BY <1>2 DEF TypeOK, Computed
  <2>5. Read(t, D, impl, {})
    OBVIOUS
  <2> HIDE DEF D
  <2> QED
    BY <1>4, <2>2, <2>3, <2>4, <2>5, ReadType
<1>10. TypeOK'
  BY <1>2, <1>3, <1>4, <1>5, <1>7, <1>8, <1>9 DEF methodVars, TypeOK
<1>11. ReverseArcs'
  BY <1>4, <1>5 DEF methodVars, ReverseArcs
<1>12. NoDangling'
  BY <1>1, <1>2, <1>6, <1>7 DEF methodVars, NoDangling
<1> QED
  BY <1>10, <1>11, <1>12

\* Editing a computed trace.
LEMMA EditComputedIInv ==
  ASSUME IInv, ~Dangling, NEW t \in Traces, EditComputed(t)
  PROVE  IInv'
<1> USE DEF IInv
<1> PICK S \in SUBSET {s \in (Existing \ halfDeleted) \ {t} : t \notin Above(s)},
         m \in Usable, v \in Settings :
      /\ sources' = [sources EXCEPT ![t] = S]
      /\ transformed' = Notified(t, S)
      /\ method' = [method EXCEPT ![t] = m]
      /\ usedBy' = IF m # method[t] THEN Using(t, m) ELSE usedBy
      /\ own' = [own EXCEPT ![t] = v]
      /\ UNCHANGED <<kind, methodVars, halfDeleted>>
      /\ IF S # sources[t] \/ m # method[t]
         THEN Read(t, Marked \cup Outdated(t, S) \cup {t},
                   IF m # method[t] THEN [impl EXCEPT ![t] = None] ELSE impl,
                   IF v # own[t] THEN {t} ELSE {})
         ELSE /\ dirty' = Mark(Outdated(t, S) \cup (IF v # own[t] THEN {t} ELSE {}))
              /\ impl' = IF m # method[t] THEN [impl EXCEPT ![t] = None] ELSE impl
              /\ Compare({})
  BY DEF EditComputed
<1> DEFINE i == IF m # method[t] THEN [impl EXCEPT ![t] = None] ELSE impl
           late == IF v # own[t] THEN {t} ELSE {}
<1>1. /\ S \subseteq Existing \ halfDeleted /\ S \in SUBSET Traces /\ m \in Builtins \cup Defined
      /\ t \notin halfDeleted /\ halfDeleted' = halfDeleted
  BY DEF EditComputed, Usable, Existing
<1>2. Computed' = Computed /\ Existing' = Existing /\ Defined' = Defined /\ t \in Computed
  BY DEF EditComputed, methodVars, Computed, Existing, Defined
<1>3. own' \in [Traces -> Settings \cup {None}]
  BY DEF TypeOK
<1>6. \A u \in Traces : u # t => sources'[u] = sources[u] /\ method'[u] = method[u]
  BY DEF TypeOK
<1>7. sources'[t] = S /\ method'[t] = m /\ m # None
  BY <1>1 DEF TypeOK, Defined
<1>4. /\ sources' \in [Traces -> SUBSET Traces]
      /\ transformed' \in [Traces -> SUBSET Traces]
      /\ \A s, u \in Traces :
           u \in transformed'[s] <=> s \in sources'[u] /\ u \notin halfDeleted'
  <2>1. sources' \in [Traces -> SUBSET Traces]
    BY <1>1 DEF TypeOK
  <2> QED
    BY <1>1, <1>6, <1>7, <2>1, NotifiedArcs
<1>5. /\ method' \in [Traces -> Methods \cup Builtins \cup {None}]
      /\ usedBy' \in [Methods -> SUBSET Traces]
      /\ \A x \in Methods, u \in Traces :
           u \in usedBy'[x] <=> method'[u] = x /\ u \notin halfDeleted'
  <2>0. method' \in [Traces -> Methods \cup Builtins \cup {None}]
    BY <1>1 DEF TypeOK, Defined
  <2>1. CASE m # method[t]
    BY <1>1, <1>6, <1>7, <2>0, <2>1, UsingArcs
  <2>2. CASE m = method[t]
    <3>1. method' = method /\ usedBy' = usedBy
      BY <2>2 DEF TypeOK
    <3> QED
      BY <1>1, <3>1 DEF TypeOK, ReverseArcs
  <2> QED
    BY <2>0, <2>1, <2>2
<1>8. \A u \in Traces : /\ sources'[u] # {} => u \in Computed'
                        /\ method'[u] # None <=> u \in Computed'
  BY <1>2, <1>6, <1>7 DEF TypeOK
<1>9. /\ i \in [Traces -> Builtins \cup {None}] /\ outdated \in [Traces -> BOOLEAN]
      /\ unmarked \subseteq Traces
      /\ \A u \in Traces : i[u] # None => u \in Computed'
  BY <1>2 DEF TypeOK, Computed
<1>10. Marked \cup Outdated(t, S) \cup {t} \in SUBSET Computed' /\ late \in SUBSET Computed'
  <2>1. MarkedBySources(t, S) \subseteq Computed \cup {t}
    BY <1>1, MarkedAreComputed
  <2>2. transformed[t] \subseteq Computed
    BY ReverseAreComputed DEF TypeOK
  <2>3. Outdated(t, S) \subseteq Computed
    BY <1>2, <2>1, <2>2 DEF Outdated
  <2>4. Marked \subseteq Computed
    BY DEF Marked, TypeOK
  <2> QED
    BY <1>2, <2>3, <2>4
<1>11. /\ dirty' \in [Traces -> BOOLEAN]
       /\ impl' \in [Traces -> Builtins \cup {None}]
       /\ outdated' \in [Traces -> BOOLEAN] /\ unmarked' \subseteq Computed'
       /\ \A u \in Traces : dirty'[u] \/ impl'[u] # None => u \in Computed'
  <2>1. CASE S # sources[t] \/ m # method[t]
    <3> DEFINE D == Marked \cup Outdated(t, S) \cup {t}
    <3>1. Read(t, D, i, late)
      BY <2>1
    <3>2. \A s, u \in Traces : u \in transformed'[s] => u \in Computed'
      BY <1>4, <1>8
    <3>3. D \in SUBSET Computed' /\ late \in SUBSET Computed'
      BY <1>10
    <3> HIDE DEF D, i, late
    <3> PICK D2, i2, late2 : D2 = D /\ i2 = i /\ late2 = late
      OBVIOUS
    <3>4. /\ D2 \in SUBSET Computed' /\ late2 \in SUBSET Computed'
          /\ i2 \in [Traces -> Builtins \cup {None}]
          /\ \A u \in Traces : i2[u] # None => u \in Computed'
          /\ Read(t, D2, i2, late2)
      BY <1>9, <3>1, <3>3
    <3>5. /\ sources' \in [Traces -> SUBSET Traces]
          /\ outdated \in [Traces -> BOOLEAN] /\ unmarked \subseteq Traces
      BY <1>4, <1>9
    <3> QED
      BY <3>2, <3>4, <3>5, ReadType
  <2>2. CASE ~(S # sources[t] \/ m # method[t])
    <3>1. dirty' = Mark(Outdated(t, S) \cup late) /\ impl' = i /\ Compare({})
      BY <2>2
    <3>2. outdated' \in [Traces -> BOOLEAN] /\ unmarked' \subseteq Computed'
      BY <1>9, <3>1, CompareType, UnmarkedType
    <3> HIDE DEF i, late
    <3> QED
      BY <1>2, <1>9, <1>10, <3>1, <3>2 DEF Mark, Marked, TypeOK
  <2> QED
    BY <2>1, <2>2
<1>12. TypeOK'
  BY <1>1, <1>2, <1>3, <1>4, <1>5, <1>8, <1>11 DEF methodVars, TypeOK
<1>13. ReverseArcs'
  BY <1>4, <1>5 DEF methodVars, ReverseArcs
<1>14. NoDangling'
  BY <1>1, <1>2, <1>6, <1>7 DEF methodVars, NoDangling
<1> QED
  BY <1>12, <1>13, <1>14

\* Deleting a trace: as no trace has it as a source, nothing names it any more.
LEMMA DeleteTraceIInv ==
  ASSUME IInv, NEW t \in Traces, DeleteTrace(t)
  PROVE  IInv'
<1> USE DEF IInv, DeleteTrace
<1>1. \A u \in Traces : t \notin sources[u] \/ u \in halfDeleted
  BY DEF Destructible, ReverseArcs
<1>2. /\ kind' \in [Traces -> {"none", "stored", "computed"}]
      /\ Computed' = Computed \ {t} /\ Existing' = Existing \ {t} /\ Defined' = Defined
  BY DEF methodVars, TypeOK, Computed, Existing, Defined
<1>3. outdated' \in [Traces -> BOOLEAN] /\ unmarked' \subseteq Computed'
  BY CompareType, UnmarkedType DEF TypeOK, Computed
<1>8. \A u \in Traces : u # t => /\ sources'[u] = sources[u]
                                 /\ method'[u] = method[u]
                                 /\ impl'[u] = impl[u]
                                 /\ (u \in halfDeleted' <=> u \in halfDeleted)
  BY DEF TypeOK
<1>9. sources'[t] = {} /\ method'[t] = None /\ impl'[t] = None /\ t \notin halfDeleted'
  BY DEF TypeOK
<1>4. /\ sources' \in [Traces -> SUBSET Traces]
      /\ transformed' \in [Traces -> SUBSET Traces]
      /\ \A s, u \in Traces :
           u \in transformed'[s] <=> s \in sources'[u] /\ u \notin halfDeleted'
  <2>1. sources' \in [Traces -> SUBSET Traces]
    BY DEF TypeOK
  <2> QED
    BY <1>8, <1>9, <2>1, NotifiedArcs
<1>5. /\ method' \in [Traces -> Methods \cup Builtins \cup {None}]
      /\ usedBy' \in [Methods -> SUBSET Traces]
      /\ \A x \in Methods, u \in Traces :
           u \in usedBy'[x] <=> method'[u] = x /\ u \notin halfDeleted'
  <2>1. method' \in [Traces -> Methods \cup Builtins \cup {None}]
    BY DEF TypeOK
  <2> QED
    BY <1>8, <1>9, <2>1, UsingArcs
<1>6. impl' \in [Traces -> Builtins \cup {None}] /\ own' \in [Traces -> Settings \cup {None}]
  BY DEF TypeOK
<1>7. /\ dirty' \in [Traces -> BOOLEAN]
      /\ \A u \in Traces : dirty'[u] => (dirty[u] \/ u \in Computed) /\ u # t
  <2>1. MarkedBySources(t, {}) \subseteq Computed \cup {t}
    BY MarkedAreComputed
  <2> QED
    BY <2>1 DEF Mark, TypeOK
<1>10. \A u \in Traces : method'[u] # None <=> u \in Computed'
  BY <1>2, <1>8, <1>9 DEF TypeOK
<1>11. \A u \in Traces : dirty'[u] \/ impl'[u] # None \/ sources'[u] # {} => u \in Computed'
  BY <1>2, <1>7, <1>8, <1>9 DEF TypeOK
<1>12. TypeOK'
  BY <1>2, <1>3, <1>4, <1>5, <1>6, <1>7, <1>10, <1>11 DEF methodVars, TypeOK
<1>13. ReverseArcs'
  BY <1>4, <1>5 DEF methodVars, ReverseArcs
<1>14. NoDangling'
  BY <1>1, <1>2, <1>8, <1>9 DEF methodVars, NoDangling
<1> QED
  BY <1>12, <1>13, <1>14

\* A deletion that times out: t is in no other graph any more.
LEMMA DeletionTimesOutIInv ==
  ASSUME IInv, NEW t \in Traces, DeletionTimesOut(t)
  PROVE  IInv'
<1> USE DEF IInv
<1>0. /\ kind[t] = "computed" /\ transformed[t] = {}
      /\ transformed' = Notified(t, {}) /\ usedBy' = Using(t, None)
      /\ impl' = [impl EXCEPT ![t] = Root(method[t])]
      /\ dirty' = Mark(MarkedBySources(t, {}) \cup {t})
      /\ halfDeleted' = halfDeleted \cup {t}
      /\ UNCHANGED <<kind, sources, method, own, parent, children, params>>
      /\ Compare({t})
  BY DEF DeletionTimesOut, Destructible, methodVars
<1>1. \A u \in Traces : t \notin sources[u] \/ u \in halfDeleted
  BY <1>0 DEF ReverseArcs
<1>2. /\ Computed' = Computed /\ Existing' = Existing /\ Defined' = Defined
      /\ t \in Computed /\ halfDeleted' = halfDeleted \cup {t}
  BY <1>0 DEF Computed, Existing, Defined
<1>3. outdated' \in [Traces -> BOOLEAN] /\ unmarked' \subseteq Computed'
  BY <1>0, CompareType, UnmarkedType DEF TypeOK, Computed
<1>4. /\ transformed' \in [Traces -> SUBSET Traces]
      /\ \A s, u \in Traces :
           u \in transformed'[s] <=> s \in sources'[u] /\ u \notin halfDeleted'
  <2>1. sources' \in [Traces -> SUBSET Traces] /\ sources' = sources
    BY <1>0 DEF TypeOK
  <2> QED
    BY <1>0, <1>2, <2>1, NotifiedArcs
<1>5. /\ usedBy' \in [Methods -> SUBSET Traces]
      /\ \A x \in Methods, u \in Traces :
           u \in usedBy'[x] <=> method'[u] = x /\ u \notin halfDeleted'
  BY <1>0, <1>2, UsingArcs
<1>6. impl' \in [Traces -> Builtins \cup {None}]
  BY <1>0, RootNow DEF TypeOK
<1>7. dirty' \in [Traces -> BOOLEAN] /\ \A u \in Traces : dirty'[u] => dirty[u] \/ u \in Computed
  <2>1. MarkedBySources(t, {}) \subseteq Computed \cup {t}
    BY MarkedAreComputed
  <2> QED
    BY <1>0, <1>2, <2>1 DEF Mark, TypeOK
<1>8. \A u \in Traces : dirty'[u] \/ impl'[u] # None \/ sources'[u] # {} => u \in Computed'
  BY <1>0, <1>2, <1>7 DEF TypeOK
<1>9. TypeOK'
  <2>1. halfDeleted' \subseteq Computed'
    BY <1>2 DEF TypeOK
  <2>2. \A u \in Traces : method'[u] # None <=> u \in Computed'
    BY <1>0, <1>2 DEF TypeOK
  <2>3. /\ kind' \in [Traces -> {"none", "stored", "computed"}]
        /\ sources' \in [Traces -> SUBSET Traces]
        /\ method' \in [Traces -> Methods \cup Builtins \cup {None}]
        /\ own' \in [Traces -> Settings \cup {None}]
    BY <1>0 DEF TypeOK
  <2>4. /\ parent' \in [Methods -> Methods \cup Builtins \cup {None}]
        /\ children' \in [Methods -> SUBSET Methods]
        /\ params' \in [Methods -> Settings \cup {None}]
    BY <1>0 DEF TypeOK
  <2>5. {dirty', outdated'} \subseteq [Traces -> BOOLEAN]
    BY <1>3, <1>7
  <2> QED
    BY <1>3, <1>4, <1>5, <1>6, <1>8, <2>1, <2>2, <2>3, <2>4, <2>5 DEF TypeOK
<1>10. ReverseArcs'
  BY <1>0, <1>4, <1>5 DEF ReverseArcs
<1>11. NoDangling'
  BY <1>0, <1>1, <1>2 DEF NoDangling
<1> QED
  BY <1>9, <1>10, <1>11

\* A computation that times out: a computed trace loses its mark.
LEMMA RefreshTimesOutIInv ==
  ASSUME IInv, NEW t \in Traces, RefreshTimesOut(t)
  PROVE  IInv'
<1> USE DEF IInv, RefreshTimesOut
<1>1. Existing' = Existing /\ Computed' = Computed /\ Defined' = Defined /\ t \in Computed
  BY DEF arcs, Existing, Computed, Defined, TypeOK
<1>2. dirty' \in [Traces -> BOOLEAN] /\ \A u \in Traces : dirty'[u] => dirty[u]
  BY DEF TypeOK
<1>3. TypeOK'
  BY <1>1, <1>2 DEF arcs, TypeOK
<1>4. ReverseArcs' /\ NoDangling'
  BY <1>1 DEF arcs, ReverseArcs, NoDangling
<1> QED
  BY <1>3, <1>4

\* Computing a description: no arc changes.
LEMMA RefreshIInv ==
  ASSUME IInv, NEW t \in Traces, Refresh(t)
  PROVE  IInv'
<1> USE DEF IInv, Refresh
<1>1. Existing' = Existing /\ Computed' = Computed /\ Defined' = Defined
  BY DEF arcs, Existing, Computed, Defined
<1>2. sources' \in [Traces -> SUBSET Traces]
  BY DEF arcs, TypeOK
<1>3. \A s, u \in Traces : u \in transformed'[s] => u \in Computed'
  BY <1>1, ReverseAreComputed DEF arcs
<1>4. /\ impl \in [Traces -> Builtins \cup {None}] /\ outdated \in [Traces -> BOOLEAN]
      /\ unmarked \subseteq Traces
      /\ \A u \in Traces : impl[u] # None => u \in Computed'
  BY <1>1 DEF TypeOK, Computed
<1>5. Marked \in SUBSET Computed' /\ {} \in SUBSET Computed'
  BY <1>1 DEF Marked, TypeOK
<1>6. /\ dirty' \in [Traces -> BOOLEAN]
      /\ impl' \in [Traces -> Builtins \cup {None}]
      /\ outdated' \in [Traces -> BOOLEAN] /\ unmarked' \subseteq Computed'
      /\ \A u \in Traces : dirty'[u] \/ impl'[u] # None => u \in Computed'
  BY <1>2, <1>3, <1>4, <1>5, ReadType
<1>7. TypeOK'
  BY <1>1, <1>6 DEF arcs, TypeOK
<1>8. ReverseArcs' /\ NoDangling'
  BY <1>1 DEF arcs, ReverseArcs, NoDangling
<1> QED
  BY <1>7, <1>8

\* Forgetting a method object.
LEMMA ForgetIInv ==
  ASSUME IInv, NEW t \in Traces, Forget(t)
  PROVE  IInv'
<1> USE DEF IInv, Forget
<1>1. Existing' = Existing /\ Computed' = Computed /\ Defined' = Defined
  BY DEF arcs, Existing, Computed, Defined
<1>2. outdated' \in [Traces -> BOOLEAN] /\ unmarked' \subseteq Computed'
  BY CompareType, UnmarkedType DEF TypeOK, Computed
<1>3. /\ impl' \in [Traces -> Builtins \cup {None}]
      /\ \A u \in Traces : impl'[u] # None => impl[u] # None
  BY DEF TypeOK
<1>4. TypeOK'
  BY <1>1, <1>2, <1>3 DEF arcs, TypeOK
<1>5. ReverseArcs' /\ NoDangling'
  BY <1>1 DEF arcs, ReverseArcs, NoDangling
<1> QED
  BY <1>4, <1>5

\* The new reverse arc of the parent, when the parent of m becomes p.
LEMMA AdoptedArcs ==
  ASSUME IInv, NEW m \in Methods, NEW p \in Builtins \cup Methods \cup {None},
         parent' = [parent EXCEPT ![m] = p],
         children' = Adopted(m, p)
  PROVE  /\ parent' \in [Methods -> Methods \cup Builtins \cup {None}]
         /\ children' \in [Methods -> SUBSET Methods]
         /\ \A x, y \in Methods : y \in children'[x] <=> parent'[y] = x
<1>1. parent' \in [Methods -> Methods \cup Builtins \cup {None}]
  BY DEF IInv, TypeOK
<1>2. children' \in [Methods -> SUBSET Methods]
  BY DEF IInv, TypeOK, Adopted
<1>3. ASSUME NEW x \in Methods, NEW y \in Methods
      PROVE  y \in children'[x] <=> parent'[y] = x
  <2>1. parent'[y] = IF y = m THEN p ELSE parent[y]
    BY DEF IInv, TypeOK
  <2>2. children'[x] = IF x = p THEN children[x] \cup {m} ELSE children[x] \ {m}
    BY DEF Adopted
  <2>3. y \in children[x] <=> parent[y] = x
    BY DEF IInv, ReverseArcs
  <2> QED
    BY <2>1, <2>2, <2>3
<1> QED
  BY <1>1, <1>2, <1>3

\* Creating a method, under a parent that exists.
LEMMA CreateMethodIInv ==
  ASSUME IInv, NEW m \in Methods, NEW p \in Methods \cup Builtins, NEW v \in Settings,
         CreateMethod(m, p, v)
  PROVE  IInv'
<1> USE DEF IInv, CreateMethod
<1>1. Existing' = Existing /\ Computed' = Computed /\ Defined' = Defined \cup {m}
  BY DEF TypeOK, Existing, Computed, Defined
<1>2. outdated' \in [Traces -> BOOLEAN] /\ unmarked' \subseteq Computed'
  BY CompareType, UnmarkedType DEF TypeOK, Computed
<1>3. /\ parent' \in [Methods -> Methods \cup Builtins \cup {None}]
      /\ children' \in [Methods -> SUBSET Methods]
      /\ \A x, y \in Methods : y \in children'[x] <=> parent'[y] = x
  BY AdoptedArcs
<1>4. params' \in [Methods -> Settings \cup {None}]
  BY DEF TypeOK
<1>5. TypeOK'
  BY <1>1, <1>2, <1>3, <1>4 DEF TypeOK
<1>6. ReverseArcs'
  BY <1>3 DEF ReverseArcs
<1>7. parent'[m] = p /\ \A x \in Methods : x # m => parent'[x] = parent[x]
  BY DEF TypeOK
<1>8. NoDangling'
  BY <1>1, <1>7 DEF NoDangling
<1> QED
  BY <1>5, <1>6, <1>8

\* Editing a method marks traces that use it, or an heir of it: computed ones.
LEMMA EditMethodIInv ==
  ASSUME IInv, NEW m \in Methods, NEW p \in Methods \cup Builtins, NEW v \in Settings,
         EditMethod(m, p, v)
  PROVE  IInv'
<1> USE DEF IInv, EditMethod
<1>1. Existing' = Existing /\ Computed' = Computed /\ Defined' = Defined
  BY DEF TypeOK, Existing, Computed, Defined
<1>2. outdated' \in [Traces -> BOOLEAN] /\ unmarked' \subseteq Computed'
  BY CompareType, UnmarkedType DEF TypeOK, Computed
<1>3. /\ parent' \in [Methods -> Methods \cup Builtins \cup {None}]
      /\ children' \in [Methods -> SUBSET Methods]
      /\ \A x, y \in Methods : y \in children'[x] <=> parent'[y] = x
  BY AdoptedArcs
<1>4. params' \in [Methods -> Settings \cup {None}]
  BY DEF TypeOK
<1>5. /\ dirty' \in [Traces -> BOOLEAN]
      /\ \A u \in Traces : dirty'[u] => dirty[u] \/ u \in Computed
  BY ReverseAreComputed DEF Mark, TypeOK
<1>6. TypeOK'
  BY <1>1, <1>2, <1>3, <1>4, <1>5 DEF TypeOK
<1>7. ReverseArcs'
  BY <1>3 DEF ReverseArcs
<1>8. parent'[m] = p /\ \A x \in Methods : x # m => parent'[x] = parent[x]
  BY DEF TypeOK
<1>9. NoDangling'
  BY <1>1, <1>8 DEF NoDangling
<1> QED
  BY <1>6, <1>7, <1>9

\* Deleting a method: its reverse arcs say that nothing names it.
LEMMA DeleteMethodIInv ==
  ASSUME IInv, NEW m \in Methods, DeleteMethod(m)
  PROVE  IInv'
<1> USE DEF IInv, DeleteMethod
<1>1. Existing' = Existing /\ Computed' = Computed /\ Defined' = Defined \ {m}
  BY DEF TypeOK, Existing, Computed, Defined
<1>2. outdated' \in [Traces -> BOOLEAN] /\ unmarked' \subseteq Computed'
  BY CompareType, UnmarkedType DEF TypeOK, Computed
<1>3. /\ parent' \in [Methods -> Methods \cup Builtins \cup {None}]
      /\ children' \in [Methods -> SUBSET Methods]
      /\ \A x, y \in Methods : y \in children'[x] <=> parent'[y] = x
  BY AdoptedArcs
<1>4. params' \in [Methods -> Settings \cup {None}]
  BY DEF TypeOK
<1>5. TypeOK'
  BY <1>1, <1>2, <1>3, <1>4 DEF TypeOK
<1>6. ReverseArcs'
  BY <1>3 DEF ReverseArcs
<1>7. \A u \in Traces \ halfDeleted : method[u] # m
  BY DEF Deletable, ReverseArcs
<1>8. \A x \in Methods : /\ parent[x] # m
                         /\ x # m => parent'[x] = parent[x]
  BY DEF Deletable, ReverseArcs, TypeOK
<1>9. NoDangling'
  <2>1. \A u \in Traces \ halfDeleted' : sources'[u] \subseteq Existing' \ halfDeleted'
    BY <1>1 DEF NoDangling
  <2>2. \A u \in Computed' \ halfDeleted' : method'[u] \in Builtins \cup Defined'
    BY <1>1, <1>7 DEF NoDangling, Computed
  <2>3. \A x \in Defined' : parent'[x] \in Builtins \cup Defined'
    BY <1>1, <1>8 DEF NoDangling, Defined
  <2> QED
    BY <2>1, <2>2, <2>3 DEF NoDangling
<1> QED
  BY <1>5, <1>6, <1>9

----------------------------------------------------------------------------
(* The operators that follow arcs, as functions of the arcs: a step compares *)
(* their values before and after it.                                         *)

DefinedIn(par) == {m \in Methods : par[m] # None}

LineageIn(par, m) ==
  LET Parent(x) == {par[x]} \ (Builtins \cup {None})
  IN  Closure({m} \cap DefinedIn(par), Parent, Methods) \cap DefinedIn(par)

\* The built-in methods at the end of a lineage.
FoundIn(par, m) == {par[x] : x \in LineageIn(par, m)} \cap Builtins

RootIn(par, m) ==
  IF m \in Builtins THEN m
  ELSE IF FoundIn(par, m) = {} THEN None ELSE CHOOSE b \in FoundIn(par, m) : TRUE

\* The operators of TraceGraph are these, before a step and after it.
LEMMA LineageIs ==
  ASSUME NEW x
  PROVE  /\ Lineage(x) = LineageIn(parent, x)
         /\ Lineage(method[x]) = LineageIn(parent, method[x])
         /\ Lineage(method[x])' = LineageIn(parent', method'[x])
<1> QED
  BY DEF Lineage, LineageIn, Defined, DefinedIn, Closure

LEMMA RootIs ==
  ASSUME NEW x
  PROVE  /\ Root(x) = RootIn(parent, x)
         /\ Root(method[x]) = RootIn(parent, method[x])
         /\ Root(method[x])' = RootIn(parent', method'[x])
<1> QED
  BY LineageIs DEF Root, RootIn, FoundIn

\* The lineage of y is the smallest set with y and the parents of its members
\* that are methods of the base: here those all exist.
Parents(par) == \A z \in DefinedIn(par) : par[z] \in Builtins \cup DefinedIn(par)

LEMMA LineageClosure ==
  ASSUME NEW par \in [Methods -> Methods \cup Builtins \cup {None}], Parents(par),
         NEW y
  PROVE  /\ LineageIn(par, y) \subseteq DefinedIn(par)
         /\ y \in DefinedIn(par) => y \in LineageIn(par, y)
         /\ \A z \in LineageIn(par, y) : par[z] \in Builtins \cup LineageIn(par, y)
         /\ \A C \in SUBSET Methods :
              /\ y \in DefinedIn(par) => y \in C
              /\ \A z \in C : par[z] \in Builtins \cup {None} \cup C
              => LineageIn(par, y) \subseteq C
<1> DEFINE S == {y} \cap DefinedIn(par)
           up(z) == {par[z]} \ (Builtins \cup {None})
           L == Closure(S, up, Methods)
<1>1. LineageIn(par, y) = L \cap DefinedIn(par)
  BY DEF LineageIn
<1>2. DefinedIn(par) \in SUBSET Methods /\ S \subseteq DefinedIn(par)
  BY DEF DefinedIn
<1>3. \A z \in DefinedIn(par) : up(z) \subseteq DefinedIn(par)
  BY DEF Parents
<1>4. /\ S \subseteq L
      /\ \A z \in L : up(z) \subseteq L
      /\ \A C \in SUBSET Methods : S \subseteq C /\ (\A z \in C : up(z) \subseteq C) => L \subseteq C
  <2>1. CASE \A z \in S : up(z) \subseteq S
    <3>1. L = S
      BY <2>1 DEF Closure
    <3> QED
      BY <2>1, <3>1
  <2>2. CASE ~\A z \in S : up(z) \subseteq S
    <3> DEFINE closed == {C \in SUBSET Methods : S \subseteq C /\ \A z \in C : up(z) \subseteq C}
    <3>1. L = {x \in Methods : \A C \in closed : x \in C}
      BY <2>2 DEF Closure
    <3> HIDE DEF L, S
    <3>2. L \subseteq Methods
      BY <3>1
    <3>3. \A z \in L : up(z) \subseteq Methods
      BY <3>2
    <3> QED
      BY <3>1, <3>3, <1>2
  <2> QED
    BY <2>1, <2>2
<1> HIDE DEF L
<1>5. L \subseteq DefinedIn(par)
  BY <1>2, <1>3, <1>4
<1>6. \A z \in L : par[z] \in Builtins \cup L
  BY <1>4, <1>5 DEF DefinedIn
<1>7. ASSUME NEW C \in SUBSET Methods, y \in DefinedIn(par) => y \in C,
             \A z \in C : par[z] \in Builtins \cup {None} \cup C
      PROVE  L \subseteq C
  <2>1. S \subseteq C /\ \A z \in C : up(z) \subseteq C
    BY <1>7
  <2> QED
    BY <2>1, <1>4
<1> QED
  BY <1>1, <1>2, <1>4, <1>5, <1>6, <1>7

\* Another parent for m changes no lineage in which m is not.
LEMMA LineageSame ==
  ASSUME NEW par \in [Methods -> Methods \cup Builtins \cup {None}], Parents(par),
         NEW par2 \in [Methods -> Methods \cup Builtins \cup {None}], Parents(par2),
         NEW m \in Methods, \A z \in Methods : z # m => par2[z] = par[z],
         NEW y, y # m, m \notin LineageIn(par, y)
  PROVE  /\ LineageIn(par2, y) = LineageIn(par, y)
         /\ RootIn(par2, y) = RootIn(par, y)
<1> DEFINE L == LineageIn(par, y)
           L2 == LineageIn(par2, y)
<1>1. y \in DefinedIn(par) <=> y \in DefinedIn(par2)
  BY DEF DefinedIn
<1>2. L \subseteq Methods /\ L2 \subseteq Methods
  BY LineageClosure DEF DefinedIn
<1>3. L2 \subseteq L
  <2>1. y \in DefinedIn(par2) => y \in L
    BY <1>1, LineageClosure
  <2>2. \A z \in L : par2[z] \in Builtins \cup {None} \cup L
    BY <1>2, LineageClosure
  <2> HIDE DEF L
  <2> QED
    BY <1>2, <2>1, <2>2, LineageClosure
<1>4. L \subseteq L2
  <2>1. y \in DefinedIn(par) => y \in L2
    BY <1>1, LineageClosure
  <2>2. \A z \in L2 : z # m
    BY <1>3
  <2>3. \A z \in L2 : par[z] \in Builtins \cup {None} \cup L2
    BY <1>2, <2>2, LineageClosure
  <2> HIDE DEF L2
  <2> QED
    BY <1>2, <2>1, <2>3, LineageClosure
<1>5. L2 = L
  BY <1>3, <1>4
<1>6. FoundIn(par2, y) = FoundIn(par, y)
  <2>1. \A z \in L : par2[z] = par[z]
    BY <1>2
  <2> QED
    BY <1>5, <2>1 DEF FoundIn
<1> QED
  BY <1>5, <1>6 DEF RootIn

\* All methods of a lineage lead to the same built-in method.
LEMMA SameRoot ==
  ASSUME NEW par \in [Methods -> Methods \cup Builtins \cup {None}], Parents(par),
         NEW y, NEW m \in LineageIn(par, y)
  PROVE  RootIn(par, y) = RootIn(par, m)
<1> DEFINE L(x) == LineageIn(par, x)
<1>1. \A x : L(x) \subseteq DefinedIn(par) /\ L(x) \subseteq Methods
  BY LineageClosure DEF DefinedIn
<1>2. m \in Methods /\ m \in L(m)
  BY <1>1, LineageClosure
<1>3. y \in DefinedIn(par)
  <2>1. CASE y \notin DefinedIn(par)
    <3>1. L(y) \subseteq {}
      BY <2>1, LineageClosure
    <3> QED
      BY <3>1
  <2> QED
    BY <2>1
<1>4. L(m) \subseteq L(y)
  <2>1. \A z \in L(y) : par[z] \in Builtins \cup {None} \cup L(y)
    BY LineageClosure
  <2> QED
    BY <1>1, <2>1, LineageClosure
<1> DEFINE C == {x \in L(y) : m \in L(x)} \cup L(m)
<1>5. L(y) \subseteq C
  <2>1. C \in SUBSET Methods
    BY <1>1
  <2>2. y \in C
    BY <1>3, LineageClosure
  <2>3. ASSUME NEW z \in C PROVE par[z] \in Builtins \cup {None} \cup C
    <3>1. CASE z \in L(m)
      BY <3>1, LineageClosure
    <3>2. CASE z \notin L(m)
      <4>1. z \in L(y) /\ m \in L(z) /\ z # m /\ z \in Methods
        BY <1>1, <1>2, <3>2
      <4>2. par[z] \in Builtins \cup L(y)
        BY <4>1, LineageClosure
      <4>3. CASE par[z] \in Builtins
        BY <4>3
      <4>4. CASE par[z] \notin Builtins
        <5> DEFINE E == {z} \cup L(par[z])
        <5>1. par[z] \in DefinedIn(par)
          BY <1>1, <4>2, <4>4
        <5>2. E \in SUBSET Methods
          BY <1>1, <4>1
        <5>3. \A x \in E : par[x] \in Builtins \cup {None} \cup E
          BY <5>1, LineageClosure
        <5>4. L(z) \subseteq E
          <6> HIDE DEF E, L
          <6>1. z \in E
            BY DEF E
          <6> QED
            BY <5>2, <5>3, <6>1, LineageClosure DEF L
        <5>5. m \in L(par[z])
          BY <4>1, <5>4
        <5> QED
          BY <4>2, <4>4, <5>5
      <4> QED
        BY <4>3, <4>4
    <3> QED
      BY <3>1, <3>2
  <2> HIDE DEF C, L
  <2> QED
    BY <2>1, <2>2, <2>3, LineageClosure DEF L
<1>6. FoundIn(par, y) = FoundIn(par, m)
  <2>1. FoundIn(par, m) \subseteq FoundIn(par, y)
    BY <1>4 DEF FoundIn
  <2>2. ASSUME NEW b \in FoundIn(par, y) PROVE b \in FoundIn(par, m)
    <3> PICK w \in L(y) : par[w] = b
      BY DEF FoundIn
    <3>1. w \in L(m) \/ m \in L(w)
      BY <1>5
    <3>2. b \in Builtins /\ w \in Methods
      BY <1>1 DEF FoundIn
    <3>3. CASE m \in L(w)
      <4>1. \A x \in {w} : par[x] \in Builtins \cup {None} \cup {w}
        BY <3>2
      <4>2. L(w) \subseteq {w}
        <5> HIDE DEF L
        <5> QED
          BY <3>2, <4>1, LineageClosure DEF L
      <4>3. w = m
        BY <3>3, <4>2
      <4> QED
        BY <1>2, <3>2, <4>3 DEF FoundIn
    <3>4. CASE w \in L(m)
      BY <3>2, <3>4 DEF FoundIn
    <3> QED
      BY <3>1, <3>3, <3>4
  <2> QED
    BY <2>1, <2>2
<1>7. y \notin Builtins /\ m \notin Builtins
  BY <1>1, <1>2, <1>3 DEF DefinedIn
<1> QED
  BY <1>6, <1>7 DEF RootIn

\* The parent of a method is in its lineage, or is a built-in method: its root.
LEMMA ParentRoot ==
  ASSUME NEW par \in [Methods -> Methods \cup Builtins \cup {None}], Parents(par),
         NEW m \in DefinedIn(par)
  PROVE  RootIn(par, m) = RootIn(par, par[m])
<1>1. m \in Methods /\ m \notin Builtins /\ m \in LineageIn(par, m)
  BY LineageClosure DEF DefinedIn
<1>2. CASE par[m] \in Builtins
  <2>1. LineageIn(par, m) \subseteq {m}
    BY <1>1, <1>2, LineageClosure
  <2>2. LineageIn(par, m) = {m}
    BY <1>1, <2>1
  <2>3. FoundIn(par, m) = {par[m]}
    BY <1>2, <2>2 DEF FoundIn
  <2> QED
    BY <1>1, <1>2, <2>3 DEF RootIn
<1>3. CASE par[m] \notin Builtins
  <2>1. par[m] \in LineageIn(par, m)
    BY <1>1, <1>3, LineageClosure
  <2> QED
    BY <2>1, SameRoot
<1> QED
  BY <1>2, <1>3

\* A method that has m in its lineage is an heir of it.
LEMMA HeirsAre ==
  ASSUME IInv, NEW m \in Methods, NEW y, m \in Lineage(y)
  PROVE  y \in Heirs(m)
<1> DEFINE H == Heirs(m)
<1>1. m \in H /\ \A x \in H : children[x] \subseteq H
  <2>1. CASE \A x \in {m} : children[x] \subseteq {m}
    BY <2>1 DEF Heirs, Closure
  <2>2. CASE ~\A x \in {m} : children[x] \subseteq {m}
    <3> DEFINE closed == {C \in SUBSET Methods : {m} \subseteq C /\ \A x \in C : children[x] \subseteq C}
    <3>1. H = {x \in Methods : \A C \in closed : x \in C}
      BY <2>2 DEF Heirs, Closure
    <3>2. \A x \in H : children[x] \subseteq Methods
      BY <3>1 DEF IInv, TypeOK
    <3> HIDE DEF H
    <3> QED
      BY <3>1, <3>2
  <2> QED
    BY <2>1, <2>2
<1> HIDE DEF H
<1>2. ASSUME y \notin H PROVE FALSE
  <2>1. Parents(parent) /\ parent \in [Methods -> Methods \cup Builtins \cup {None}]
    BY DEF IInv, TypeOK, NoDangling, Parents, Defined, DefinedIn
  <2> DEFINE C == Methods \ H
  <2>2. \A z \in C : parent[z] \in Builtins \cup {None} \cup C
    <3> SUFFICES ASSUME NEW z \in C, parent[z] \in H, parent[z] \in Methods PROVE FALSE
      BY DEF IInv, TypeOK
    <3>1. z \in children[parent[z]]
      BY DEF IInv, ReverseArcs
    <3> QED
      BY <1>1, <3>1
  <2>3. y \in DefinedIn(parent) => y \in C
    BY <1>2 DEF DefinedIn
  <2>4. C \in SUBSET Methods
    OBVIOUS
  <2> HIDE DEF C
  <2>5. LineageIn(parent, y) \subseteq C
    BY <2>1, <2>2, <2>3, <2>4, LineageClosure
  <2> QED
    BY <1>1, <2>5, LineageIs DEF C
<1> QED
  BY <1>2 DEF H

----------------------------------------------------------------------------
(* Descriptions: DInv is preserved, one lemma per action *)

\* The method object of a trace, if it has one, is what its method leads to.
ImplAgrees == \A t \in Traces \ halfDeleted : impl[t] # None => impl[t] = Root(method[t])

\* The traces the property is about: told of everything, and marked when they should be.
Sound == Computed \ (halfDeleted \cup unmarked)

\* A description that is outdated is marked.
Due == \A t \in Sound : outdated[t] => dirty[t]

DInv == ImplAgrees /\ Due

\* The methods of the base and their parents, as the lemmas above want them.
LEMMA MethodGraph ==
  ASSUME IInv, IInv'
  PROVE  /\ parent \in [Methods -> Methods \cup Builtins \cup {None}]
         /\ parent' \in [Methods -> Methods \cup Builtins \cup {None}]
         /\ Parents(parent) /\ Parents(parent')
<1> QED
  BY DEF IInv, TypeOK, NoDangling, Parents, Defined, DefinedIn

\* A description is made of the same things as before when its method has the
\* same lineage, with the same parameters, and its sources are the same.
LEMMA SameInputs ==
  ASSUME NEW x \in Traces, method'[x] = method[x],
         Lineage(method[x])' = Lineage(method[x]),
         \A z \in Lineage(method[x]) : parent'[z] = parent[z] /\ params'[z] = params[z],
         own'[x] = own[x], sources'[x] = sources[x],
         \A s \in sources[x] : own'[s] = own[s]
  PROVE  Inputs(x)' = Inputs(x)
<1> DEFINE lin == {<<z, parent[z], params[z]>> : z \in Lineage(method[x])}
           from == {<<s, own[s]>> : s \in sources[x]}
<1>1. {<<z, parent'[z], params'[z]>> : z \in Lineage(method[x])'} = lin
  OBVIOUS
<1>2. {<<s, own'[s]>> : s \in sources'[x]} = from
  OBVIOUS
<1>3. Inputs(x)' = [method |-> method'[x],
                    lineage |-> {<<z, parent'[z], params'[z]>> : z \in Lineage(method[x])'},
                    own |-> own'[x],
                    from |-> {<<s, own'[s]>> : s \in sources'[x]}]
  BY DEF Inputs
<1>4. Inputs(x) = [method |-> method[x], lineage |-> lin, own |-> own[x], from |-> from]
  BY DEF Inputs
<1> HIDE DEF lin, from
<1> QED
  BY <1>1, <1>2, <1>3, <1>4

\* The same, when methods stay.
LEMMA SameMethods ==
  ASSUME NEW x, UNCHANGED parent, method'[x] = method[x]
  PROVE  /\ Lineage(method[x])' = Lineage(method[x])
         /\ Root(method[x])' = Root(method[x])
<1>1. parent' = parent
  OBVIOUS
<1> QED
  BY <1>1, LineageIs, RootIs

\* Comparing, for the traces that are not computed.
LEMMA Compared ==
  ASSUME NEW S, Compare(S), NEW x \in Traces, x \notin S, outdated'[x]
  PROVE  /\ kind'[x] = "computed"
         /\ outdated[x] \/ Inputs(x)' # Inputs(x) \/ sources'[x] \cap S # {}
<1> DEFINE changed == IF x \in S
                      THEN impl'[x] # Root(method[x])'
                      ELSE outdated[x] \/ Inputs(x)' # Inputs(x) \/ sources'[x] \cap S # {}
<1>1. outdated'[x] = (kind'[x] = "computed" /\ changed)
  BY DEF Compare
<1>2. kind'[x] = "computed" /\ changed
  BY <1>1
<1> QED
  BY <1>2

\* What is sound after a comparison, and not computed by it, was sound before.
LEMMA SoundBefore ==
  ASSUME NEW S, Compare(S), NEW x \in Sound', x \notin S, x \in Computed,
         x \notin halfDeleted' => x \notin halfDeleted
  PROVE  x \in Traces /\ x \in Sound /\ x \notin halfDeleted
<1>1. x \in Traces /\ kind'[x] = "computed" /\ x \notin unmarked' /\ x \notin halfDeleted'
  BY DEF Sound, Computed
<1>2. x \notin unmarked
  BY <1>1 DEF Compare
<1> QED
  BY <1>1, <1>2 DEF Sound

\* Reading a state leaves DInv, if what is outdated by then is marked: what is
\* computed is not outdated, and marks what is made from it.
LEMMA ReadCovers ==
  ASSUME NEW t \in Traces, NEW D, NEW i, NEW late,
         Read(t, D, i, late), IInv',
         \A x \in Traces \ halfDeleted' : i[x] # None => i[x] = Root(method[x])',
         \A x \in Sound' : x \in unmarked \/ (outdated[x] \/ Inputs(x)' # Inputs(x) => x \in D \cup late)
  PROVE  DInv'
<1> DEFINE R == Refreshed(t, D)
           mark(x) == x \in late \/ (x \notin R /\ (x \in D \/ \E y \in R : x \in transformed'[y]))
<1>1. /\ dirty' = [x \in Traces |-> mark(x)]
      /\ impl' = [x \in Traces |-> IF x \in R /\ i[x] = None THEN Root(method[x])' ELSE i[x]]
      /\ Compare(R)
  BY DEF Read
<1>2. sources' \in [Traces -> SUBSET Traces]
  BY DEF IInv, TypeOK
<1>3. R \subseteq Traces
  BY <1>2, AboveType DEF Refreshed
<1> HIDE DEF R
<1>4. ImplAgrees'
  <2> SUFFICES ASSUME NEW x \in Traces \ halfDeleted', impl'[x] # None
               PROVE  impl'[x] = Root(method[x])'
    BY DEF ImplAgrees
  <2> QED
    BY <1>1
<1>5. ASSUME NEW x \in Sound', outdated'[x] PROVE dirty'[x]
  <2>1. x \in Traces /\ x \notin halfDeleted' /\ x \notin unmarked'
    BY DEF Sound, Computed
  <2>2. x \notin R
    <3> SUFFICES ASSUME x \in R PROVE FALSE
      OBVIOUS
    <3>1. impl'[x] = Root(method[x])'
      BY <1>1, <1>4, <2>1 DEF ImplAgrees
    <3> DEFINE other == outdated[x] \/ Inputs(x)' # Inputs(x) \/ sources'[x] \cap R # {}
    <3>2. outdated'[x] = (/\ kind'[x] = "computed"
                          /\ IF x \in R THEN impl'[x] # Root(method[x])' ELSE other)
      BY <1>1, <2>1 DEF Compare
    <3> HIDE DEF other
    <3> QED
      BY <1>5, <3>1, <3>2
  <2>3. /\ kind'[x] = "computed"
        /\ outdated[x] \/ Inputs(x)' # Inputs(x) \/ sources'[x] \cap R # {}
    BY <1>1, <1>5, <2>1, <2>2, Compared
  <2>4. x \notin unmarked
    BY <1>1, <2>1, <2>2, <2>3 DEF Compare
  <2>5. CASE sources'[x] \cap R # {}
    <3> PICK y \in R : y \in sources'[x]
      BY <2>5
    <3>1. x \in transformed'[y]
      BY <1>3, <2>1 DEF IInv, ReverseArcs
    <3> QED
      BY <1>1, <2>1, <2>2, <3>1
  <2>6. CASE x \in D \cup late
    BY <1>1, <2>1, <2>2, <2>6
  <2> QED
    BY <2>3, <2>4, <2>5, <2>6
<1> QED
  BY <1>4, <1>5 DEF DInv, Due

\* Nothing exists yet.
LEMMA InitDInv == Init => DInv
<1> SUFFICES ASSUME Init PROVE DInv
  OBVIOUS
<1>1. Computed = {} /\ \A t \in Traces : impl[t] = None
  BY DEF Init, Computed
<1> QED
  BY <1>1 DEF DInv, ImplAgrees, Due, Sound

LEMMA StutterDInv == ASSUME DInv, UNCHANGED vars PROVE DInv'
<1>1. /\ parent' = parent /\ method' = method /\ impl' = impl /\ sources' = sources
      /\ dirty' = dirty /\ outdated' = outdated /\ kind' = kind
      /\ halfDeleted' = halfDeleted /\ unmarked' = unmarked
  BY DEF vars
<1>2. ImplAgrees'
  BY <1>1, SameMethods DEF DInv, ImplAgrees
<1>3. Sound' = Sound
  BY <1>1 DEF Sound, Computed
<1> QED
  BY <1>1, <1>2, <1>3 DEF DInv, Due

\* A new stored trace is not a source yet.
LEMMA CreateStoredDInv ==
  ASSUME IInv, DInv, NEW t \in Traces, NEW v \in Settings, CreateStored(t, v)
  PROVE  DInv'
<1>1. /\ parent' = parent /\ method' = method /\ impl' = impl /\ sources' = sources
      /\ dirty' = dirty /\ params' = params /\ halfDeleted' = halfDeleted
      /\ kind' = [kind EXCEPT ![t] = "stored"] /\ own' = [own EXCEPT ![t] = v]
      /\ kind[t] = "none" /\ Compare({})
  BY DEF CreateStored, arcs
<1>2. ImplAgrees'
  BY <1>1, SameMethods DEF DInv, ImplAgrees
<1>3. ASSUME NEW x \in Sound', outdated'[x] PROVE dirty'[x]
  <2>1. x \in Traces /\ x \in Computed /\ x # t
    BY <1>1 DEF Sound, Computed, IInv, TypeOK
  <2>2. x \in Sound /\ x \notin halfDeleted
    BY <1>1, <2>1, SoundBefore
  <2>3. t \notin sources[x] /\ sources[x] \subseteq Traces
    BY <1>1, <2>1, <2>2 DEF IInv, TypeOK, NoDangling, Existing
  <2>4. own'[x] = own[x] /\ \A s \in sources[x] : own'[s] = own[s]
    BY <1>1, <2>1, <2>3 DEF IInv, TypeOK
  <2>5. Inputs(x)' = Inputs(x)
    BY <1>1, <2>1, <2>4, SameMethods, SameInputs
  <2>6. outdated[x]
    BY <1>1, <1>3, <2>1, <2>5, Compared
  <2> QED
    BY <1>1, <2>2, <2>6 DEF DInv, Due
<1> QED
  BY <1>2, <1>3 DEF DInv, Due

\* What is made from a stored trace is marked.
LEMMA EditStoredDInv ==
  ASSUME IInv, DInv, NEW t \in Traces, NEW v \in Settings, EditStored(t, v)
  PROVE  DInv'
<1>1. /\ parent' = parent /\ method' = method /\ impl' = impl /\ sources' = sources
      /\ kind' = kind /\ params' = params /\ own' = [own EXCEPT ![t] = v]
      /\ dirty' = Mark(transformed[t]) /\ kind[t] = "stored" /\ Compare({})
      /\ halfDeleted' = halfDeleted
  BY DEF EditStored, arcs
<1>2. ImplAgrees'
  BY <1>1, SameMethods DEF DInv, ImplAgrees
<1>3. ASSUME NEW x \in Sound', outdated'[x] PROVE dirty'[x]
  <2>1. x \in Traces /\ x \in Computed /\ x # t
    BY <1>1 DEF Sound, Computed
  <2>2. x \in Sound /\ x \notin halfDeleted
    BY <1>1, <2>1, SoundBefore
  <2>3. dirty'[x] = (dirty[x] \/ x \in transformed[t])
    BY <1>1, <2>1 DEF Mark
  <2>4. CASE t \in sources[x]
    <3>1. x \in transformed[t]
      BY <2>1, <2>2, <2>4 DEF IInv, ReverseArcs
    <3> QED
      BY <2>3, <3>1
  <2>5. CASE t \notin sources[x]
    <3>1. own'[x] = own[x] /\ \A s \in sources[x] : own'[s] = own[s]
      BY <1>1, <2>1, <2>5 DEF IInv, TypeOK
    <3>2. Inputs(x)' = Inputs(x)
      BY <1>1, <2>1, <3>1, SameMethods, SameInputs
    <3>3. outdated[x]
      BY <1>1, <1>3, <2>1, <3>2, Compared
    <3> QED
      BY <2>2, <2>3, <3>3 DEF DInv, Due
  <2> QED
    BY <2>4, <2>5
<1> QED
  BY <1>2, <1>3 DEF DInv, Due

LEMMA CreateComputedDInv ==
  ASSUME IInv, IInv', DInv, NEW t \in Traces, CreateComputed(t)
  PROVE  DInv'
<1> PICK S \in SUBSET Existing, m \in Usable, v \in Settings :
      /\ sources' = [sources EXCEPT ![t] = S]
      /\ transformed' = Notified(t, S)
      /\ method' = [method EXCEPT ![t] = m]
      /\ usedBy' = Using(t, m)
      /\ own' = [own EXCEPT ![t] = v]
      /\ UNCHANGED methodVars
      /\ Read(t, Marked \cup MarkedBySources(t, S) \cup {t}, impl, {})
  BY DEF CreateComputed
<1>1. /\ kind[t] = "none" /\ kind' = [kind EXCEPT ![t] = "computed"]
      /\ parent' = parent /\ params' = params /\ halfDeleted' = halfDeleted
  BY DEF CreateComputed, methodVars
<1>2. ASSUME NEW x \in Traces, x # t
      PROVE  sources'[x] = sources[x] /\ method'[x] = method[x] /\ own'[x] = own[x]
  BY <1>2 DEF IInv, TypeOK
<1>3. ASSUME NEW x \in Traces \ halfDeleted', impl[x] # None PROVE impl[x] = Root(method[x])'
  <2>1. x # t
    BY <1>1, <1>3 DEF IInv, TypeOK, Computed
  <2> QED
    BY <1>1, <1>2, <1>3, <2>1, SameMethods DEF DInv, ImplAgrees
<1> DEFINE D == Marked \cup MarkedBySources(t, S) \cup {t}
<1>4. ASSUME NEW x \in Sound', x \notin unmarked, outdated[x] \/ Inputs(x)' # Inputs(x)
      PROVE  x \in D \cup {}
  <2>1. CASE x = t
    BY <2>1
  <2>2. CASE x # t
    <3>1. x \in Traces /\ x \in Sound /\ x \notin halfDeleted
      BY <1>1, <1>4, <2>2 DEF Sound, Computed, IInv, TypeOK
    <3>2. t \notin sources[x] /\ sources[x] \subseteq Traces
      BY <1>1, <3>1 DEF IInv, NoDangling, Existing
    <3>3. \A s \in sources[x] : own'[s] = own[s]
      BY <1>2, <3>2
    <3>4. Inputs(x)' = Inputs(x)
      BY <1>1, <1>2, <2>2, <3>1, <3>3, SameMethods, SameInputs
    <3> QED
      BY <1>4, <3>1, <3>4 DEF DInv, Due, Marked
  <2> QED
    BY <2>1, <2>2
<1>5. Read(t, D, impl, {})
  OBVIOUS
<1> HIDE DEF D
<1> QED
  BY <1>3, <1>4, <1>5, ReadCovers

LEMMA EditComputedDInv ==
  ASSUME IInv, IInv', DInv, NEW t \in Traces, EditComputed(t)
  PROVE  DInv'
<1> PICK S \in SUBSET {s \in (Existing \cup sources[t]) \ {t} : t \notin Above(s)},
         m \in Usable, v \in Settings :
      /\ sources' = [sources EXCEPT ![t] = S]
      /\ transformed' = Notified(t, S)
      /\ method' = [method EXCEPT ![t] = m]
      /\ usedBy' = IF m # method[t] THEN Using(t, m) ELSE usedBy
      /\ own' = [own EXCEPT ![t] = v]
      /\ UNCHANGED <<kind, methodVars>>
      /\ IF S # sources[t] \/ m # method[t]
         THEN Read(t, Marked \cup Outdated(t, S) \cup {t},
                   IF m # method[t] THEN [impl EXCEPT ![t] = None] ELSE impl,
                   IF v # own[t] THEN {t} ELSE {})
         ELSE /\ dirty' = Mark(Outdated(t, S) \cup (IF v # own[t] THEN {t} ELSE {}))
              /\ impl' = IF m # method[t] THEN [impl EXCEPT ![t] = None] ELSE impl
              /\ Compare({})
  BY DEF EditComputed
<1> DEFINE i == IF m # method[t] THEN [impl EXCEPT ![t] = None] ELSE impl
           late == IF v # own[t] THEN {t} ELSE {}
<1>1. /\ Computed' = Computed /\ parent' = parent /\ params' = params
      /\ halfDeleted' = halfDeleted
  BY DEF EditComputed, methodVars, Computed
<1>2. ASSUME NEW x \in Traces, x # t
      PROVE  sources'[x] = sources[x] /\ method'[x] = method[x] /\ own'[x] = own[x]
  BY <1>2 DEF IInv, TypeOK
<1>3. ASSUME NEW x \in Traces \ halfDeleted', i[x] # None PROVE i[x] = Root(method[x])'
  <2>1. i[x] = impl[x] /\ method'[x] = method[x]
    BY <1>2, <1>3 DEF IInv, TypeOK
  <2> QED
    BY <1>1, <1>3, <2>1, SameMethods DEF DInv, ImplAgrees
<1>4. ASSUME NEW x \in Sound', x \notin unmarked
      PROVE  x \in Traces /\ x \in Computed /\ x \in Sound /\ x \notin halfDeleted
  BY <1>1, <1>4 DEF Sound, Computed
<1>5. CASE S # sources[t] \/ m # method[t]
  <2> DEFINE D == Marked \cup Outdated(t, S) \cup {t}
  <2>1. ASSUME NEW x \in Sound', x \notin unmarked, outdated[x] \/ Inputs(x)' # Inputs(x)
        PROVE  x \in D \cup late
    <3>1. x \in Traces /\ x \in Computed /\ x \in Sound /\ x \notin halfDeleted
      BY <1>4, <2>1
    <3>2. CASE x = t
      BY <3>2
    <3>3. CASE x # t /\ t \in sources[x]
      <4>1. x \in transformed[t]
        BY <3>1, <3>3 DEF IInv, ReverseArcs
      <4> QED
        BY <4>1 DEF Outdated
    <3>4. CASE x # t /\ t \notin sources[x]
      <4>1. \A s \in sources[x] : own'[s] = own[s]
        BY <1>2, <3>1, <3>4 DEF IInv, TypeOK
      <4>2. Inputs(x)' = Inputs(x)
        BY <1>1, <1>2, <3>1, <3>4, <4>1, SameMethods, SameInputs
      <4> QED
        BY <2>1, <3>1, <4>2 DEF DInv, Due, Marked
    <3> QED
      BY <3>2, <3>3, <3>4
  <2>2. Read(t, D, i, late)
    BY <1>5
  <2> HIDE DEF D, i, late
  <2> QED
    BY <1>3, <2>1, <2>2, ReadCovers
<1>6. CASE ~(S # sources[t] \/ m # method[t])
  <2>1. /\ dirty' = Mark(transformed[t] \cup late) /\ impl' = i /\ Compare({})
        /\ sources' = sources /\ method' = method
    <3>1. sources' = sources /\ method' = method
      BY <1>6 DEF IInv, TypeOK
    <3>2. dirty' = Mark(Outdated(t, S) \cup late) /\ impl' = i /\ Compare({})
      BY <1>6
    <3>3. Outdated(t, S) = transformed[t]
      BY <1>6 DEF Outdated
    <3> QED
      BY <3>1, <3>2, <3>3
  <2>2. ImplAgrees'
    BY <1>3, <2>1 DEF ImplAgrees
  <2>3. ASSUME NEW x \in Sound', outdated'[x] PROVE dirty'[x]
    <3>1. x \in Traces /\ x \in Computed
      BY <1>1 DEF Sound, Computed
    <3>2. x \in Sound /\ x \notin halfDeleted
      BY <1>1, <2>1, <3>1, SoundBefore
    <3>3. dirty'[x] = (dirty[x] \/ x \in transformed[t] \/ x \in late)
      BY <2>1, <3>1 DEF Mark
    <3>4. CASE t \in sources[x]
      <4>1. x \in transformed[t]
        BY <3>1, <3>2, <3>4 DEF IInv, ReverseArcs
      <4> QED
        BY <3>3, <4>1
    <3>5. CASE x = t /\ v # own[t]
      BY <3>3, <3>5
    <3>6. CASE t \notin sources[x] /\ ~(x = t /\ v # own[t])
      <4>1. own'[x] = own[x] /\ \A s \in sources[x] : own'[s] = own[s]
        BY <1>2, <3>1, <3>6 DEF IInv, TypeOK
      <4>2. Inputs(x)' = Inputs(x)
        BY <1>1, <2>1, <3>1, <4>1, SameMethods, SameInputs
      <4>3. outdated[x]
        BY <2>1, <2>3, <3>1, <4>2, Compared
      <4> QED
        BY <3>2, <3>3, <4>3 DEF DInv, Due
    <3> QED
      BY <3>4, <3>5, <3>6
  <2> QED
    BY <2>2, <2>3 DEF DInv, Due
<1> QED
  BY <1>5, <1>6

\* A trace that is deleted is the source of none that is sound.
LEMMA DeleteTraceDInv ==
  ASSUME IInv, IInv', DInv, NEW t \in Traces, DeleteTrace(t)
  PROVE  DInv'
<1>1. /\ transformed[t] = {} /\ kind' = [kind EXCEPT ![t] = "none"]
      /\ sources' = [sources EXCEPT ![t] = {}] /\ method' = [method EXCEPT ![t] = None]
      /\ own' = [own EXCEPT ![t] = None] /\ impl' = [impl EXCEPT ![t] = None]
      /\ dirty' = [Mark(MarkedBySources(t, {})) EXCEPT ![t] = FALSE]
      /\ halfDeleted' = halfDeleted \ {t}
      /\ parent' = parent /\ params' = params /\ Compare({})
  BY DEF DeleteTrace, Destructible, methodVars
<1>2. ASSUME NEW x \in Traces, x # t
      PROVE  /\ sources'[x] = sources[x] /\ method'[x] = method[x]
             /\ own'[x] = own[x] /\ impl'[x] = impl[x]
  BY <1>1, <1>2 DEF IInv, TypeOK
<1>3. ImplAgrees'
  <2> SUFFICES ASSUME NEW x \in Traces \ halfDeleted', impl'[x] # None
               PROVE  impl'[x] = Root(method[x])'
    BY DEF ImplAgrees
  <2>1. x # t /\ x \notin halfDeleted
    BY <1>1 DEF IInv, TypeOK
  <2> QED
    BY <1>1, <1>2, <2>1, SameMethods DEF DInv, ImplAgrees
<1>4. ASSUME NEW x \in Sound', outdated'[x] PROVE dirty'[x]
  <2>1. x \in Traces /\ x \in Computed /\ x # t
    BY <1>1 DEF Sound, Computed, IInv, TypeOK
  <2>2. x \in Sound /\ x \notin halfDeleted
    BY <1>1, <2>1, SoundBefore
  <2>3. t \notin sources[x] /\ sources[x] \subseteq Traces
    BY <1>1, <2>1, <2>2 DEF IInv, TypeOK, ReverseArcs
  <2>4. Inputs(x)' = Inputs(x)
    BY <1>1, <1>2, <2>1, <2>3, SameMethods, SameInputs
  <2>5. outdated[x]
    BY <1>1, <1>4, <2>1, <2>4, Compared
  <2>6. dirty[x]
    BY <2>2, <2>5 DEF DInv, Due
  <2> QED
    BY <1>1, <2>1, <2>6 DEF Mark
<1> QED
  BY <1>3, <1>4 DEF DInv, Due

\* A trace that is half deleted is not sound any more; it is the source of none.
LEMMA DeletionTimesOutDInv ==
  ASSUME IInv, IInv', DInv, NEW t \in Traces, DeletionTimesOut(t)
  PROVE  DInv'
<1>1. /\ transformed[t] = {} /\ kind' = kind /\ sources' = sources /\ method' = method
      /\ own' = own /\ impl' = [impl EXCEPT ![t] = Root(method[t])]
      /\ dirty' = Mark(MarkedBySources(t, {}) \cup {t})
      /\ halfDeleted' = halfDeleted \cup {t}
      /\ parent' = parent /\ params' = params /\ Compare({t})
  BY DEF DeletionTimesOut, Destructible, methodVars
<1>2. ImplAgrees'
  <2> SUFFICES ASSUME NEW x \in Traces \ halfDeleted', impl'[x] # None
               PROVE  impl'[x] = Root(method[x])'
    BY DEF ImplAgrees
  <2>1. x # t /\ x \notin halfDeleted
    BY <1>1
  <2>2. impl'[x] = impl[x]
    BY <1>1, <2>1 DEF IInv, TypeOK
  <2> QED
    BY <1>1, <2>1, <2>2, SameMethods DEF DInv, ImplAgrees
<1>3. ASSUME NEW x \in Sound', outdated'[x] PROVE dirty'[x]
  <2>1. x \in Traces /\ x \in Computed /\ x # t
    BY <1>1 DEF Sound, Computed
  <2>2. x \in Sound /\ x \notin halfDeleted
    BY <1>1, <2>1, SoundBefore
  <2>3. t \notin sources[x]
    BY <1>1, <2>1, <2>2 DEF IInv, ReverseArcs
  <2>4. Inputs(x)' = Inputs(x)
    BY <1>1, <2>1, SameMethods, SameInputs
  <2>5. outdated[x]
    BY <1>1, <1>3, <2>1, <2>3, <2>4, Compared
  <2>6. dirty[x]
    BY <2>2, <2>5 DEF DInv, Due
  <2> QED
    BY <1>1, <2>1, <2>6 DEF Mark
<1> QED
  BY <1>2, <1>3 DEF DInv, Due

\* Nothing changes but what reading computes.
LEMMA RefreshDInv ==
  ASSUME IInv, IInv', DInv, NEW t \in Traces, Refresh(t)
  PROVE  DInv'
<1>1. /\ parent' = parent /\ method' = method /\ sources' = sources /\ kind' = kind
      /\ params' = params /\ own' = own /\ Read(t, Marked, impl, {})
      /\ halfDeleted' = halfDeleted
  BY DEF Refresh, arcs
<1>2. \A x \in Traces \ halfDeleted' : impl[x] # None => impl[x] = Root(method[x])'
  BY <1>1, SameMethods DEF DInv, ImplAgrees
<1>3. ASSUME NEW x \in Sound', x \notin unmarked, outdated[x] \/ Inputs(x)' # Inputs(x)
      PROVE  x \in Marked \cup {}
  <2>1. x \in Traces /\ x \in Sound
    BY <1>1, <1>3 DEF Sound, Computed
  <2>2. Inputs(x)' = Inputs(x)
    BY <1>1, <2>1, SameMethods, SameInputs
  <2> QED
    BY <1>3, <2>1, <2>2 DEF DInv, Due, Marked
<1> QED
  BY <1>1, <1>2, <1>3, ReadCovers

\* A trace that loses its mark is not sound any more.
LEMMA RefreshTimesOutDInv ==
  ASSUME IInv, DInv, NEW t \in Traces, RefreshTimesOut(t)
  PROVE  DInv'
<1>1. /\ parent' = parent /\ method' = method /\ impl' = impl /\ kind' = kind
      /\ outdated' = outdated /\ halfDeleted' = halfDeleted
      /\ unmarked' = unmarked \cup {t} /\ dirty' = [dirty EXCEPT ![t] = FALSE]
  BY DEF RefreshTimesOut, arcs
<1>2. ImplAgrees'
  BY <1>1, SameMethods DEF DInv, ImplAgrees
<1>3. ASSUME NEW x \in Sound', outdated'[x] PROVE dirty'[x]
  <2>1. x \in Traces /\ x \in Sound /\ x # t
    BY <1>1 DEF Sound, Computed
  <2> QED
    BY <1>1, <1>3, <2>1 DEF DInv, Due, IInv, TypeOK
<1> QED
  BY <1>2, <1>3 DEF DInv, Due

LEMMA ForgetDInv ==
  ASSUME IInv, DInv, NEW t \in Traces, Forget(t)
  PROVE  DInv'
<1>1. /\ parent' = parent /\ method' = method /\ sources' = sources /\ kind' = kind
      /\ params' = params /\ own' = own /\ dirty' = dirty /\ halfDeleted' = halfDeleted
      /\ impl' = [impl EXCEPT ![t] = None] /\ Compare({})
  BY DEF Forget, arcs
<1>2. ImplAgrees'
  <2> SUFFICES ASSUME NEW x \in Traces \ halfDeleted', impl'[x] # None
               PROVE  impl'[x] = Root(method[x])'
    BY DEF ImplAgrees
  <2>1. impl'[x] = impl[x]
    BY <1>1 DEF IInv, TypeOK
  <2> QED
    BY <1>1, <2>1, SameMethods DEF DInv, ImplAgrees
<1>3. ASSUME NEW x \in Sound', outdated'[x] PROVE dirty'[x]
  <2>1. x \in Traces /\ x \in Computed
    BY <1>1 DEF Sound, Computed
  <2>2. x \in Sound
    BY <1>1, <2>1, SoundBefore
  <2>3. Inputs(x)' = Inputs(x)
    BY <1>1, <2>1, SameMethods, SameInputs
  <2>4. outdated[x]
    BY <1>1, <1>3, <2>1, <2>3, Compared
  <2> QED
    BY <1>1, <2>2, <2>4 DEF DInv, Due
<1> QED
  BY <1>2, <1>3 DEF DInv, Due

\* A method that appears, or goes, or changes, matters to the traces whose method
\* has it in its lineage: the others are made from the same things as before.
LEMMA OtherMethods ==
  ASSUME IInv, IInv', NEW m \in Methods,
         \A z \in Methods : z # m => parent'[z] = parent[z] /\ params'[z] = params[z],
         method' = method, own' = own, sources' = sources,
         NEW x \in Traces, method[x] # m, m \notin Lineage(method[x])
  PROVE  Inputs(x)' = Inputs(x) /\ Root(method[x])' = Root(method[x])
<1>1. /\ parent \in [Methods -> Methods \cup Builtins \cup {None}]
      /\ parent' \in [Methods -> Methods \cup Builtins \cup {None}]
      /\ Parents(parent) /\ Parents(parent')
  BY MethodGraph
<1> PICK par, par2, y : par = parent /\ par2 = parent' /\ y = method[x]
  OBVIOUS
<1>2. method'[x] = y
  OBVIOUS
<1>3. m \notin LineageIn(par, y)
  BY LineageIs
<1>4. LineageIn(par2, y) = LineageIn(par, y) /\ RootIn(par2, y) = RootIn(par, y)
  BY <1>1, <1>3, LineageSame
<1>5. Lineage(method[x])' = Lineage(method[x]) /\ Root(method[x])' = Root(method[x])
  BY <1>2, <1>4, LineageIs, RootIs
<1>6. \A z \in Lineage(method[x]) : parent'[z] = parent[z] /\ params'[z] = params[z]
  BY <1>1, LineageClosure, LineageIs DEF DefinedIn
<1> QED
  BY <1>5, <1>6, SameInputs

\* A method that nothing leads to, before the step or after it.
LEMMA FreeMethodDInv ==
  ASSUME IInv, IInv', DInv, NEW m \in Methods,
         \A z \in Methods : z # m => parent'[z] = parent[z] /\ params'[z] = params[z],
         \A x \in Traces \ halfDeleted : method[x] # m, \A z \in Methods : parent[z] # m,
         UNCHANGED <<kind, sources, method, own, dirty, impl, halfDeleted>>, Compare({})
  PROVE  DInv'
<1>1. \A x \in Traces \ halfDeleted : m \notin Lineage(method[x])
  <2> TAKE x \in Traces \ halfDeleted
  <2>1. Parents(parent) /\ parent \in [Methods -> Methods \cup Builtins \cup {None}]
    BY MethodGraph
  <2> DEFINE C == Methods \ {m}
  <2>2. C \in SUBSET Methods /\ \A z \in C : parent[z] \in Builtins \cup {None} \cup C
    BY <2>1
  <2>3. method[x] \in DefinedIn(parent) => method[x] \in C
    BY DEF DefinedIn
  <2> HIDE DEF C
  <2>4. LineageIn(parent, method[x]) \subseteq C
    BY <2>1, <2>2, <2>3, LineageClosure
  <2> QED
    BY <2>4, LineageIs DEF C
<1>2. \A x \in Traces \ halfDeleted :
        Inputs(x)' = Inputs(x) /\ Root(method[x])' = Root(method[x])
  BY <1>1, OtherMethods
<1>3. ImplAgrees'
  <2>1. impl' = impl
    OBVIOUS
  <2> QED
    BY <1>2, <2>1 DEF DInv, ImplAgrees
<1>4. ASSUME NEW x \in Sound', outdated'[x] PROVE dirty'[x]
  <2>0. x \in Computed
    BY DEF Sound, Computed
  <2>1. x \in Traces /\ x \in Sound
    BY <2>0, SoundBefore
  <2>2. outdated[x]
    BY <1>2, <1>4, <2>1, Compared DEF Sound
  <2> QED
    BY <2>1, <2>2 DEF DInv, Due
<1> QED
  BY <1>3, <1>4 DEF DInv, Due

\* A method that did not exist is neither a parent nor in use.
LEMMA CreateMethodDInv ==
  ASSUME IInv, IInv', DInv, NEW m \in Methods, NEW p \in Methods \cup Builtins,
         NEW v \in Settings, CreateMethod(m, p, v)
  PROVE  DInv'
<1>1. \A x \in Traces \ halfDeleted : method[x] # m
  BY DEF CreateMethod, IInv, TypeOK, NoDangling, Defined
<1>2. \A z \in Methods : parent[z] # m
  BY DEF CreateMethod, IInv, TypeOK, NoDangling, Defined
<1>3. \A z \in Methods : z # m => parent'[z] = parent[z] /\ params'[z] = params[z]
  BY DEF CreateMethod, IInv, TypeOK
<1>4. UNCHANGED <<kind, sources, method, own, dirty, impl, halfDeleted>> /\ Compare({})
  BY DEF CreateMethod
<1> QED
  BY <1>1, <1>2, <1>3, <1>4, FreeMethodDInv

LEMMA DeleteMethodDInv ==
  ASSUME IInv, IInv', DInv, NEW m \in Methods, DeleteMethod(m)
  PROVE  DInv'
<1>1. \A x \in Traces \ halfDeleted : method[x] # m
  BY DEF DeleteMethod, Deletable, IInv, ReverseArcs
<1>2. \A z \in Methods : parent[z] # m
  BY DEF DeleteMethod, Deletable, IInv, ReverseArcs
<1>3. \A z \in Methods : z # m => parent'[z] = parent[z] /\ params'[z] = params[z]
  BY DEF DeleteMethod, IInv, TypeOK
<1>4. UNCHANGED <<kind, sources, method, own, dirty, impl, halfDeleted>> /\ Compare({})
  BY DEF DeleteMethod
<1> QED
  BY <1>1, <1>2, <1>3, <1>4, FreeMethodDInv

\* The traces that inherit from m are marked; their method objects are still good,
\* as the new parent leads to the same built-in method, or have not been made.
LEMMA EditMethodDInv ==
  ASSUME ~Reparented, IInv, IInv', DInv, NEW m \in Methods,
         NEW p \in Methods \cup Builtins, NEW v \in Settings, EditMethod(m, p, v)
  PROVE  DInv'
<1>1. /\ m \in Defined /\ p \in Builtins \cup Defined /\ m \notin Lineage(p)
      /\ Root(p) = Root(m) \/ \A x \in Affected(m) : impl[x] = None
      /\ parent' = [parent EXCEPT ![m] = p]
      /\ dirty' = Mark(Affected(m)) /\ Compare({})
      /\ kind' = kind /\ sources' = sources /\ method' = method /\ own' = own /\ impl' = impl
      /\ halfDeleted' = halfDeleted
  BY DEF EditMethod
<1>2. \A z \in Methods : z # m => parent'[z] = parent[z] /\ params'[z] = params[z]
  BY DEF EditMethod, IInv, TypeOK
<1>3. parent'[m] = p
  BY <1>1 DEF IInv, TypeOK
<1>4. /\ parent \in [Methods -> Methods \cup Builtins \cup {None}]
      /\ parent' \in [Methods -> Methods \cup Builtins \cup {None}]
      /\ Parents(parent) /\ Parents(parent')
  BY MethodGraph
<1>5. m \in DefinedIn(parent) /\ m \in DefinedIn(parent') /\ m # None
  BY <1>1, <1>3 DEF Defined, DefinedIn
<1>6. ASSUME NEW x \in Traces \ halfDeleted, x \notin Affected(m)
      PROVE  method[x] # m /\ m \notin Lineage(method[x])
  <2>1. ASSUME m \in Lineage(method[x]) PROVE FALSE
    <3>1. method[x] \in Heirs(m)
      BY <2>1, HeirsAre
    <3>2. x \in usedBy[method[x]]
      BY <3>1, HeirsType DEF IInv, ReverseArcs
    <3> QED
      BY <1>6, <3>1, <3>2 DEF Affected
  <2>2. ASSUME method[x] = m PROVE FALSE
    <3>1. m \in LineageIn(parent, m)
      BY <1>4, <1>5, LineageClosure
    <3> QED
      BY <2>1, <2>2, <3>1, LineageIs
  <2> QED
    BY <2>1, <2>2
<1>7. \A x \in (Traces \ halfDeleted) \ Affected(m) :
        Inputs(x)' = Inputs(x) /\ Root(method[x])' = Root(method[x])
  BY <1>1, <1>2, <1>6, OtherMethods
<1>8. ASSUME NEW x \in Traces, x \in Affected(m), Root(p) = Root(m),
             impl[x] # None, m = method[x] \/ m \in Lineage(method[x])
      PROVE  Root(method[x])' = Root(method[x])
  <2> PICK par, par2, y : par = parent /\ par2 = parent' /\ y = method[x]
    OBVIOUS
  <2>1. m \in LineageIn(par, y)
    BY <1>4, <1>5, <1>8, LineageClosure, LineageIs
  <2>2. RootIn(par, y) = RootIn(par, m)
    BY <1>4, <2>1, SameRoot
  <2>3. m \in LineageIn(par2, y)
    <3>1. CASE y = m
      BY <1>4, <1>5, <3>1, LineageClosure
    <3>2. CASE y # m
      <4> SUFFICES ASSUME m \notin LineageIn(par2, y) PROVE FALSE
        OBVIOUS
      <4>1. \A z \in Methods : z # m => par[z] = par2[z]
        BY <1>2
      <4>2. LineageIn(par, y) = LineageIn(par2, y)
        BY <1>4, <3>2, <4>1, LineageSame
      <4> QED
        BY <2>1, <4>2
    <3> QED
      BY <3>1, <3>2
  <2>4. RootIn(par2, y) = RootIn(par2, m)
    BY <1>4, <2>3, SameRoot
  <2>5. RootIn(par2, m) = RootIn(par2, p)
    BY <1>3, <1>4, <1>5, ParentRoot
  <2>6. RootIn(par2, p) = RootIn(par, p)
    <3>1. m \notin LineageIn(par, p)
      BY <1>1, LineageIs
    <3>2. p # m
      BY <1>4, <1>5, <3>1, LineageClosure
    <3>3. \A z \in Methods : z # m => par2[z] = par[z]
      BY <1>2
    <3> QED
      BY <1>4, <3>1, <3>2, <3>3, LineageSame
  <2>7. RootIn(par, p) = RootIn(par, m)
    BY <1>8, RootIs
  <2>8. RootIn(par2, y) = RootIn(par, y)
    BY <2>2, <2>4, <2>5, <2>6, <2>7
  <2>9. method'[x] = y
    BY <1>1
  <2> QED
    BY <2>8, <2>9, RootIs
<1>9. ImplAgrees'
  <2> SUFFICES ASSUME NEW x \in Traces \ halfDeleted, impl'[x] # None
               PROVE  impl'[x] = Root(method[x])'
    BY <1>1 DEF ImplAgrees
  <2>1. impl[x] # None /\ impl'[x] = impl[x] /\ impl[x] = Root(method[x])
    BY <1>1 DEF DInv, ImplAgrees
  <2>2. CASE m = method[x] \/ m \in Lineage(method[x])
    <3>1. x \in Affected(m)
      BY <1>6, <2>2
    <3>2. Root(p) = Root(m)
      BY <1>1, <2>1, <3>1
    <3> QED
      BY <1>8, <2>1, <2>2, <3>1, <3>2
  <2>3. CASE ~(m = method[x] \/ m \in Lineage(method[x]))
    BY <1>1, <1>2, <2>1, <2>3, OtherMethods
  <2> QED
    BY <2>2, <2>3
<1>10. ASSUME NEW x \in Sound', outdated'[x] PROVE dirty'[x]
  <2>0. x \in Computed
    BY <1>1 DEF Sound, Computed
  <2>1. x \in Traces /\ x \in Sound /\ x \notin halfDeleted
    BY <1>1, <2>0, SoundBefore
  <2>2. dirty'[x] = (dirty[x] \/ x \in Affected(m))
    BY <1>1, <2>1 DEF Mark
  <2>3. CASE x \in Affected(m)
    BY <2>2, <2>3
  <2>4. CASE x \notin Affected(m)
    <3>1. Inputs(x)' = Inputs(x)
      BY <1>7, <2>1, <2>4
    <3>2. outdated[x]
      BY <1>1, <1>10, <2>1, <3>1, Compared
    <3> QED
      BY <2>1, <2>2, <3>2 DEF DInv, Due
  <2> QED
    BY <2>3, <2>4
<1> QED
  BY <1>9, <1>10 DEF DInv, Due

----------------------------------------------------------------------------
(* Theorems *)

\* Every step preserves the invariant.
LEMMA NextIInv == ASSUME ~Dangling, IInv, [Next]_vars PROVE IInv'
<1>1. ASSUME NEW t \in Traces, NEW v \in Settings, CreateStored(t, v) \/ EditStored(t, v)
      PROVE  IInv'
  BY <1>1, CreateStoredIInv, EditStoredIInv
<1>2. ASSUME NEW t \in Traces,
             \/ CreateComputed(t) \/ EditComputed(t)
             \/ DeleteTrace(t) \/ DeletionTimesOut(t)
             \/ Refresh(t) \/ RefreshTimesOut(t) \/ Forget(t)
      PROVE  IInv'
  BY <1>2, CreateComputedIInv, EditComputedIInv, DeleteTraceIInv, DeletionTimesOutIInv,
     RefreshIInv, RefreshTimesOutIInv, ForgetIInv
<1>3. ASSUME NEW m \in Methods, NEW p \in Methods \cup Builtins, NEW v \in Settings,
             CreateMethod(m, p, v) \/ EditMethod(m, p, v)
      PROVE  IInv'
  BY <1>3, CreateMethodIInv, EditMethodIInv
<1>4. ASSUME NEW m \in Methods, DeleteMethod(m)
      PROVE  IInv'
  BY <1>4, DeleteMethodIInv
<1>5. CASE UNCHANGED vars
  BY <1>5, StutterIInv
<1> QED
  BY <1>1, <1>2, <1>3, <1>4, <1>5 DEF Next

\* Every step preserves the invariant of descriptions.
LEMMA NextDInv ==
  ASSUME ~Dangling, ~Reparented, IInv, DInv, [Next]_vars
  PROVE  DInv'
<1>0. IInv'
  BY NextIInv
<1>1. ASSUME NEW t \in Traces, NEW v \in Settings, CreateStored(t, v) \/ EditStored(t, v)
      PROVE  DInv'
  BY <1>1, CreateStoredDInv, EditStoredDInv
<1>2. ASSUME NEW t \in Traces,
             \/ CreateComputed(t) \/ EditComputed(t)
             \/ DeleteTrace(t) \/ DeletionTimesOut(t)
             \/ Refresh(t) \/ RefreshTimesOut(t) \/ Forget(t)
      PROVE  DInv'
  BY <1>0, <1>2, CreateComputedDInv, EditComputedDInv, DeleteTraceDInv, DeletionTimesOutDInv,
     RefreshDInv, RefreshTimesOutDInv, ForgetDInv
<1>3. ASSUME NEW m \in Methods, NEW p \in Methods \cup Builtins, NEW v \in Settings,
             CreateMethod(m, p, v) \/ EditMethod(m, p, v)
      PROVE  DInv'
  BY <1>0, <1>3, CreateMethodDInv, EditMethodDInv
<1>4. ASSUME NEW m \in Methods, DeleteMethod(m)
      PROVE  DInv'
  BY <1>0, <1>4, DeleteMethodDInv
<1>5. CASE UNCHANGED vars
  BY <1>5, StutterDInv
<1> QED
  BY <1>1, <1>2, <1>3, <1>4, <1>5 DEF Next

\* The invariant holds in every state of every behaviour.
LEMMA Invariance == ASSUME ~Dangling PROVE Spec => []IInv
<1>1. IInv /\ [Next]_vars => IInv'
  BY NextIInv
<1> QED
  BY InitIInv, <1>1, PTL DEF Spec

\* Types of every variable; only computed traces have a method, sources, a mark
\* or a method object.
THEOREM TypeCorrect == ASSUME ~Dangling PROVE Spec => []TypeOK
<1>1. IInv => TypeOK
  BY DEF IInv
<1> QED
  BY Invariance, <1>1, PTL

\* _notify_sources, _ack_method_change and _ack_parent_change keep both ends of
\* every hasSource, hasMethod and hasParentMethod arc in agreement, except for the
\* traces whose deletion timed out after they were called.
THEOREM ArcsAgree == ASSUME ~Dangling PROVE Spec => []ReverseArcs
<1>1. IInv => ReverseArcs
  BY DEF IInv
<1> QED
  BY Invariance, <1>1, PTL

\* check_deletable of traces and of methods lets nothing go that is in use, unless
\* by a trace whose deletion timed out.
THEOREM Integrity == ASSUME ~Dangling PROVE Spec => []NoDangling
<1>1. IInv => NoDangling
  BY DEF IInv
<1> QED
  BY Invariance, <1>1, PTL

\* _mark_dirty, with the marks that each change leaves on what is made from it,
\* directly or through other traces and methods, keeps a description from being
\* served that its sources, method and parameters do not give any more: as long as
\* traces name methods that exist, methods in use keep their built-in method, and no
\* time-out has left the trace half deleted or without its mark.
THEOREM DescriptionCorrect ==
  ASSUME ~Dangling, ~Reparented PROVE Spec => []DescriptionUpToDate
<1>1. DInv /\ IInv /\ [Next]_vars => DInv'
  BY NextDInv
<1>2. DInv => DescriptionUpToDate
  BY DEF DInv, Due, Sound, DescriptionUpToDate, Clean, Marked, Computed
<1> QED
  BY Invariance, InitDInv, <1>1, <1>2, PTL DEF Spec
=============================================================================
