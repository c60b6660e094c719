------------------------- MODULE BaseLifecycle_proofs -------------------------
(***************************************************************************)
(* Creation and deletion of bases and items, for any tree of resources and *)
(* any number of threads, when nobody uses a base that is being deleted    *)
(* (QuietDelete; the run BaseDeleteRace shows what happens otherwise).     *)
(* Semaphores are unlinked, created again and forced to 1 all the same:    *)
(* what has to be shown is that this never happens under the feet of a     *)
(* thread that has an older generation open.                               *)
(***************************************************************************)
EXTENDS BaseLifecycle, FiniteSetTheorems, TLAPS

USE ParentAssumption, QuietAssumption, LifecycleBounds

----------------------------------------------------------------------------
(* The inductive invariant *)

Alive(t) == pc[t] # "idle"
Deleting(t) == op[t].kind = "deleteBase"

\* Where the operations of each kind pass.
Entering == {"wait1", "enter", "check", "release1"}
Modes ==
  \A t \in Threads :
    /\ IF Alive(t) THEN op[t] # NoOp ELSE op[t] = NoOp
    /\ op[t].kind = "create" => pc[t] \in Entering \cup {"write", "register"}
    /\ op[t].kind = "deleteItem" =>
         op[t].r \in Items /\ pc[t] \in Entering \cup {"clear", "mark"}
    /\ Deleting(t) =>
         /\ op[t].r \in Bases
         /\ pc[t] \in Entering \cup {"unlink", "open2", "wait2", "unregister", "release2",
                                     "clear", "mark"}
         /\ pc[t] \in {"unlink", "open2", "wait2", "unregister", "release2"} =>
              Parent[op[t].r] # op[t].r
    /\ Alive(t) => h1[t] # 0
    /\ pc[t] \in {"wait2", "unregister", "release2"} => h2[t] # 0

\* Nobody uses a base while a thread deletes it.
Undisturbed ==
  \A t, u \in Threads :
    t # u /\ Alive(t) /\ Alive(u) /\ Deleting(t) => op[t].r \notin Uses(op[u].kind, op[u].r)

\* Thread t has taken generation g of the semaphore of c.
Holds(t, c, g) ==
  \/ pc[t] \notin {"idle", "wait1"} /\ First(t) = c /\ h1[t] = g
  \/ pc[t] \in {"unregister", "release2"} /\ Parent[op[t].r] = c /\ h2[t] = g

Semaphores ==
  \A c \in Containers : \A g \in 1 .. MaxGen :
    /\ value[c][g] = IF \E t \in Threads : Holds(t, c, g) THEN 0 ELSE 1
    /\ \A t, u \in Threads : Holds(t, c, g) /\ Holds(u, c, g) => t = u

\* The deletion has unlinked the semaphore of the base.
PastUnlink(t) ==
  /\ Deleting(t)
  /\ \/ pc[t] \in {"open2", "wait2", "unregister", "release2", "clear", "mark"}
     \/ pc[t] = "release1" /\ h1[t] # linked[op[t].r]

\* Threads have the semaphore open that the name leads to, unless they have
\* unlinked it.
GenerationsOf(t) ==
  /\ Alive(t) /\ ~PastUnlink(t) => h1[t] = linked[First(t)]
  /\ PastUnlink(t) => linked[op[t].r] = 0 /\ contents[op[t].r] = {}
  /\ pc[t] \in {"wait2", "unregister", "release2"} => h2[t] = linked[Parent[op[t].r]]
Generations == \A t \in Threads : GenerationsOf(t)

\* What the operations have found, and rely on.
FindingsOf(t) ==
  /\ Alive(t) /\ ~Deleting(t) => Parent[op[t].r] \in stored
  /\ Deleting(t) /\ pc[t] \in {"wait1", "enter", "check", "unlink", "open2", "wait2", "unregister"} =>
       op[t].r \in contents[Parent[op[t].r]]
  /\ pc[t] = "unlink" => contents[op[t].r] = {}
  /\ pc[t] = "release2" => Parent[op[t].r] \in stored
  /\ pc[t] = "write" => op[t].r \notin contents[Parent[op[t].r]]
  /\ pc[t] = "register" => op[t].r \in stored
  /\ pc[t] \in {"release2", "clear"} => op[t].r \notin contents[Parent[op[t].r]]
Findings == \A t \in Threads : FindingsOf(t)

\* The step that has only been done in the store, or in the container.
Halfway(r) == \E t \in Threads : op[t].r = r /\ pc[t] \in {"register", "release2", "clear"}

Catalogue ==
  /\ \A r \in Resources : ~Halfway(r) => (r \in stored <=> r \in contents[Parent[r]])
  /\ \A c \in Containers : contents[c] # {} => c \in stored
  /\ \A c \in Containers : \A r \in contents[c] : Parent[r] = c

\* The object an operation acts on behalf of.
Objects ==
  \A t \in Threads : Alive(t) =>
    /\ obj[t] <= object[Behalf(op[t].kind, op[t].r)]
    /\ op[t].kind # "create" /\ pc[t] \notin {"wait1", "enter", "release1"} =>
         obj[t] = object[op[t].r]

\* Operations are counted; each marks at most one object.
Unmarked == {t \in Threads : pc[t] \notin {"idle", "release1"}}
Counted ==
  IsFiniteSet(Unmarked) /\ \A r \in Resources \cup {Root} : object[r] + Cardinality(Unmarked) <= ops

IInv == TypeOK /\ Modes /\ Undisturbed /\ Semaphores /\ Generations /\ Findings /\ Catalogue
        /\ Objects /\ Counted

----------------------------------------------------------------------------
(* Who holds what *)

LEMMA Types ==
  ASSUME TypeOK, Modes, NEW t \in Threads, Alive(t)
  PROVE  /\ op[t].kind \in OpKinds /\ op[t].r \in Resources /\ op[t] # NoOp
         /\ Parent[op[t].r] \in Containers /\ First(t) \in Containers
         /\ h1[t] \in 1 .. MaxGen
         /\ pc[t] \in {"wait2", "unregister", "release2"} => h2[t] \in 1 .. MaxGen
<1>1. op[t] \in [kind : OpKinds, r : Resources]
  BY DEF TypeOK, Modes
<1>2. op[t].r \in Resources /\ Parent[op[t].r] \in Containers
  BY <1>1
<1>3. First(t) \in Containers
  BY <1>2 DEF First, Modes, Deleting, Containers
<1>4. h1[t] \in 1 .. MaxGen
  BY DEF TypeOK, Modes
<1>5. pc[t] \in {"wait2", "unregister", "release2"} => h2[t] \in 1 .. MaxGen
  BY DEF TypeOK, Modes
<1> QED
  BY <1>1, <1>2, <1>3, <1>4, <1>5 DEF Modes

\* Two threads do not hold one container, whatever the generations.
LEMMA Exclusive ==
  ASSUME IInv, NEW t \in Threads, NEW u \in Threads, NEW c \in Held(t), c \in Held(u)
  PROVE  t = u
<1>0. TypeOK /\ Modes /\ Undisturbed /\ Semaphores /\ Generations
  BY DEF IInv
<1>1. Alive(t) /\ Alive(u)
  BY DEF Held, Alive
<1>2. /\ c \in Containers
      /\ h1[t] \in 1 .. MaxGen /\ h1[u] \in 1 .. MaxGen
      /\ pc[t] \in {"unregister", "release2"} => h2[t] \in 1 .. MaxGen
      /\ pc[u] \in {"unregister", "release2"} => h2[u] \in 1 .. MaxGen
  <2>1. \A v \in {t, u} : /\ First(v) \in Containers /\ Parent[op[v].r] \in Containers
                          /\ h1[v] \in 1 .. MaxGen
                          /\ pc[v] \in {"wait2", "unregister", "release2"} => h2[v] \in 1 .. MaxGen
    BY <1>0, <1>1, Types
  <2> QED
    BY <2>1 DEF Held
<1>3. ASSUME NEW g \in 1 .. MaxGen, Holds(t, c, g), Holds(u, c, g) PROVE t = u
  BY <1>0, <1>2, <1>3 DEF Semaphores
<1>4. CASE First(t) = c /\ pc[t] # "wait1" /\ First(u) = c /\ pc[u] # "wait1"
  <2>1. CASE ~PastUnlink(t) /\ ~PastUnlink(u)
    BY <1>0, <1>1, <1>2, <1>3, <1>4, <2>1 DEF Generations, GenerationsOf, Holds, Alive
  <2>2. CASE PastUnlink(t) \/ PastUnlink(u)
    BY <1>0, <1>1, <1>4, <2>2 DEF PastUnlink, Undisturbed, Uses, First, Deleting
  <2> QED
    BY <2>1, <2>2
<1>5. ASSUME NEW v \in Threads, NEW w \in Threads, Alive(v), First(v) = c, pc[v] # "wait1",
             pc[w] \in {"unregister", "release2"}, Parent[op[w].r] = c
      PROVE  \E g \in 1 .. MaxGen : Holds(v, c, g) /\ Holds(w, c, g)
  <2>1. h2[w] \in 1 .. MaxGen /\ h2[w] = linked[c]
    BY <1>0, <1>5, Types DEF Generations, GenerationsOf, Alive
  <2>2. ~PastUnlink(v)
    BY <1>0, <1>5, <2>1 DEF PastUnlink, First, Generations, GenerationsOf, Deleting
  <2>3. h1[v] = linked[c]
    BY <1>0, <1>5, <2>2 DEF Generations, GenerationsOf
  <2> QED
    BY <1>5, <2>1, <2>3 DEF Holds, Alive
<1>6. CASE /\ pc[t] \in {"unregister", "release2"} /\ Parent[op[t].r] = c
           /\ pc[u] \in {"unregister", "release2"} /\ Parent[op[u].r] = c
  BY <1>0, <1>2, <1>3, <1>6 DEF Generations, GenerationsOf, Holds
<1> QED
  BY <1>1, <1>3, <1>4, <1>5, <1>6 DEF Held, Alive

LEMMA Initially == Init => IInv
<1> SUFFICES ASSUME Init PROVE IInv
  OBVIOUS
<1>1. TypeOK
  BY DEF Init, TypeOK, Containers, Resources, States
<1>2. /\ \A t \in Threads : ~Alive(t) /\ op[t] = NoOp
      /\ \A t \in Threads, c \in Containers, g \in 1 .. MaxGen : ~Holds(t, c, g)
  BY DEF Init, Alive, Holds
<1>3. Modes /\ Undisturbed
  BY <1>2 DEF Init, Modes, Undisturbed, NoOp, Deleting, Alive
<1>4. Semaphores
  BY <1>2 DEF Init, Semaphores
<1>5. Generations /\ Findings
  BY <1>2 DEF Init, Generations, GenerationsOf, Findings, FindingsOf, PastUnlink, NoOp, Deleting
<1>6. Catalogue
  BY <1>2 DEF Init, Catalogue, Containers, Resources
<1>7. Objects
  BY <1>2 DEF Init, Objects
<1>8. Counted
  <2>1. Unmarked = {}
    BY DEF Init, Unmarked
  <2> QED
    BY <2>1, FS_EmptySet DEF Init, Counted
<1> QED
  BY <1>1, <1>3, <1>4, <1>5, <1>6, <1>7, <1>8 DEF IInv

----------------------------------------------------------------------------
(* What a step changes of the threads *)

Steps(t) ==
  \/ \E k \in OpKinds, r \in Resources : Start(t, k, r)
  \/ Progress(t) \/ TimeOut1(t) \/ TimeOut2(t)

\* Only Start is a step of a thread that is idle.
LEMMA Running ==
  ASSUME NEW t \in Threads, Steps(t), ~(\E k \in OpKinds, r \in Resources : Start(t, k, r))
  PROVE  Alive(t)
BY DEF Steps, Progress, TimeOut1, TimeOut2, Acquire1, Enter, CheckNew, Write, Register,
   UnregisterItem, CheckDeletable, Unlink, Open2, Acquire2, Unregister, Release2, Clear, Mark,
   Release1, SemWait, Alive

\* Other threads do not notice; an operation keeps its resource, its object and
\* its first semaphore until it ends.
LEMMA Others ==
  ASSUME TypeOK, Modes, NEW t \in Threads, Steps(t)
  PROVE  /\ \A u \in Threads \ {t} :
              /\ pc'[u] = pc[u] /\ op'[u] = op[u] /\ obj'[u] = obj[u]
              /\ h1'[u] = h1[u] /\ h2'[u] = h2[u]
         /\ Alive(t) => /\ Alive(t)' => op'[t] = op[t]
                        /\ ~Alive(t)' => op'[t] = NoOp
                        /\ obj'[t] = obj[t] /\ h1'[t] = h1[t] /\ ops' = ops
                        /\ pc[t] # "open2" => h2'[t] = h2[t]
<1>1. CASE \E k \in OpKinds, r \in Resources : Start(t, k, r)
  BY <1>1 DEF Start, Goto, TypeOK, Alive
<1>2. CASE TimeOut1(t) \/ Release1(t) \/ TimeOut2(t)
  BY <1>2 DEF TimeOut1, Release1, TimeOut2, Goto, TypeOK, Alive
<1>3. CASE Open2(t)
  BY <1>3 DEF Open2, Goto, TypeOK, Alive
<1>4. CASE \/ Acquire1(t) \/ Enter(t) \/ CheckNew(t) \/ Write(t) \/ Register(t) \/ UnregisterItem(t)
  BY <1>4 DEF Acquire1, Enter, CheckNew, Write, Register, UnregisterItem, SemWait, Goto, TypeOK,
     Alive
<1>5. CASE \/ CheckDeletable(t) \/ Unlink(t) \/ Acquire2(t) \/ Unregister(t) \/ Release2(t)
           \/ Clear(t) \/ Mark(t)
  BY <1>5 DEF CheckDeletable, Unlink, Acquire2, Unregister, Release2, Clear, Mark, SemWait, Goto,
              TypeOK, Alive
<1> QED
  BY <1>1, <1>2, <1>3, <1>4, <1>5 DEF Steps, Progress

LEMMA NextModes ==
  ASSUME IInv, NEW t \in Threads, Steps(t)
  PROVE  Modes'
<1>0. TypeOK /\ Modes /\ Findings
  BY DEF IInv
<1> DEFINE ModesOf(u) ==
    /\ IF Alive(u) THEN op[u] # NoOp ELSE op[u] = NoOp
    /\ op[u].kind = "create" => pc[u] \in Entering \cup {"write", "register"}
    /\ op[u].kind = "deleteItem" =>
         op[u].r \in Items /\ pc[u] \in Entering \cup {"clear", "mark"}
    /\ Deleting(u) =>
         /\ op[u].r \in Bases
         /\ pc[u] \in Entering \cup {"unlink", "open2", "wait2", "unregister", "release2",
                                     "clear", "mark"}
         /\ pc[u] \in {"unlink", "open2", "wait2", "unregister", "release2"} =>
              Parent[op[u].r] # op[u].r
    /\ Alive(u) => h1[u] # 0
    /\ pc[u] \in {"wait2", "unregister", "release2"} => h2[u] # 0
<1>1. \A u \in Threads : ModesOf(u)
  BY <1>0 DEF Modes
<1>2. \A u \in Threads \ {t} : ModesOf(u)'
  BY <1>0, <1>1, Others DEF Alive, Deleting
<1>g. \A c \in Containers : Gen(c) # 0
  BY <1>0 DEF Gen, TypeOK
<1>3. ModesOf(t)'
  <2>1. CASE \E k \in OpKinds, r \in Resources : Start(t, k, r)
    <3> PICK k \in OpKinds, r \in Resources : Start(t, k, r)
      BY <2>1
    <3>1. /\ op'[t] = [kind |-> k, r |-> r] /\ pc'[t] = "wait1"
          /\ k = "deleteBase" => r \in Bases
          /\ k = "deleteItem" => r \in Items
      BY <1>0 DEF Start, Goto, TypeOK
    <3>2. h1'[t] # 0
      BY <1>0, <1>g DEF Start, TypeOK, Containers
    <3>3. op'[t] # NoOp
      BY <3>1 DEF NoOp, OpKinds
    <3> QED
      BY <3>1, <3>2, <3>3 DEF Alive, Entering, Deleting
  <2>2. CASE TimeOut1(t) \/ Release1(t)
    BY <1>0, <2>2 DEF TimeOut1, Release1, Goto, TypeOK, Alive, Deleting, NoOp
  <2>3. CASE TimeOut2(t) \/ Acquire1(t) \/ Enter(t) \/ CheckNew(t) \/ Write(t) \/ Register(t)
             \/ UnregisterItem(t)
    <3>1. pc[t] \notin {"idle", "open2"} /\ pc'[t] # "idle"
      BY <1>0, <2>3 DEF TimeOut2, Acquire1, Enter, CheckNew, Write, Register, UnregisterItem,
           SemWait, Goto, TypeOK
    <3>2. op'[t] = op[t] /\ h1'[t] = h1[t] /\ h2'[t] = h2[t]
      BY <1>0, <3>1, Others DEF Alive
    <3>k. op[t].kind \in OpKinds
      BY <1>0, <3>1, Types DEF Alive
    <3>m. pc[t] = "write" => op[t].kind = "create"
      BY <1>1, <3>k DEF OpKinds, Deleting, Entering
    <3>3. \/ pc'[t] \in Entering
          \/ op[t].kind = "create" /\ pc'[t] \in {"write", "register"}
          \/ op[t].kind = "deleteItem" /\ pc'[t] = "clear"
      <4>1. CASE TimeOut2(t) \/ Acquire1(t) \/ Enter(t) \/ Register(t)
        BY <1>0, <4>1 DEF TimeOut2, Acquire1, Enter, Register, SemWait, Goto, TypeOK, Entering
      <4>2. CASE CheckNew(t) \/ Write(t) \/ UnregisterItem(t)
        BY <1>0, <3>m, <4>2 DEF CheckNew, Write, UnregisterItem, Goto, TypeOK, Entering
      <4> QED
        BY <2>3, <4>1, <4>2
    <3> QED
      BY <1>1, <3>1, <3>2, <3>3 DEF Alive, Deleting, Entering
  <2>4. CASE CheckDeletable(t)
    <3>1. /\ pc[t] = "check" /\ op[t].kind = "deleteBase" /\ op'[t] = op[t] /\ h1'[t] = h1[t]
          /\ pc'[t] = IF contents[op[t].r] = {} THEN "unlink" ELSE "release1"
      BY <1>0, <2>4 DEF CheckDeletable, Goto, TypeOK
    <3>2. op[t].r \in contents[Parent[op[t].r]]
      BY <1>0, <3>1 DEF Findings, FindingsOf, Deleting
    <3> QED
      BY <1>1, <3>1, <3>2 DEF Alive, Deleting, Entering
  <2>5. CASE Open2(t)
    <3>1. /\ pc[t] = "open2" /\ pc'[t] = "wait2" /\ op'[t] = op[t] /\ h1'[t] = h1[t]
          /\ h2'[t] = Gen(Parent[op[t].r])
      BY <1>0, <2>5 DEF Open2, Goto, TypeOK
    <3>2. Parent[op[t].r] \in Containers
      BY <1>0, <3>1, Types DEF Alive
    <3> QED
      BY <1>1, <1>g, <3>1, <3>2 DEF Alive, Deleting, Entering
  <2>6. CASE Unlink(t) \/ Acquire2(t) \/ Unregister(t) \/ Release2(t) \/ Clear(t) \/ Mark(t)
    <3>1. /\ pc[t] \in {"unlink", "wait2", "unregister", "release2", "clear", "mark"}
          /\ pc'[t] \in {"open2", "unregister", "release2", "clear", "mark", "release1"}
          /\ pc[t] = "unlink" <=> pc'[t] = "open2"
          /\ pc[t] = "wait2" <=> pc'[t] = "unregister"
          /\ pc[t] = "unregister" <=> pc'[t] = "release2"
          /\ pc[t] = "release2" <=> pc'[t] = "clear"
          /\ pc[t] = "clear" <=> pc'[t] = "mark"
      BY <1>0, <2>6 DEF Unlink, Acquire2, Unregister, Release2, Clear, Mark, SemWait, Goto, TypeOK
    <3>2. op'[t] = op[t] /\ h1'[t] = h1[t] /\ h2'[t] = h2[t]
      BY <1>0, <3>1, Others DEF Alive
    <3>3. op[t].kind \in OpKinds
      BY <1>0, <3>1, Types DEF Alive
    <3> QED
      BY <1>1, <3>1, <3>2, <3>3 DEF Alive, Deleting, Entering, OpKinds
  <2> QED
    BY <2>1, <2>2, <2>3, <2>4, <2>5, <2>6 DEF Steps, Progress
<1> HIDE DEF ModesOf
<1>4. \A u \in Threads : ModesOf(u)'
  BY <1>2, <1>3
<1> QED
  BY <1>4 DEF ModesOf, Modes

LEMMA NextUndisturbed ==
  ASSUME QuietDelete, IInv, NEW t \in Threads, Steps(t)
  PROVE  Undisturbed'
<1>0. TypeOK /\ Modes /\ Undisturbed
  BY DEF IInv
<1>1. ASSUME ~(\E k \in OpKinds, r \in Resources : Start(t, k, r))
      PROVE  \A u \in Threads : Alive(u)' => Alive(u) /\ op'[u] = op[u]
  <2>1. Alive(t)
    BY <1>1, Running
  <2> QED
    BY <1>0, <2>1, Others DEF Alive
<1>2. ASSUME NEW k \in OpKinds, NEW r \in Resources, Start(t, k, r)
      PROVE  Undisturbed'
  <2>1. op'[t] = [kind |-> k, r |-> r] /\ Quiet(t, k, r)
    BY <1>0, <1>2 DEF Start, TypeOK
  <2>2. \A u \in Threads \ {t} : pc'[u] = pc[u] /\ op'[u] = op[u]
    BY <1>0, Others
  <2>3. \A u \in Threads \ {t} : Alive(u) =>
          /\ k = "deleteBase" => r \notin Uses(op[u].kind, op[u].r)
          /\ Deleting(u) => op[u].r \notin Uses(k, r)
    BY <2>1 DEF Quiet, Alive, Deleting
  <2> SUFFICES ASSUME NEW u \in Threads, NEW v \in Threads, u # v, Alive(u)', Alive(v)', Deleting(u)'
               PROVE  op'[u].r \notin Uses(op'[v].kind, op'[v].r)
    BY DEF Undisturbed
  <2>4. CASE u = t
    BY <2>1, <2>2, <2>3, <2>4 DEF Alive, Deleting
  <2>5. CASE v = t
    BY <2>1, <2>2, <2>3, <2>5 DEF Alive, Deleting
  <2>6. CASE u # t /\ v # t
    BY <1>0, <2>2, <2>6 DEF Alive, Deleting, Undisturbed
  <2> QED
    BY <2>4, <2>5, <2>6
<1>3. CASE ~(\E k \in OpKinds, r \in Resources : Start(t, k, r))
  BY <1>0, <1>1, <1>3 DEF Undisturbed, Deleting
<1> QED
  BY <1>2, <1>3

\* A step that takes and releases nothing.
LEMMA SameHolders ==
  ASSUME TypeOK, Modes, NEW t \in Threads, Steps(t),
         pc[t] \in {"idle", "wait1"} <=> pc'[t] \in {"idle", "wait1"},
         pc[t] \in {"unregister", "release2"} <=> pc'[t] \in {"unregister", "release2"}
  PROVE  \A u \in Threads, c \in Containers, g \in 1 .. MaxGen : Holds(u, c, g)' <=> Holds(u, c, g)
<1>1. ASSUME NEW u \in Threads \ {t}, NEW c \in Containers, NEW g \in 1 .. MaxGen
      PROVE  Holds(u, c, g)' <=> Holds(u, c, g)
  <2>1. pc'[u] = pc[u] /\ op'[u] = op[u] /\ h1'[u] = h1[u] /\ h2'[u] = h2[u]
    BY Others
  <2>2. First(u)' = First(u)
    BY <2>1 DEF First
  <2> QED
    BY <2>1, <2>2 DEF Holds
<1>2. ASSUME NEW c \in Containers, NEW g \in 1 .. MaxGen
      PROVE  Holds(t, c, g)' <=> Holds(t, c, g)
  <2>1. CASE pc[t] \in {"idle", "wait1"}
    <3>1. pc'[t] \in {"idle", "wait1"} /\ pc[t] \notin {"unregister", "release2"}
      BY <2>1
    <3> QED
      BY <2>1, <3>1 DEF Holds
  <2>2. CASE pc[t] \notin {"idle", "wait1"}
    <3>1. Alive(t) /\ Alive(t)'
      BY <2>2 DEF Alive
    <3>2. op'[t] = op[t] /\ h1'[t] = h1[t] /\ (pc[t] # "open2" => h2'[t] = h2[t])
      BY <3>1, Others
    <3>3. First(t)' = First(t)
      BY <3>2 DEF First
    <3> QED
      BY <2>2, <3>2, <3>3 DEF Holds
  <2> QED
    BY <2>1, <2>2
<1> QED
  BY <1>1, <1>2

\* What is about to be created does not exist, and is not being deleted.
LEMMA NotThere ==
  ASSUME IInv, NEW t \in Threads, pc[t] = "write"
  PROVE  /\ op[t].r \notin stored
         /\ \A u \in Threads : Alive(u) /\ op[u].r = op[t].r => ~Deleting(u)
<1> DEFINE r == op[t].r
<1>0. TypeOK /\ Modes /\ Undisturbed /\ Findings /\ Catalogue
  BY DEF IInv
<1>1. /\ Alive(t) /\ op[t].kind = "create" /\ r \in Resources
      /\ r \notin contents[Parent[r]] /\ Parent[r] \in Held(t)
  <2>1. Alive(t) /\ op[t].kind \in OpKinds /\ r \in Resources
    BY <1>0, Types DEF Alive
  <2>2. op[t].kind = "create"
    BY <1>0, <2>1 DEF Modes, OpKinds, Deleting, Entering
  <2> QED
    BY <1>0, <2>1, <2>2 DEF Findings, FindingsOf, Held, First
<1>2. ASSUME NEW u \in Threads, Alive(u), op[u].r = r PROVE ~Deleting(u)
  <2>1. CASE u = t
    BY <1>1, <2>1 DEF Deleting
  <2>2. CASE u # t
    BY <1>0, <1>1, <1>2, <2>2 DEF Undisturbed, Uses
  <2> QED
    BY <2>1, <2>2
<1>3. ~Halfway(r)
  <2> SUFFICES ASSUME NEW u \in Threads, op[u].r = r, pc[u] \in {"register", "release2", "clear"}
               PROVE  FALSE
    BY DEF Halfway
  <2>1. Alive(u) /\ ~Deleting(u)
    BY <1>2 DEF Alive
  <2>2. Parent[r] \in Held(u)
    BY <2>1 DEF Held, First, Deleting
  <2> QED
    BY <1>1, <2>2, Exclusive
<1>4. r \notin stored
  BY <1>0, <1>1, <1>3 DEF Catalogue
<1> QED
  BY <1>2, <1>4

\* Nobody holds, or is to hold, a base that is being created.
LEMMA NobodyThere ==
  ASSUME IInv, NEW t \in Threads, pc[t] = "write", op[t].r \in Bases
  PROVE  /\ \A u \in Threads : Alive(u) => First(u) # op[t].r
         /\ \A u \in Threads : pc[u] \in {"open2", "wait2", "unregister", "release2"} =>
              Parent[op[u].r] # op[t].r
<1> DEFINE r == op[t].r
<1>0. TypeOK /\ Modes /\ Findings /\ Catalogue
  BY DEF IInv
<1>2. \A u \in Threads : Alive(u) /\ op[u].r = r => ~Deleting(u)
  BY NotThere
<1>4. r \notin stored
  BY NotThere
<1>5. ASSUME NEW u \in Threads, Alive(u) PROVE First(u) # r
  <2>1. CASE Deleting(u)
    BY <1>2, <1>5, <2>1 DEF First, Deleting
  <2>2. CASE ~Deleting(u)
    BY <1>0, <1>4, <1>5, <2>2 DEF First, Deleting, Findings, FindingsOf
  <2> QED
    BY <2>1, <2>2
<1>6. ASSUME NEW u \in Threads, pc[u] \in {"open2", "wait2", "unregister", "release2"}
      PROVE  Parent[op[u].r] # r
  <2>1. Alive(u) /\ Deleting(u) /\ Parent[op[u].r] \in Containers
    <3>1. Alive(u)
      BY <1>6 DEF Alive
    <3>2. op[u].kind \in OpKinds /\ Parent[op[u].r] \in Containers
      BY <1>0, <3>1, Types
    <3> QED
      BY <1>0, <1>6, <3>1, <3>2 DEF Modes, OpKinds, Deleting, Entering
  <2>2. Parent[op[u].r] \in stored
    BY <1>0, <1>6, <2>1 DEF Findings, FindingsOf, Catalogue
  <2> QED
    BY <1>4, <2>2
<1> QED
  BY <1>5, <1>6

----------------------------------------------------------------------------
(* Semaphores *)

LEMMA Waited ==
  ASSUME IInv, NEW t \in Threads, Steps(t), NEW c \in Containers, NEW g \in 1 .. MaxGen,
         value[c][g] > 0,
         value' = [value EXCEPT ![c][g] = @ - 1],
         ~Holds(t, c, g), Holds(t, c, g)',
         \A d \in Containers, k \in 1 .. MaxGen :
           (d # c \/ k # g) => (Holds(t, d, k)' <=> Holds(t, d, k))
  PROVE  Semaphores'
<1>0. TypeOK /\ Modes /\ Semaphores
  BY DEF IInv
<1>1. ASSUME NEW u \in Threads \ {t}, NEW d \in Containers, NEW k \in 1 .. MaxGen
      PROVE  Holds(u, d, k)' <=> Holds(u, d, k)
  <2>1. pc'[u] = pc[u] /\ op'[u] = op[u] /\ h1'[u] = h1[u] /\ h2'[u] = h2[u]
    BY <1>0, Others
  <2>2. First(u)' = First(u)
    BY <2>1 DEF First
  <2> QED
    BY <2>1, <2>2 DEF Holds
<1>2. /\ value[c][g] = 1 /\ value'[c][g] = 0
      /\ \A u \in Threads : ~Holds(u, c, g)
      /\ \A d \in Containers, k \in 1 .. MaxGen : (d # c \/ k # g) => value'[d][k] = value[d][k]
  BY <1>0 DEF TypeOK, Semaphores
<1> SUFFICES ASSUME NEW d \in Containers, NEW k \in 1 .. MaxGen
             PROVE  /\ value'[d][k] = IF \E u \in Threads : Holds(u, d, k)' THEN 0 ELSE 1
                    /\ \A u, v \in Threads : Holds(u, d, k)' /\ Holds(v, d, k)' => u = v
  BY DEF Semaphores
<1>3. CASE d = c /\ k = g
  BY <1>1, <1>2, <1>3
<1>4. CASE d # c \/ k # g
  <2>1. \A u \in Threads : Holds(u, d, k)' <=> Holds(u, d, k)
    BY <1>1, <1>4
  <2>2. value[d][k] = IF \E u \in Threads : Holds(u, d, k) THEN 0 ELSE 1
    BY <1>0 DEF Semaphores
  <2>3. \A u, v \in Threads : Holds(u, d, k) /\ Holds(v, d, k) => u = v
    BY <1>0 DEF Semaphores
  <2> QED
    BY <1>2, <1>4, <2>1, <2>2, <2>3
<1> QED
  BY <1>3, <1>4

LEMMA Posted ==
  ASSUME IInv, NEW t \in Threads, Steps(t), NEW c \in Containers, NEW g \in 1 .. MaxGen,
         value' = [value EXCEPT ![c][g] = @ + 1],
         Holds(t, c, g), ~Holds(t, c, g)',
         \A d \in Containers, k \in 1 .. MaxGen :
           (d # c \/ k # g) => (Holds(t, d, k)' <=> Holds(t, d, k))
  PROVE  Semaphores'
<1>0. TypeOK /\ Modes /\ Semaphores
  BY DEF IInv
<1>1. ASSUME NEW u \in Threads \ {t}, NEW d \in Containers, NEW k \in 1 .. MaxGen
      PROVE  Holds(u, d, k)' <=> Holds(u, d, k)
  <2>1. pc'[u] = pc[u] /\ op'[u] = op[u] /\ h1'[u] = h1[u] /\ h2'[u] = h2[u]
    BY <1>0, Others
  <2>2. First(u)' = First(u)
    BY <2>1 DEF First
  <2> QED
    BY <2>1, <2>2 DEF Holds
<1>2. /\ value[c][g] = 0 /\ value'[c][g] = 1
      /\ \A u \in Threads \ {t} : ~Holds(u, c, g)
      /\ \A d \in Containers, k \in 1 .. MaxGen : (d # c \/ k # g) => value'[d][k] = value[d][k]
  <2>1. /\ value[c][g] = IF \E u \in Threads : Holds(u, c, g) THEN 0 ELSE 1
        /\ \A u, v \in Threads : Holds(u, c, g) /\ Holds(v, c, g) => u = v
    BY <1>0 DEF Semaphores
  <2>2. value[c][g] = 0 /\ \A u \in Threads \ {t} : ~Holds(u, c, g)
    BY <2>1
  <2> QED
    BY <1>0, <2>2 DEF TypeOK
<1> SUFFICES ASSUME NEW d \in Containers, NEW k \in 1 .. MaxGen
             PROVE  /\ value'[d][k] = IF \E u \in Threads : Holds(u, d, k)' THEN 0 ELSE 1
                    /\ \A u, v \in Threads : Holds(u, d, k)' /\ Holds(v, d, k)' => u = v
  BY DEF Semaphores
<1>3. CASE d = c /\ k = g
  BY <1>1, <1>2, <1>3
<1>4. CASE d # c \/ k # g
  <2>1. \A u \in Threads : Holds(u, d, k)' <=> Holds(u, d, k)
    BY <1>1, <1>4
  <2>2. value[d][k] = IF \E u \in Threads : Holds(u, d, k) THEN 0 ELSE 1
    BY <1>0 DEF Semaphores
  <2>3. \A u, v \in Threads : Holds(u, d, k) /\ Holds(v, d, k) => u = v
    BY <1>0 DEF Semaphores
  <2> QED
    BY <1>2, <1>4, <2>1, <2>2, <2>3
<1> QED
  BY <1>3, <1>4

\* Creating a base over the semaphore of that name does not disturb anybody.
LEMMA WriteValue ==
  ASSUME IInv, NEW t \in Threads, Write(t)
  PROVE  value' = value
<1>0. TypeOK /\ Modes /\ Semaphores
  BY DEF IInv
<1>1. CASE op[t].r \notin Bases
  BY <1>1 DEF Write, sems
<1>2. CASE op[t].r \in Bases
  <2> DEFINE b == op[t].r
  <2>1. pc[t] = "write" /\ SemOpen(b) /\ value' = [value EXCEPT ![b][Gen(b)] = 1]
    BY <1>2 DEF Write, CreateLock
  <2>2. b \in Containers /\ Gen(b) \in 1 .. MaxGen
    BY <1>0, <1>2, <2>1 DEF SemOpen, Gen, TypeOK, Containers
  <2>3. \A u \in Threads : ~Holds(u, b, Gen(b))
    BY <1>2, <2>1, NobodyThere DEF Holds, Alive
  <2>4. value[b][Gen(b)] = 1
    BY <1>0, <2>2, <2>3 DEF Semaphores
  <2>5. PICK d \in Containers, g \in 1 .. MaxGen :
          d = b /\ g = Gen(b) /\ value[d][g] = 1 /\ value' = [value EXCEPT ![d][g] = 1]
    BY <2>1, <2>2, <2>4
  <2>6. value[d] \in [1 .. MaxGen -> 0 .. 1] /\ value \in [Containers -> [1 .. MaxGen -> 0 .. 1]]
    BY <1>0 DEF TypeOK
  <2>7. [value[d] EXCEPT ![g] = 1] = value[d]
    BY <2>5, <2>6
  <2>8. value' = [value EXCEPT ![d] = value[d]]
    BY <2>5, <2>7
  <2> QED
    BY <2>6, <2>8
<1> QED
  BY <1>1, <1>2

LEMMA NextSemaphores ==
  ASSUME IInv, NEW t \in Threads, Steps(t)
  PROVE  Semaphores'
<1>0. TypeOK /\ Modes /\ Semaphores
  BY DEF IInv
<1>1. ASSUME value' = value,
             pc[t] \in {"idle", "wait1"} <=> pc'[t] \in {"idle", "wait1"},
             pc[t] \in {"unregister", "release2"} <=> pc'[t] \in {"unregister", "release2"}
      PROVE  Semaphores'
  <2>1. \A u \in Threads, c \in Containers, g \in 1 .. MaxGen : Holds(u, c, g)' <=> Holds(u, c, g)
    BY <1>0, <1>1, SameHolders
  <2> QED
    BY <1>0, <1>1, <2>1 DEF Semaphores
<1>2. CASE (\E k \in OpKinds, r \in Resources : Start(t, k, r)) \/ TimeOut1(t)
  BY <1>0, <1>1, <1>2 DEF Start, TimeOut1, Goto, TypeOK, sems
<1>3. CASE \/ TimeOut2(t) \/ Enter(t) \/ CheckNew(t) \/ Register(t) \/ UnregisterItem(t)
           \/ CheckDeletable(t)
  BY <1>0, <1>1, <1>3 DEF TimeOut2, Enter, CheckNew, Register, UnregisterItem, CheckDeletable,
     Goto, TypeOK, sems
<1>4. CASE Unlink(t) \/ Open2(t) \/ Unregister(t) \/ Clear(t) \/ Mark(t)
  BY <1>0, <1>1, <1>4 DEF Unlink, Open2, Unregister, Clear, Mark, Goto, TypeOK, sems
<1>5. CASE Write(t)
  <2>1. pc[t] = "write" /\ pc'[t] = "register"
    BY <1>0, <1>5 DEF Write, Goto, TypeOK
  <2> QED
    BY <1>1, <1>5, <2>1, WriteValue
<1>6. CASE Acquire1(t)
  <2>1. /\ pc[t] = "wait1" /\ pc'[t] = "enter" /\ op'[t] = op[t] /\ h1'[t] = h1[t]
        /\ value[First(t)][h1[t]] > 0 /\ value' = [value EXCEPT ![First(t)][h1[t]] = @ - 1]
    BY <1>0, <1>6 DEF Acquire1, SemWait, Goto, TypeOK
  <2>2. First(t) \in Containers /\ h1[t] \in 1 .. MaxGen
    BY <1>0, <2>1, Types DEF Alive
  <2>3. PICK c \in Containers, g \in 1 .. MaxGen : c = First(t) /\ g = h1[t]
    BY <2>2
  <2>4. First(t)' = First(t)
    BY <2>1 DEF First
  <2>5. \A d \in Containers, k \in 1 .. MaxGen :
          ~Holds(t, d, k) /\ (Holds(t, d, k)' <=> d = c /\ k = g)
    BY <2>1, <2>3, <2>4 DEF Holds
  <2>6. ~Holds(t, c, g) /\ Holds(t, c, g)'
    BY <2>5
  <2>7. \A d \in Containers, k \in 1 .. MaxGen :
          (d # c \/ k # g) => (Holds(t, d, k)' <=> Holds(t, d, k))
    BY <2>5
  <2> QED
    BY <2>1, <2>3, <2>6, <2>7, Waited
<1>7. CASE Release1(t)
  <2>1. /\ pc[t] = "release1" /\ pc'[t] = "idle"
        /\ value' = [value EXCEPT ![First(t)][h1[t]] = @ + 1]
    BY <1>0, <1>7 DEF Release1, SemPost, Goto, TypeOK
  <2>2. First(t) \in Containers /\ h1[t] \in 1 .. MaxGen
    BY <1>0, <2>1, Types DEF Alive
  <2>3. PICK c \in Containers, g \in 1 .. MaxGen : c = First(t) /\ g = h1[t]
    BY <2>2
  <2>4. \A d \in Containers, k \in 1 .. MaxGen :
          ~Holds(t, d, k)' /\ (Holds(t, d, k) <=> d = c /\ k = g)
    BY <2>1, <2>3 DEF Holds
  <2>5. Holds(t, c, g) /\ ~Holds(t, c, g)'
    BY <2>4
  <2>6. \A d \in Containers, k \in 1 .. MaxGen :
          (d # c \/ k # g) => (Holds(t, d, k)' <=> Holds(t, d, k))
    BY <2>4
  <2> QED
    BY <2>1, <2>3, <2>5, <2>6, Posted
<1>8. CASE Acquire2(t) \/ Release2(t)
  <2>0. PICK c, g : c = Parent[op[t].r] /\ g = h2[t]
    OBVIOUS
  <2>1. /\ pc[t] \in {"wait2", "release2"} /\ op'[t] = op[t] /\ h1'[t] = h1[t] /\ h2'[t] = h2[t]
        /\ pc[t] = "wait2" => /\ pc'[t] = "unregister"
                              /\ value[c][g] > 0 /\ value' = [value EXCEPT ![c][g] = @ - 1]
        /\ pc[t] = "release2" => /\ pc'[t] = "clear"
                                 /\ value' = [value EXCEPT ![c][g] = @ + 1]
    BY <1>0, <1>8, <2>0 DEF Acquire2, Release2, SemWait, SemPost, Goto, TypeOK
  <2>2. c \in Containers /\ g \in 1 .. MaxGen
    BY <1>0, <2>0, <2>1, Types DEF Alive
  <2>3. First(t) # c /\ First(t)' = First(t)
    <3>1. Alive(t) /\ op[t].kind \in OpKinds
      BY <1>0, <2>1, Types DEF Alive
    <3>2. Deleting(t)
      BY <1>0, <2>1, <3>1 DEF Modes, OpKinds, Deleting, Entering
    <3>3. First(t) = op[t].r /\ Parent[op[t].r] # op[t].r
      BY <1>0, <2>1, <3>2 DEF Modes, First, Deleting
    <3> QED
      BY <2>0, <2>1, <3>3 DEF First
  <2>4. \A d \in Containers, k \in 1 .. MaxGen :
          (d # c \/ k # g) => (Holds(t, d, k)' <=> Holds(t, d, k))
    BY <2>0, <2>1, <2>3 DEF Holds
  <2>5. pc[t] = "wait2" => ~Holds(t, c, g) /\ Holds(t, c, g)'
    BY <2>0, <2>1, <2>3 DEF Holds
  <2>6. pc[t] = "release2" => Holds(t, c, g) /\ ~Holds(t, c, g)'
    BY <2>0, <2>1, <2>3 DEF Holds
  <2>7. CASE pc[t] = "wait2"
    BY <2>1, <2>2, <2>4, <2>5, <2>7, Waited
  <2>8. CASE pc[t] = "release2"
    BY <2>1, <2>2, <2>4, <2>6, <2>8, Posted
  <2> QED
    BY <2>1, <2>7, <2>8
<1> QED
  BY <1>2, <1>3, <1>4, <1>5, <1>6, <1>7, <1>8 DEF Steps, Progress

----------------------------------------------------------------------------
(* Generations *)

LEMMA FirstIsUsed ==
  ASSUME TypeOK, Modes, NEW u \in Threads, Alive(u)
  PROVE  First(u) \in Uses(op[u].kind, op[u].r) /\ op[u].r \in Uses(op[u].kind, op[u].r)
  BY DEF First, Uses

\* What a thread has open stays so if the names of its semaphores do.
LEMMA OthersGenerations ==
  ASSUME IInv, NEW t \in Threads, Steps(t), NEW u \in Threads \ {t},
         Alive(u) => linked'[First(u)] = linked[First(u)],
         pc[u] \in {"wait2", "unregister", "release2"} =>
           linked'[Parent[op[u].r]] = linked[Parent[op[u].r]],
         PastUnlink(u) => contents'[op[u].r] = {}
  PROVE  GenerationsOf(u)'
<1>0. TypeOK /\ Modes /\ GenerationsOf(u)
  BY DEF IInv, Generations, GenerationsOf
<1>1. pc'[u] = pc[u] /\ op'[u] = op[u] /\ h1'[u] = h1[u] /\ h2'[u] = h2[u]
  BY <1>0, Others
<1>2. First(u)' = First(u) /\ (Alive(u)' <=> Alive(u)) /\ (Deleting(u)' <=> Deleting(u))
  BY <1>1 DEF First, Alive, Deleting
<1>3. Deleting(u) /\ Alive(u) => First(u) = op[u].r
  BY DEF First, Deleting
<1>4. PastUnlink(u) => Alive(u) /\ Deleting(u)
  BY DEF PastUnlink, Alive
<1>5. PastUnlink(u)' <=> PastUnlink(u)
  <2>1. Deleting(u) /\ Alive(u) => linked'[op[u].r] = linked[op[u].r]
    BY <1>3
  <2> QED
    BY <1>1, <1>2, <2>1 DEF PastUnlink, Alive
<1> QED
  BY <1>0, <1>1, <1>2, <1>3, <1>4, <1>5 DEF GenerationsOf

\* Opening a semaphore whose base is not being deleted.
LEMMA OpensGenerations ==
  ASSUME IInv, NEW t \in Threads, Steps(t), NEW c \in Containers, SemOpen(c),
         contents' = contents,
         \A u \in Threads \ {t} : PastUnlink(u) => op[u].r # c
  PROVE  /\ \A u \in Threads \ {t} : GenerationsOf(u)'
         /\ linked'[c] = Gen(c) /\ \A d \in Containers : linked[d] # 0 => linked'[d] = linked[d]
         /\ \A d \in Containers \ {c} : linked'[d] = linked[d]
<1>0. TypeOK /\ Modes /\ Generations
  BY DEF IInv
<1>1. /\ linked'[c] = Gen(c)
      /\ \A d \in Containers \ {c} : linked'[d] = linked[d]
      /\ linked[c] # 0 => linked'[c] = linked[c]
  BY <1>0 DEF SemOpen, Gen, TypeOK
<1>2. ASSUME NEW u \in Threads \ {t} PROVE GenerationsOf(u)'
  <2>1. ASSUME Alive(u) PROVE linked'[First(u)] = linked[First(u)]
    <3>1. First(u) \in Containers /\ h1[u] # 0
      BY <1>0, <2>1, Types DEF Modes
    <3>2. CASE PastUnlink(u)
      BY <1>1, <3>1, <3>2 DEF First, PastUnlink, Deleting
    <3>3. CASE ~PastUnlink(u)
      BY <1>0, <1>1, <2>1, <3>1, <3>3 DEF Generations, GenerationsOf
    <3> QED
      BY <3>2, <3>3
  <2>2. ASSUME pc[u] \in {"wait2", "unregister", "release2"}
        PROVE  linked'[Parent[op[u].r]] = linked[Parent[op[u].r]]
    <3>1. Alive(u)
      BY <2>2 DEF Alive
    <3>2. Parent[op[u].r] \in Containers /\ h2[u] # 0 /\ h2[u] = linked[Parent[op[u].r]]
      BY <1>0, <2>2, <3>1, Types DEF Modes, Generations, GenerationsOf
    <3> QED
      BY <1>1, <3>2
  <2>3. PastUnlink(u) => contents'[op[u].r] = {}
    BY <1>0 DEF Generations, GenerationsOf
  <2> QED
    BY <2>1, <2>2, <2>3, OthersGenerations
<1> QED
  BY <1>1, <1>2

\* Steps that change no name of a semaphore.
LEMMA KeepsGenerations ==
  ASSUME IInv, NEW t \in Threads, Steps(t), linked' = linked,
         \A u \in Threads \ {t} : PastUnlink(u) => contents'[op[u].r] \subseteq contents[op[u].r]
  PROVE  \A u \in Threads \ {t} : GenerationsOf(u)'
<1>1. \A u \in Threads \ {t} : PastUnlink(u) => contents'[op[u].r] = {}
  BY DEF IInv, Generations, GenerationsOf
<1> QED
  BY <1>1, OthersGenerations

LEMMA NextGenerations ==
  ASSUME QuietDelete, IInv, NEW t \in Threads, Steps(t)
  PROVE  Generations'
<1>0. TypeOK /\ Modes /\ Undisturbed /\ Generations /\ Findings /\ GenerationsOf(t)
  BY DEF IInv, Generations, GenerationsOf
<1> SUFFICES /\ \A u \in Threads \ {t} : GenerationsOf(u)'
             /\ GenerationsOf(t)'
  BY DEF Generations, GenerationsOf
<1>1. CASE \E k \in OpKinds, r \in Resources : Start(t, k, r)
  <2> PICK k \in OpKinds, r \in Resources : Start(t, k, r)
    BY <1>1
  <2>c. PICK c : c = IF k = "deleteBase" THEN r ELSE Parent[r]
    OBVIOUS
  <2>1. /\ c \in Containers /\ c \in Uses(k, r) /\ contents' = contents
        /\ SemOpen(c) /\ pc[t] = "idle" /\ pc'[t] = "wait1" /\ h1'[t] = Gen(c)
        /\ op'[t] = [kind |-> k, r |-> r] /\ Quiet(t, k, r)
    BY <1>0, <2>c DEF Start, Goto, TypeOK, store, Uses, Containers
  <2>2. \A u \in Threads \ {t} : PastUnlink(u) => op[u].r # c
    BY <2>1 DEF Quiet, PastUnlink, Deleting
  <2>3. /\ \A u \in Threads \ {t} : GenerationsOf(u)'
        /\ linked'[c] = Gen(c)
    BY <2>1, <2>2, OpensGenerations
  <2>4. First(t)' = c /\ ~PastUnlink(t)'
    BY <2>1, <2>c DEF First, PastUnlink
  <2> QED
    BY <2>1, <2>3, <2>4 DEF GenerationsOf
<1>2. CASE TimeOut1(t) \/ Release1(t)
  <2>1. linked' = linked /\ contents' = contents /\ pc'[t] = "idle"
    BY <1>0, <1>2 DEF TimeOut1, Release1, Goto, TypeOK, store, sems
  <2> QED
    BY <2>1, KeepsGenerations DEF GenerationsOf, Alive, PastUnlink
<1>3. CASE TimeOut2(t) \/ Acquire1(t) \/ Enter(t) \/ CheckNew(t) \/ CheckDeletable(t) \/ Mark(t)
           \/ Acquire2(t) \/ Release2(t)
  <2>1. /\ linked' = linked /\ contents' = contents /\ Alive(t) /\ Alive(t)'
        /\ pc[t] \in {"open2", "wait2", "unregister", "release2", "clear", "mark"} =>
             pc'[t] \in {"open2", "wait2", "unregister", "release2", "clear", "mark", "release1"}
        /\ pc[t] \notin {"open2", "wait2", "unregister", "release2", "clear", "mark", "release1"} =>
             pc'[t] \notin {"open2", "wait2", "unregister", "release2", "clear", "mark"}
        /\ pc'[t] \in {"wait2", "unregister", "release2"} =>
             pc[t] \in {"wait2", "unregister", "release2"}
        /\ pc[t] # "release1"
    BY <1>0, <1>3 DEF TimeOut2, Acquire1, Enter, CheckNew, CheckDeletable, Mark, Acquire2, Release2,
         SemWait, Goto, TypeOK, store, sems, Alive
  <2>2. op'[t] = op[t] /\ h1'[t] = h1[t] /\ (pc[t] # "open2" => h2'[t] = h2[t])
    BY <1>0, <2>1, Others
  <2>3. First(t)' = First(t) /\ (Deleting(t)' <=> Deleting(t)) /\ h1[t] # 0
    BY <1>0, <2>1, <2>2 DEF First, Deleting, Modes
  <2>4. Deleting(t) => First(t) = op[t].r
    BY DEF First, Deleting
  <2>5. PastUnlink(t)' <=> PastUnlink(t)
    BY <1>0, <2>1, <2>2, <2>3, <2>4 DEF PastUnlink, GenerationsOf
  <2>6. GenerationsOf(t)'
    BY <1>0, <2>1, <2>2, <2>3, <2>5 DEF GenerationsOf
  <2> QED
    BY <2>1, <2>6, KeepsGenerations
<1>4. CASE Register(t) \/ UnregisterItem(t)
  <2>1. /\ linked' = linked /\ pc[t] \in {"register", "check"} /\ pc'[t] \in {"release1", "clear"}
        /\ \A c \in Containers : c # First(t) => contents'[c] = contents[c]
        /\ op[t].kind \in {"create", "deleteItem"}
    <3>1. /\ linked' = linked /\ pc[t] \in {"register", "check"} /\ pc'[t] \in {"release1", "clear"}
          /\ \A c \in Containers : c # First(t) => contents'[c] = contents[c]
          /\ pc[t] = "check" => op[t].kind = "deleteItem"
      BY <1>0, <1>4 DEF Register, UnregisterItem, Goto, TypeOK, sems
    <3>2. op[t].kind \in OpKinds
      BY <1>0, <3>1, Types DEF Alive
    <3> QED
      BY <1>0, <3>1, <3>2 DEF Modes, OpKinds, Deleting, Entering
  <2>2. op'[t] = op[t] /\ h1'[t] = h1[t] /\ Alive(t) /\ ~Deleting(t)
    BY <1>0, <2>1, Others DEF Alive, Deleting
  <2>3. ASSUME NEW u \in Threads \ {t}, PastUnlink(u)
        PROVE  contents'[op[u].r] \subseteq contents[op[u].r]
    <3>1. Alive(u) /\ Deleting(u)
      BY <2>3 DEF PastUnlink, Alive
    <3>2. op[u].r \in Containers
      BY <1>0, <3>1 DEF Modes, Containers
    <3>3. op[u].r # First(t)
      BY <1>0, <2>2, <3>1, FirstIsUsed DEF Undisturbed
    <3> QED
      BY <2>1, <3>2, <3>3
  <2>4. GenerationsOf(t)'
    <3>1. First(t)' = First(t) /\ ~PastUnlink(t) /\ ~PastUnlink(t)'
      BY <2>2 DEF First, PastUnlink, Deleting
    <3> QED
      BY <1>0, <2>1, <2>2, <3>1 DEF GenerationsOf
  <2> QED
    BY <2>1, <2>3, <2>4, KeepsGenerations
<1>5. CASE Unregister(t) \/ Clear(t)
  <2>1. /\ linked' = linked
        /\ pc[t] \in {"unregister", "clear"} /\ pc'[t] \in {"release2", "mark"}
        /\ pc'[t] = "release2" => pc[t] = "unregister"
        /\ \A c \in Containers : contents'[c] \subseteq contents[c]
    <3>1. CASE Unregister(t)
      <4>1. \A c \in Containers : contents'[c] \subseteq contents[c]
        BY <1>0, <3>1 DEF Unregister, TypeOK
      <4> QED
        BY <1>0, <3>1, <4>1 DEF Unregister, Goto, TypeOK, sems
    <3>2. CASE Clear(t)
      <4>1. contents' = [c \in Containers |-> IF c = op[t].r THEN {} ELSE contents[c]]
        BY <3>2 DEF Clear
      <4>2. \A c \in Containers : contents'[c] \subseteq contents[c]
        BY <4>1
      <4> QED
        BY <1>0, <3>2, <4>2 DEF Clear, Goto, TypeOK, sems
    <3> QED
      BY <1>5, <3>1, <3>2
  <2>2. op'[t] = op[t] /\ h1'[t] = h1[t] /\ h2'[t] = h2[t] /\ Alive(t)
    BY <1>0, <2>1, Others DEF Alive
  <2>3. First(t)' = First(t) /\ (PastUnlink(t)' <=> PastUnlink(t))
    BY <2>1, <2>2 DEF First, PastUnlink, Deleting
  <2>4. \A u \in Threads : PastUnlink(u) => op[u].r \in Containers
    BY <1>0 DEF PastUnlink, Modes, Containers
  <2>5. GenerationsOf(t)'
    BY <1>0, <2>1, <2>2, <2>3, <2>4 DEF GenerationsOf, Alive
  <2> QED
    BY <2>1, <2>4, <2>5, KeepsGenerations
<1>6. CASE Write(t)
  <2>1. /\ pc[t] = "write" /\ pc'[t] = "register" /\ contents' = contents
    BY <1>0, <1>6 DEF Write, Goto, TypeOK
  <2>2. /\ op'[t] = op[t] /\ h1'[t] = h1[t] /\ Alive(t) /\ Alive(t)'
        /\ op[t].kind \in OpKinds /\ First(t) \in Containers
    BY <1>0, <2>1, Others, Types DEF Alive
  <2>3. First(t)' = First(t) /\ ~PastUnlink(t) /\ ~PastUnlink(t)' /\ h1[t] = linked[First(t)]
    <3>1. First(t)' = First(t) /\ ~PastUnlink(t) /\ ~PastUnlink(t)'
      BY <2>1, <2>2 DEF First, PastUnlink
    <3> QED
      BY <1>0, <2>2, <3>1 DEF GenerationsOf
  <2>4. CASE op[t].r \in Bases
    <3>1. SemOpen(op[t].r) /\ op[t].r \in Containers
      BY <1>6, <2>4 DEF Write, CreateLock, Containers
    <3>2. \A u \in Threads : Alive(u) => First(u) # op[t].r
      BY <2>1, <2>4, NobodyThere
    <3>3. \A u \in Threads \ {t} : PastUnlink(u) => op[u].r # op[t].r
      BY <3>2 DEF PastUnlink, First, Deleting, Alive
    <3>4. linked'[First(t)] = linked[First(t)]
      BY <2>2, <3>1, <3>2, <3>3, <2>1, OpensGenerations
    <3> QED
      BY <2>1, <2>2, <2>3, <3>1, <3>3, <3>4, OpensGenerations DEF GenerationsOf
  <2>5. CASE op[t].r \notin Bases
    <3>1. linked' = linked
      BY <1>6, <2>5 DEF Write, sems
    <3> QED
      BY <2>1, <2>2, <2>3, <3>1, KeepsGenerations DEF GenerationsOf
  <2> QED
    BY <2>4, <2>5
<1>7. CASE Open2(t)
  <2>c. PICK c : c = Parent[op[t].r]
    OBVIOUS
  <2>1. /\ pc[t] = "open2" /\ pc'[t] = "wait2" /\ contents' = contents /\ SemOpen(c)
        /\ h2'[t] = Gen(c)
    BY <1>0, <1>7, <2>c DEF Open2, Goto, TypeOK, store
  <2>2. /\ op'[t] = op[t] /\ h1'[t] = h1[t] /\ Alive(t) /\ Alive(t)'
        /\ op[t].kind \in OpKinds /\ c \in Containers
    BY <1>0, <2>1, <2>c, Others, Types DEF Alive
  <2>3. Deleting(t)
    BY <1>0, <2>1, <2>2 DEF Modes, OpKinds, Deleting, Entering
  <2>4. contents[c] # {} /\ op[t].r # c /\ op[t].r \in Containers
    BY <1>0, <2>1, <2>3, <2>c DEF Findings, FindingsOf, Modes, Containers
  <2>5. \A u \in Threads : PastUnlink(u) => op[u].r # c
    BY <1>0, <2>4 DEF Generations, GenerationsOf
  <2>6. /\ \A u \in Threads \ {t} : GenerationsOf(u)'
        /\ linked'[c] = Gen(c) /\ linked'[op[t].r] = linked[op[t].r]
    BY <2>1, <2>2, <2>4, <2>5, OpensGenerations
  <2>7. PastUnlink(t) /\ PastUnlink(t)'
    BY <2>1, <2>2, <2>3 DEF PastUnlink, Deleting
  <2>8. GenerationsOf(t)'
    BY <1>0, <2>1, <2>2, <2>c, <2>6, <2>7 DEF GenerationsOf
  <2> QED
    BY <2>6, <2>8
<1>8. CASE Unlink(t)
  <2>r. PICK r : r = op[t].r
    OBVIOUS
  <2>1. /\ pc[t] = "unlink" /\ pc'[t] = "open2" /\ contents' = contents
        /\ linked' = [linked EXCEPT ![r] = 0]
    BY <1>0, <1>8, <2>r DEF Unlink, Goto, TypeOK, store
  <2>2. /\ op'[t] = op[t] /\ h1'[t] = h1[t] /\ Alive(t) /\ op[t].kind \in OpKinds
    BY <1>0, <2>1, Others, Types DEF Alive
  <2>3. Deleting(t)
    BY <1>0, <2>1, <2>2 DEF Modes, OpKinds, Deleting, Entering
  <2>4. contents[r] = {} /\ r \in Containers /\ r \in Held(t)
    BY <1>0, <2>1, <2>3, <2>r DEF Findings, FindingsOf, Modes, Containers, Held, First, Deleting
  <2>5. ASSUME NEW u \in Threads \ {t} PROVE GenerationsOf(u)'
    <3>1. ASSUME Alive(u) PROVE linked'[First(u)] = linked[First(u)]
      <4>1. First(u) # r
        BY <1>0, <2>2, <2>3, <2>r, <3>1, FirstIsUsed DEF Undisturbed
      <4> QED
        BY <1>0, <2>1, <4>1 DEF TypeOK
    <3>2. ASSUME pc[u] \in {"wait2", "unregister", "release2"}
          PROVE  linked'[Parent[op[u].r]] = linked[Parent[op[u].r]]
      <4>1. Parent[op[u].r] # r
        <5>1. Alive(u) /\ op[u].kind \in OpKinds
          BY <1>0, <3>2, Types DEF Alive
        <5>2. Deleting(u)
          BY <1>0, <3>2, <5>1 DEF Modes, OpKinds, Deleting, Entering
        <5>3. CASE pc[u] \in {"wait2", "unregister"}
          BY <1>0, <2>4, <5>2, <5>3 DEF Findings, FindingsOf
        <5>4. CASE pc[u] = "release2"
          BY <2>4, <5>4, Exclusive DEF Held
        <5> QED
          BY <3>2, <5>3, <5>4
      <4> QED
        BY <1>0, <2>1, <4>1 DEF TypeOK
    <3>3. PastUnlink(u) => contents'[op[u].r] = {}
      BY <1>0, <2>1 DEF Generations, GenerationsOf
    <3> QED
      BY <3>1, <3>2, <3>3, OthersGenerations
  <2>6. GenerationsOf(t)'
    <3>1. PastUnlink(t)'
      BY <2>1, <2>2, <2>3 DEF PastUnlink, Deleting
    <3>2. linked'[r] = 0
      BY <1>0, <2>1, <2>4 DEF TypeOK
    <3> QED
      BY <2>1, <2>2, <2>r, <2>4, <3>1, <3>2 DEF GenerationsOf
  <2> QED
    BY <2>5, <2>6
<1> QED
  BY <1>1, <1>2, <1>3, <1>4, <1>5, <1>6, <1>7, <1>8 DEF Steps, Progress

----------------------------------------------------------------------------
(* The store *)

LEMMA Kinds ==
  ASSUME TypeOK, Modes, NEW t \in Threads, Alive(t)
  PROVE  /\ pc[t] \in {"write", "register"} => op[t].kind = "create"
         /\ pc[t] \in {"unlink", "open2", "wait2", "unregister", "release2"} => Deleting(t)
         /\ pc[t] \in {"clear", "mark"} /\ ~Deleting(t) => op[t].kind = "deleteItem"
         /\ op[t].kind = "deleteItem" => op[t].r \in Items
         /\ Deleting(t) => First(t) = op[t].r /\ op[t].r \in Bases
         /\ ~Deleting(t) => First(t) = Parent[op[t].r]
<1>1. op[t].kind \in OpKinds
  BY Types
<1> QED
  BY <1>1 DEF Modes, OpKinds, Deleting, Entering, First

\* What is cleared contains nothing any more.
LEMMA ClearsNothing ==
  ASSUME IInv, NEW t \in Threads, Clear(t)
  PROVE  contents' = contents
<1>0. TypeOK /\ Modes /\ Generations
  BY DEF IInv
<1>1. /\ pc[t] = "clear" /\ contents' = [c \in Containers |-> IF c = op[t].r THEN {} ELSE contents[c]]
  BY DEF Clear
<1>2. Alive(t) /\ op[t].r \in Resources
  BY <1>0, <1>1, Types DEF Alive
<1>3. op[t].r \in Containers => contents[op[t].r] = {}
  <2>1. CASE Deleting(t)
    BY <1>0, <1>1, <2>1 DEF Generations, GenerationsOf, PastUnlink
  <2>2. CASE ~Deleting(t)
    BY <1>0, <1>1, <1>2, <2>2, Kinds DEF Containers
  <2> QED
    BY <2>1, <2>2
<1> QED
  BY <1>0, <1>1, <1>3 DEF TypeOK

\* The five steps that write the store.
LEMMA StoreSteps ==
  ASSUME IInv, NEW t \in Threads, Steps(t)
  PROVE  /\ pc[t] = "write" =>
              pc'[t] = "register" /\ stored' = stored \cup {op[t].r} /\ contents' = contents
         /\ pc[t] = "register" =>
              /\ pc'[t] = "release1" /\ stored' = stored
              /\ contents' = [contents EXCEPT ![Parent[op[t].r]] = @ \cup {op[t].r}]
         /\ pc[t] = "unregister" \/ (pc[t] = "check" /\ op[t].kind = "deleteItem") =>
              /\ pc'[t] = IF pc[t] = "check" THEN "clear" ELSE "release2"
              /\ stored' = stored
              /\ contents' = [contents EXCEPT ![Parent[op[t].r]] = @ \ {op[t].r}]
         /\ pc[t] = "clear" =>
              pc'[t] = "mark" /\ stored' = stored \ {op[t].r} /\ contents' = contents
         /\ pc[t] \notin {"write", "register", "unregister", "clear"} /\
            ~(pc[t] = "check" /\ op[t].kind = "deleteItem") =>
              stored' = stored /\ contents' = contents
<1>0. TypeOK /\ Modes
  BY DEF IInv
<1>1. CASE Write(t)
  BY <1>0, <1>1 DEF Write, Goto, TypeOK
<1>2. CASE Register(t)
  <2>1. pc[t] = "register"
    BY <1>2 DEF Register
  <2>2. First(t) = Parent[op[t].r]
    BY <1>0, <2>1, Kinds DEF Alive, Deleting
  <2> QED
    BY <1>0, <1>2, <2>1, <2>2 DEF Register, Goto, TypeOK
<1>3. CASE UnregisterItem(t)
  <2>1. First(t) = Parent[op[t].r]
    BY <1>3 DEF UnregisterItem, First
  <2> QED
    BY <1>0, <1>3, <2>1 DEF UnregisterItem, Goto, TypeOK
<1>4. CASE Unregister(t)
  BY <1>0, <1>4 DEF Unregister, Goto, TypeOK
<1>5. CASE Clear(t)
  BY <1>0, <1>5, ClearsNothing DEF Clear, Goto, TypeOK
<1>6. CASE (\E k \in OpKinds, r \in Resources : Start(t, k, r)) \/ TimeOut1(t) \/ TimeOut2(t)
  BY <1>0, <1>6 DEF Start, TimeOut1, TimeOut2, store
<1>7. CASE Acquire1(t) \/ Enter(t) \/ CheckNew(t) \/ CheckDeletable(t) \/ Unlink(t) \/ Open2(t)
  BY <1>0, <1>7 DEF Acquire1, Enter, CheckNew, CheckDeletable, Unlink, Open2, SemWait, store
<1>8. CASE Acquire2(t) \/ Release2(t) \/ Mark(t) \/ Release1(t)
  BY <1>0, <1>8 DEF Acquire2, Release2, Mark, Release1, SemWait, store
<1> QED
  BY <1>1, <1>2, <1>3, <1>4, <1>5, <1>6, <1>7, <1>8 DEF Steps, Progress

----------------------------------------------------------------------------
(* Findings *)

\* A step leaves alone what the operations of other threads have found.
LEMMA OthersFindings ==
  ASSUME IInv, NEW t \in Threads, Steps(t), NEW u \in Threads \ {t}
  PROVE  FindingsOf(u)'
<1>0. TypeOK /\ Modes /\ Undisturbed /\ FindingsOf(u)
  BY DEF IInv, Findings, FindingsOf
<1>1. /\ pc'[u] = pc[u] /\ op'[u] = op[u]
      /\ (Alive(u)' <=> Alive(u)) /\ (Deleting(u)' <=> Deleting(u))
  BY <1>0, Others DEF Alive, Deleting
<1>2. CASE ~Alive(u)
  <2>1. ~Deleting(u)
    BY <1>0, <1>2 DEF Modes, Deleting, NoOp
  <2> QED
    BY <1>1, <1>2, <2>1 DEF FindingsOf, Alive
<1>3. CASE Alive(u) /\ stored' = stored /\ contents' = contents
  BY <1>0, <1>1, <1>3 DEF FindingsOf
<1>4. CASE Alive(u) /\ pc[t] = "write"
  <2>1. stored \subseteq stored' /\ contents' = contents
    BY <1>4, StoreSteps
  <2> QED
    BY <1>0, <1>1, <2>1 DEF FindingsOf
<1>5. ASSUME Alive(u), Alive(t), op[t].r = op[u].r, ~Deleting(t), ~Deleting(u),
             pc[t] \notin {"idle", "wait1"}, pc[u] \notin {"idle", "wait1"}
      PROVE  FALSE
  BY <1>0, <1>5, Exclusive, Kinds DEF Held
<1>6. ASSUME Alive(u), Alive(t), op[t].r = op[u].r, Deleting(t) \/ Deleting(u)
      PROVE  FALSE
  BY <1>0, <1>6, FirstIsUsed DEF Undisturbed
<1>p. Alive(u) => op[u].r \in Resources /\ Parent[op[u].r] \in Containers
  BY <1>0, Types
<1>7. CASE Alive(u) /\ pc[t] = "register"
  <2>1. /\ Alive(t) /\ op[t].kind = "create" /\ ~Deleting(t)
        /\ op[t].r \in Resources /\ Parent[op[t].r] \in Containers
    BY <1>0, <1>7, Kinds, Types DEF Alive, Deleting
  <2>2. stored' = stored /\ contents' = [contents EXCEPT ![Parent[op[t].r]] = @ \cup {op[t].r}]
    BY <1>7, StoreSteps
  <2>3. \A c \in Containers : contents[c] \subseteq contents'[c]
    BY <1>0, <2>1, <2>2 DEF TypeOK
  <2>4. pc[u] = "unlink" => contents'[op[u].r] = {}
    <3> HAVE pc[u] = "unlink"
    <3>1. Deleting(u) /\ op[u].r \in Containers
      BY <1>0, <1>7, Kinds DEF Containers
    <3>2. Parent[op[t].r] # op[u].r
      BY <1>0, <1>7, <2>1, <3>1 DEF Undisturbed, Uses
    <3> QED
      BY <1>0, <2>1, <2>2, <3>1, <3>2 DEF TypeOK, FindingsOf
  <2>5. pc[u] \in {"write", "release2", "clear"} => op[u].r \notin contents'[Parent[op[u].r]]
    <3> HAVE pc[u] \in {"write", "release2", "clear"}
    <3>1. op[u].r # op[t].r
      BY <1>5, <1>6, <1>7, <2>1
    <3>2. op[u].r \notin contents[Parent[op[u].r]]
      BY <1>0 DEF FindingsOf
    <3> QED
      BY <1>0, <1>p, <1>7, <2>1, <2>2, <3>1, <3>2 DEF TypeOK
  <2> QED
    BY <1>0, <1>1, <1>p, <1>7, <2>2, <2>3, <2>4, <2>5 DEF FindingsOf
<1>8. CASE Alive(u) /\ (pc[t] = "unregister" \/ (pc[t] = "check" /\ op[t].kind = "deleteItem"))
  <2>1. /\ Alive(t) /\ op[t].r \in Resources /\ Parent[op[t].r] \in Containers
    BY <1>0, <1>8, Types DEF Alive
  <2>2. stored' = stored /\ contents' = [contents EXCEPT ![Parent[op[t].r]] = @ \ {op[t].r}]
    BY <1>8, StoreSteps
  <2>3. \A c \in Containers : contents'[c] \subseteq contents[c]
    BY <1>0, <2>1, <2>2 DEF TypeOK
  <2>4. Deleting(u) => op[u].r # op[t].r
    BY <1>6, <1>8, <2>1
  <2>5. Deleting(u) /\ op[u].r \in contents[Parent[op[u].r]] => op[u].r \in contents'[Parent[op[u].r]]
    BY <1>0, <1>p, <1>8, <2>1, <2>2, <2>4 DEF TypeOK
  <2>6. pc[u] = "unlink" => op[u].r \in Containers
    BY <1>0, <1>8, Kinds DEF Containers
  <2> QED
    BY <1>0, <1>1, <1>p, <1>8, <2>2, <2>3, <2>5, <2>6 DEF FindingsOf
<1>9. CASE Alive(u) /\ pc[t] = "clear"
  <2>1. /\ Alive(t) /\ op[t].r \in Resources
    BY <1>0, <1>9, Types DEF Alive
  <2>2. contents' = contents /\ stored' = stored \ {op[t].r}
    BY <1>9, StoreSteps
  <2>3. Parent[op[u].r] = op[t].r => Deleting(t) /\ First(t) = op[t].r
    BY <1>0, <1>p, <1>9, <2>1, Kinds DEF Containers
  <2>4. ~Deleting(u) => Parent[op[u].r] # op[t].r
    BY <1>0, <1>9, <2>1, <2>3, Kinds, FirstIsUsed DEF Undisturbed
  <2>5. pc[u] = "release2" => Parent[op[u].r] # op[t].r
    BY <1>9, <2>3, Exclusive DEF Held
  <2>6. pc[u] = "register" => op[u].r # op[t].r
    BY <1>0, <1>5, <1>6, <1>9, <2>1
  <2> QED
    BY <1>0, <1>1, <1>9, <2>2, <2>4, <2>5, <2>6 DEF FindingsOf
<1> QED
  BY <1>2, <1>3, <1>4, <1>7, <1>8, <1>9, StoreSteps

LEMMA NextFindings ==
  ASSUME QuietDelete, IInv, NEW t \in Threads, Steps(t)
  PROVE  Findings'
<1>0. TypeOK /\ Modes /\ Undisturbed /\ Findings /\ FindingsOf(t) /\ Catalogue
  BY DEF IInv, Findings, FindingsOf
<1> SUFFICES FindingsOf(t)'
  BY OthersFindings DEF Findings, FindingsOf
<1>1. CASE \E k \in OpKinds, r \in Resources : Start(t, k, r)
  <2> PICK k \in OpKinds, r \in Resources : Start(t, k, r)
    BY <1>1
  <2>1. /\ stored' = stored /\ contents' = contents /\ pc'[t] = "wait1"
        /\ op'[t] = [kind |-> k, r |-> r] /\ Behalf(k, r) \in stored /\ Quiet(t, k, r)
        /\ pc[t] = "idle" /\ (k = "deleteItem" => r \in Items)
    BY <1>0 DEF Start, Goto, TypeOK, store
  <2>2. CASE k = "create"
    BY <2>1, <2>2 DEF FindingsOf, Behalf, Deleting
  <2>3. CASE k = "deleteItem"
    <3>1. r \in stored /\ Parent[r] \in Containers
      BY <2>1, <2>3 DEF Behalf
    <3>2. Parent[r] \in stored
      <4>1. CASE ~Halfway(r)
        BY <1>0, <3>1, <4>1 DEF Catalogue
      <4>2. CASE Halfway(r)
        <5>1. PICK u \in Threads : op[u].r = r /\ Alive(u)
          BY <4>2 DEF Halfway, Alive
        <5>2. ~Deleting(u)
          BY <1>0, <2>1, <2>3, <5>1 DEF Modes
        <5> QED
          BY <1>0, <5>1, <5>2 DEF Findings, FindingsOf
      <4> QED
        BY <4>1, <4>2
    <3> QED
      BY <2>1, <2>3, <3>2 DEF FindingsOf, Deleting
  <2>4. CASE k = "deleteBase"
    <3>1. ~Halfway(r)
      <4> SUFFICES ASSUME NEW u \in Threads, op[u].r = r, pc[u] \in {"register", "release2", "clear"}
                   PROVE  FALSE
        BY DEF Halfway
      <4>1. u # t /\ pc[u] # "idle"
        BY <2>1
      <4> QED
        BY <2>1, <2>4, <4>1 DEF Quiet, Uses
    <3>2. r \in stored
      BY <2>1, <2>4 DEF Behalf
    <3>3. r \in contents[Parent[r]]
      BY <1>0, <3>1, <3>2 DEF Catalogue
    <3> QED
      BY <2>1, <2>4, <3>3 DEF FindingsOf, Deleting
  <2> QED
    BY <2>2, <2>3, <2>4 DEF OpKinds
<1>2. CASE TimeOut1(t) \/ Release1(t)
  <2>1. pc'[t] = "idle"
    BY <1>0, <1>2 DEF TimeOut1, Release1, Goto, TypeOK
  <2> QED
    BY <2>1 DEF FindingsOf, Alive
<1>3. CASE \/ Acquire1(t) \/ Enter(t) \/ CheckNew(t) \/ CheckDeletable(t) \/ Unlink(t) \/ Open2(t)
           \/ Acquire2(t) \/ TimeOut2(t) \/ Release2(t) \/ Mark(t)
  <2>1. /\ Alive(t) /\ Alive(t)' /\ stored' = stored /\ contents' = contents
        /\ pc'[t] \in {"wait1", "enter", "check", "unlink", "open2", "wait2", "unregister"} =>
             pc[t] \in {"wait1", "enter", "check", "unlink", "open2", "wait2", "unregister"}
        /\ pc'[t] \notin {"release2", "register"}
        /\ pc'[t] = "clear" => pc[t] = "release2"
    <3>1. CASE \/ Acquire1(t) \/ Enter(t) \/ CheckNew(t) \/ CheckDeletable(t) \/ Unlink(t)
      BY <1>0, <3>1 DEF Acquire1, Enter, CheckNew, CheckDeletable, Unlink, SemWait, Goto, TypeOK,
         store, Alive
    <3>2. CASE \/ Open2(t) \/ Acquire2(t) \/ TimeOut2(t) \/ Release2(t) \/ Mark(t)
      BY <1>0, <3>2 DEF Open2, Acquire2, TimeOut2, Release2, Mark, SemWait, Goto, TypeOK,
         store, Alive
    <3> QED
      BY <1>3, <3>1, <3>2
  <2>2. op'[t] = op[t] /\ (Deleting(t)' <=> Deleting(t))
    BY <1>0, <2>1, Others DEF Deleting
  <2>3. pc'[t] = "unlink" => contents[op[t].r] = {}
    BY <1>0, <1>3 DEF Acquire1, Enter, CheckNew, CheckDeletable, Unlink, Open2, Acquire2,
       TimeOut2, Release2, Mark, SemWait, Goto, TypeOK
  <2>4. pc'[t] = "write" => op[t].r \notin contents[Parent[op[t].r]]
    <3> HAVE pc'[t] = "write"
    <3>1. CheckNew(t)
      BY <1>0, <1>3 DEF Acquire1, Enter, CheckNew, CheckDeletable, Unlink, Open2, Acquire2,
         TimeOut2, Release2, Mark, SemWait, Goto, TypeOK
    <3>2. First(t) = Parent[op[t].r]
      BY <3>1 DEF CheckNew, First
    <3> QED
      BY <1>0, <3>1, <3>2 DEF CheckNew, Goto, TypeOK
  <2> QED
    BY <1>0, <2>1, <2>2, <2>3, <2>4 DEF FindingsOf
<1>4. CASE Write(t) \/ Register(t) \/ UnregisterItem(t) \/ Unregister(t) \/ Clear(t)
  <2>1. /\ pc[t] \in {"write", "register", "check", "unregister", "clear"}
        /\ pc[t] = "check" => op[t].kind = "deleteItem"
    BY <1>4 DEF Write, Register, UnregisterItem, Unregister, Clear
  <2>2. /\ Alive(t) /\ op[t].r \in Resources /\ Parent[op[t].r] \in Containers
        /\ op[t].kind \in OpKinds
    BY <1>0, <2>1, Types DEF Alive
  <2>3. /\ op'[t] = op[t] /\ Alive(t)' /\ (Deleting(t)' <=> Deleting(t))
        /\ pc'[t] \in {"register", "release1", "clear", "release2", "mark"}
        /\ pc'[t] = "register" => pc[t] = "write"
        /\ pc'[t] = "release2" => pc[t] = "unregister"
        /\ pc'[t] = "clear" => pc[t] = "check"
    <3>1. /\ pc'[t] \in {"register", "release1", "clear", "release2", "mark"}
          /\ pc'[t] = "register" => pc[t] = "write"
          /\ pc'[t] = "release2" => pc[t] = "unregister"
          /\ pc'[t] = "clear" => pc[t] = "check"
      BY <2>1, StoreSteps
    <3> QED
      BY <1>0, <2>2, <3>1, Others DEF Alive, Deleting
  <2>4. ~Deleting(t) => Parent[op[t].r] \in stored'
    <3> HAVE ~Deleting(t)
    <3>1. Parent[op[t].r] \in stored
      BY <1>0, <2>2 DEF FindingsOf
    <3>2. pc[t] = "clear" => op[t].r # Parent[op[t].r]
      BY <1>0, <2>2, Kinds DEF Containers, Resources
    <3> QED
      BY <2>1, <3>1, <3>2, StoreSteps
  <2>5. pc'[t] = "release2" => /\ Parent[op[t].r] \in stored'
                               /\ op[t].r \notin contents'[Parent[op[t].r]]
    <3> HAVE pc'[t] = "release2"
    <3>1. /\ pc[t] = "unregister" /\ stored' = stored
          /\ contents' = [contents EXCEPT ![Parent[op[t].r]] = @ \ {op[t].r}]
      BY <2>3, StoreSteps
    <3>2. op[t].r \in contents[Parent[op[t].r]]
      BY <1>0, <2>2, <3>1, Kinds DEF FindingsOf
    <3>3. Parent[op[t].r] \in stored
      BY <1>0, <2>2, <3>2 DEF Catalogue
    <3> QED
      BY <1>0, <2>2, <3>1, <3>3 DEF TypeOK
  <2>6. pc'[t] = "clear" => op[t].r \notin contents'[Parent[op[t].r]]
    <3> HAVE pc'[t] = "clear"
    <3>1. contents' = [contents EXCEPT ![Parent[op[t].r]] = @ \ {op[t].r}]
      BY <2>1, <2>3, StoreSteps
    <3> QED
      BY <1>0, <2>2, <3>1 DEF TypeOK
  <2>7. pc'[t] = "register" => op[t].r \in stored'
    BY <2>3, StoreSteps
  <2> QED
    BY <2>3, <2>4, <2>5, <2>6, <2>7 DEF FindingsOf
<1> QED
  BY <1>1, <1>2, <1>3, <1>4 DEF Steps, Progress

----------------------------------------------------------------------------
(* Catalogue *)

LEMMA NextCatalogue ==
  ASSUME IInv, NEW t \in Threads, Steps(t)
  PROVE  Catalogue'
<1>0. TypeOK /\ Modes /\ Undisturbed /\ Findings /\ Catalogue
  BY DEF IInv
<1>r. PICK r : r = op[t].r
  OBVIOUS
<1>1. \A u \in Threads \ {t} : pc'[u] = pc[u] /\ op'[u] = op[u]
  BY <1>0, Others
\* Steps of t that leave it as far from the end of its operation.
<1>2. ASSUME stored' = stored, contents' = contents,
             pc'[t] \in {"register", "release2", "clear"} <=>
               pc[t] \in {"register", "release2", "clear"},
             Alive(t) => pc[t] \notin {"register", "release2", "clear"} \/ op'[t] = op[t]
      PROVE  Catalogue'
  <2>1. \A q \in Resources : Halfway(q)' <=> Halfway(q)
    BY <1>1, <1>2 DEF Halfway, Alive
  <2> QED
    BY <1>0, <1>2, <2>1 DEF Catalogue
\* Steps that change the status of the resource of the operation.
<1>3. ASSUME Alive(t), Alive(t)',
             pc'[t] \notin {"register", "release2", "clear"} =>
               (~Halfway(r)' => (r \in stored' <=> r \in contents'[Parent[r]]))
      PROVE  \A q \in Resources : ~Halfway(q)' => (q \in stored' <=> q \in contents'[Parent[q]])
  <2>1. op'[t].r = r /\ r \in Resources
    BY <1>0, <1>r, <1>3, Others, Types
  <2>2. ~Halfway(r)' => (r \in stored' <=> r \in contents'[Parent[r]])
    BY <1>r, <1>3, <2>1 DEF Halfway
  <2>3. ASSUME NEW q \in Resources, q # r
        PROVE  /\ Halfway(q)' <=> Halfway(q)
               /\ q \in stored' <=> q \in stored
               /\ q \in contents'[Parent[q]] <=> q \in contents[Parent[q]]
    <3>1. Halfway(q)' <=> Halfway(q)
      BY <1>1, <1>r, <2>1, <2>3 DEF Halfway
    <3>2. q \in stored' <=> q \in stored
      BY <1>r, <2>3, StoreSteps
    <3>3. q \in contents'[Parent[q]] <=> q \in contents[Parent[q]]
      <4>1. \/ contents' = contents
            \/ contents' = [contents EXCEPT ![Parent[r]] = @ \cup {r}]
            \/ contents' = [contents EXCEPT ![Parent[r]] = @ \ {r}]
        BY <1>r, StoreSteps
      <4>2. contents \in [Containers -> SUBSET Resources] /\ Parent[q] \in Containers
        BY <1>0 DEF TypeOK
      <4> QED
        BY <2>3, <4>1, <4>2
    <3> QED
      BY <3>1, <3>2, <3>3
  <2>4. \A q \in Resources : ~Halfway(q) => (q \in stored <=> q \in contents[Parent[q]])
    BY <1>0 DEF Catalogue
  <2> SUFFICES ASSUME NEW q \in Resources, ~Halfway(q)'
               PROVE  q \in stored' <=> q \in contents'[Parent[q]]
    OBVIOUS
  <2>5. CASE q = r
    BY <2>2, <2>5
  <2>6. CASE q # r
    BY <2>3, <2>4, <2>6
  <2> QED
    BY <2>5, <2>6
<1>4. CASE (\E k \in OpKinds, q \in Resources : Start(t, k, q)) \/ TimeOut1(t) \/ Release1(t)
  <2>1. pc[t] \in {"idle", "wait1", "release1"} /\ pc'[t] \in {"idle", "wait1"}
    BY <1>0, <1>4 DEF Start, TimeOut1, Release1, Goto, TypeOK
  <2>2. stored' = stored /\ contents' = contents
    BY <2>1, StoreSteps
  <2> QED
    BY <1>2, <2>1, <2>2
<1>5. CASE \/ Acquire1(t) \/ Enter(t) \/ CheckNew(t) \/ CheckDeletable(t) \/ Unlink(t) \/ Open2(t)
           \/ Acquire2(t) \/ TimeOut2(t) \/ Mark(t)
  <2>1. /\ pc[t] \in {"wait1", "enter", "check", "unlink", "open2", "wait2", "mark"}
        /\ pc[t] = "check" => op[t].kind # "deleteItem"
        /\ pc'[t] \in {"enter", "check", "write", "unlink", "open2", "wait2", "unregister", "release1"}
    BY <1>0, <1>5 DEF Acquire1, Enter, CheckNew, CheckDeletable, Unlink, Open2, Acquire2, TimeOut2,
       Mark, SemWait, Goto, TypeOK
  <2>2. stored' = stored /\ contents' = contents
    BY <2>1, StoreSteps
  <2> QED
    BY <1>2, <2>1, <2>2
<1>6. CASE Release2(t)
  <2>1. pc[t] = "release2" /\ pc'[t] = "clear"
    BY <1>0, <1>6 DEF Release2, Goto, TypeOK
  <2>2. stored' = stored /\ contents' = contents /\ op'[t] = op[t]
    BY <1>0, <2>1, StoreSteps, Others DEF Alive
  <2> QED
    BY <1>2, <2>1, <2>2
<1>7. CASE Write(t) \/ Register(t) \/ UnregisterItem(t) \/ Unregister(t) \/ Clear(t)
  <2>1. /\ pc[t] \in {"write", "register", "check", "unregister", "clear"}
        /\ pc[t] = "check" => op[t].kind = "deleteItem"
    BY <1>7 DEF Write, Register, UnregisterItem, Unregister, Clear
  <2>2. Alive(t) /\ r \in Resources /\ Parent[r] \in Containers
    BY <1>r, <1>0, <2>1, Types DEF Alive
  <2>3. pc'[t] \in {"register", "release1", "clear", "release2", "mark"}
    BY <2>1, StoreSteps
  <2>4. pc[t] = "register" => /\ r \in stored' /\ r \in contents'[Parent[r]]
                              /\ Parent[r] \in stored
    <3> HAVE pc[t] = "register"
    <3>1. stored' = stored /\ contents' = [contents EXCEPT ![Parent[r]] = @ \cup {r}]
      BY <1>r, StoreSteps
    <3>2. r \in stored /\ Parent[r] \in stored
      BY <1>r, <1>0, <2>2, Kinds DEF Findings, FindingsOf, Deleting
    <3> QED
      BY <1>0, <2>2, <3>1, <3>2 DEF TypeOK
  <2>5. pc[t] = "clear" => /\ r \notin stored' /\ r \notin contents'[Parent[r]]
    BY <1>r, <1>0, StoreSteps DEF Findings, FindingsOf
  <2>6. pc'[t] \notin {"register", "release2", "clear"} =>
          (~Halfway(r)' => (r \in stored' <=> r \in contents'[Parent[r]]))
    <3>1. pc[t] \in {"write", "check", "unregister"} => pc'[t] \in {"register", "release2", "clear"}
      BY <2>1, StoreSteps
    <3> QED
      BY <2>1, <2>4, <2>5, <3>1
  <2>7. \A q \in Resources : ~Halfway(q)' => (q \in stored' <=> q \in contents'[Parent[q]])
    <3>1. Alive(t)'
      BY <2>3 DEF Alive
    <3> QED
      BY <1>3, <2>2, <2>6, <3>1
  <2>8. ASSUME NEW c \in Containers, contents'[c] # {} PROVE c \in stored'
    <3>1. CASE pc[t] = "register"
      <4>1. stored' = stored /\ contents' = [contents EXCEPT ![Parent[r]] = @ \cup {r}]
        BY <1>r, <3>1, StoreSteps
      <4>2. c # Parent[r] => contents'[c] = contents[c]
        BY <1>0, <2>2, <4>1 DEF TypeOK
      <4> QED
        BY <1>0, <2>4, <2>8, <3>1, <4>1, <4>2 DEF Catalogue
    <3>2. CASE pc[t] = "clear"
      <4>1. stored' = stored \ {r} /\ contents' = contents
        BY <1>r, <3>2, StoreSteps
      <4>2. c # r
        <5>1. CASE Deleting(t)
          <6>1. contents[r] = {}
            BY <1>r, <3>2, <5>1 DEF IInv, Generations, GenerationsOf, PastUnlink
          <6> QED
            BY <2>8, <4>1, <6>1
        <5>2. CASE ~Deleting(t)
          <6>1. r \in Items
            BY <1>r, <1>0, <2>2, <3>2, <5>2, Kinds
          <6> QED
            BY <6>1 DEF Containers, Resources
        <5> QED
          BY <5>1, <5>2
      <4> QED
        BY <1>0, <2>8, <4>1, <4>2 DEF Catalogue
    <3>3. CASE pc[t] \in {"write", "unregister", "check"}
      <4>1. /\ stored \subseteq stored'
            /\ contents' = contents \/ contents' = [contents EXCEPT ![Parent[r]] = @ \ {r}]
        BY <1>r, <2>1, <3>3, StoreSteps
      <4>2. contents'[c] \subseteq contents[c]
        BY <1>0, <2>2, <4>1 DEF TypeOK
      <4> QED
        BY <1>0, <2>8, <4>1, <4>2 DEF Catalogue
    <3> QED
      BY <2>1, <3>1, <3>2, <3>3
  <2>9. ASSUME NEW c \in Containers, NEW q \in contents'[c] PROVE Parent[q] = c
    <3>1. \/ contents' = contents
          \/ contents' = [contents EXCEPT ![Parent[r]] = @ \cup {r}]
          \/ contents' = [contents EXCEPT ![Parent[r]] = @ \ {r}]
      BY <1>r, StoreSteps
    <3>2. q \in contents[c] \/ (c = Parent[r] /\ q = r)
      BY <1>0, <2>2, <2>9, <3>1 DEF TypeOK
    <3> QED
      BY <1>0, <3>2 DEF Catalogue
  <2> QED
    BY <2>7, <2>8, <2>9 DEF Catalogue
<1> QED
  BY <1>4, <1>5, <1>6, <1>7 DEF Steps, Progress

----------------------------------------------------------------------------
(* Objects *)

LEMMA Marks ==
  ASSUME TypeOK, Modes, NEW t \in Threads, Steps(t)
  PROVE  \/ object' = object
         \/ /\ Mark(t) /\ pc[t] = "mark" /\ pc'[t] = "release1"
            /\ object' = [object EXCEPT ![op[t].r] = @ + 1]
            /\ op[t].kind # "create"
<1>1. CASE Mark(t)
  <2>1. pc[t] = "mark" /\ pc'[t] = "release1" /\ object' = [object EXCEPT ![op[t].r] = @ + 1]
    BY <1>1 DEF Mark, Goto, TypeOK
  <2>2. op[t].kind # "create"
    BY <2>1 DEF Modes, Entering
  <2> QED
    BY <1>1, <2>1, <2>2
<1>2. CASE (\E k \in OpKinds, r \in Resources : Start(t, k, r)) \/ TimeOut1(t) \/ TimeOut2(t)
  BY <1>2 DEF Start, TimeOut1, TimeOut2
<1>3. CASE \/ Acquire1(t) \/ Enter(t) \/ CheckNew(t) \/ Write(t) \/ Register(t) \/ UnregisterItem(t)
           \/ CheckDeletable(t) \/ Unlink(t)
  BY <1>3 DEF Acquire1, Enter, CheckNew, Write, Register, UnregisterItem, CheckDeletable, Unlink
<1>4. CASE Open2(t) \/ Acquire2(t) \/ Unregister(t) \/ Release2(t) \/ Clear(t) \/ Release1(t)
  BY <1>4 DEF Open2, Acquire2, Unregister, Release2, Clear, Release1
<1> QED
  BY <1>1, <1>2, <1>3, <1>4 DEF Steps, Progress

LEMMA NextObjects ==
  ASSUME IInv, NEW t \in Threads, Steps(t)
  PROVE  Objects'
<1>0. TypeOK /\ Modes /\ Undisturbed /\ Objects
  BY DEF IInv
<1>1. \A u \in Threads \ {t} : pc'[u] = pc[u] /\ op'[u] = op[u] /\ obj'[u] = obj[u]
  BY <1>0, Others
<1>o. \A r \in Resources \cup {Root} : object[r] \in Nat
  BY <1>0 DEF TypeOK
<1>2. \A r \in Resources \cup {Root} : object[r] <= object'[r] /\ object'[r] \in Nat
  <2>1. CASE object' = object
    BY <1>o, <2>1
  <2>2. CASE object' = [object EXCEPT ![op[t].r] = @ + 1]
    BY <1>0, <1>o, <2>2 DEF TypeOK
  <2> QED
    BY <1>0, <2>1, <2>2, Marks
<1>b. \A u \in Threads : Alive(u) => /\ Behalf(op[u].kind, op[u].r) \in Resources \cup {Root}
                                     /\ op[u].r \in Resources /\ obj[u] \in Nat
  <2> SUFFICES ASSUME NEW u \in Threads, Alive(u)
               PROVE  /\ Behalf(op[u].kind, op[u].r) \in Resources \cup {Root}
                      /\ op[u].r \in Resources /\ obj[u] \in Nat
    OBVIOUS
  <2>1. op[u].r \in Resources /\ Parent[op[u].r] \in Containers
    BY <1>0, Types
  <2> QED
    BY <1>0, <2>1 DEF Behalf, Containers, Resources, TypeOK
<1> DEFINE Latest(u) == op[u].kind # "create" /\ pc[u] \notin {"wait1", "enter", "release1"} =>
                          obj[u] = object[op[u].r]
<1>3. \A u \in Threads : Alive(u) =>
        /\ obj[u] <= object[Behalf(op[u].kind, op[u].r)] /\ Latest(u)
  BY <1>0 DEF Objects
<1>4. ASSUME NEW u \in Threads \ {t}, Alive(u)
      PROVE  /\ obj'[u] <= object'[Behalf(op[u].kind, op[u].r)]
             /\ Latest(u)'
  <2>1. obj'[u] <= object'[Behalf(op[u].kind, op[u].r)]
    BY <1>1, <1>2, <1>3, <1>4, <1>b, <1>o
  <2>2. CASE object' = object
    BY <1>1, <1>3, <1>4, <2>1, <2>2
  <2>3. CASE object' # object
    <3>1. /\ pc[t] = "mark" /\ object' = [object EXCEPT ![op[t].r] = @ + 1] /\ op[t].kind # "create"
      BY <1>0, <2>3, Marks
    <3>2. ASSUME op[u].kind # "create", pc[u] \notin {"wait1", "enter", "release1"}
          PROVE  op[u].r # op[t].r
      <4>1. Alive(t)
        BY <3>1 DEF Alive
      <4>2. CASE Deleting(t) \/ Deleting(u)
        BY <1>0, <1>4, <4>1, <4>2, FirstIsUsed DEF Undisturbed
      <4>3. CASE ~Deleting(t) /\ ~Deleting(u) /\ op[u].r = op[t].r
        <5>1. First(t) = First(u)
          BY <4>3 DEF First, Deleting
        <5>2. First(t) \in Held(t) /\ First(u) \in Held(u)
          BY <1>4, <3>1, <3>2 DEF Held, Alive
        <5> QED
          BY <5>1, <5>2, Exclusive
      <4> QED
        BY <4>2, <4>3
    <3>3. Latest(u)'
      <4> SUFFICES ASSUME op[u].kind # "create", pc[u] \notin {"wait1", "enter", "release1"}
                   PROVE  obj[u] = object'[op[u].r]
        BY <1>1, <1>4
      <4>1. op[u].r # op[t].r /\ obj[u] = object[op[u].r] /\ op[u].r \in Resources
        BY <1>3, <1>4, <1>b, <3>2
      <4> QED
        BY <1>0, <3>1, <4>1 DEF TypeOK
    <3> QED
      BY <2>1, <3>3
  <2> QED
    BY <2>2, <2>3
<1>5. Alive(t)' => /\ obj'[t] <= object'[Behalf(op'[t].kind, op'[t].r)]
                   /\ Latest(t)'
  <2>1. CASE \E k \in OpKinds, r \in Resources : Start(t, k, r)
    <3> PICK k \in OpKinds, r \in Resources : Start(t, k, r)
      BY <2>1
    <3>1. /\ op'[t] = [kind |-> k, r |-> r] /\ pc'[t] = "wait1"
          /\ obj'[t] = object[Behalf(k, r)] /\ object' = object
      BY <1>0 DEF Start, Goto, TypeOK
    <3>2. Behalf(k, r) \in Resources \cup {Root}
      BY DEF Behalf, Containers, Resources
    <3> QED
      BY <1>o, <3>1, <3>2
  <2>2. CASE ~(\E k \in OpKinds, r \in Resources : Start(t, k, r))
    <3> HAVE Alive(t)'
    <3>1. Alive(t)
      BY <2>2, Running
    <3>2. op'[t] = op[t] /\ obj'[t] = obj[t]
      BY <1>0, <3>1, Others
    <3>3. obj'[t] <= object'[Behalf(op'[t].kind, op'[t].r)]
      BY <1>2, <1>3, <1>b, <1>o, <3>1, <3>2
    <3>4. Latest(t)'
      <4>1. CASE Enter(t)
        <5>1. /\ object' = object
              /\ pc'[t] # "release1" => ~(obj[t] < object[Behalf(op[t].kind, op[t].r)])
          BY <1>0, <4>1 DEF Enter, Goto, TypeOK
        <5>2. op[t].kind # "create" => Behalf(op[t].kind, op[t].r) = op[t].r
          BY DEF Behalf
        <5> QED
          BY <1>3, <1>b, <1>o, <3>1, <3>2, <5>1, <5>2
      <4>2. CASE Mark(t)
        BY <1>0, <4>2 DEF Mark, Goto, TypeOK
      <4>3. CASE ~Enter(t) /\ ~Mark(t)
        <5>1. object' = object
          BY <1>0, <4>3, Marks
        <5>2. pc[t] \in {"wait1", "enter", "release1"} => pc'[t] \in {"idle", "wait1", "enter", "release1"}
          BY <1>0, <2>2, <4>3 DEF Steps, Progress, TimeOut1, TimeOut2, Acquire1, CheckNew, Write,
             Register,
             UnregisterItem, CheckDeletable, Unlink, Open2, Acquire2, Unregister, Release2, Clear,
             Release1, SemWait, Goto, TypeOK
        <5> QED
          BY <1>3, <3>1, <3>2, <5>1, <5>2 DEF Alive
      <4> QED
        BY <4>1, <4>2, <4>3
    <3> QED
      BY <3>3, <3>4
  <2> QED
    BY <2>1, <2>2
<1> HIDE DEF Latest
<1>6. ASSUME NEW u \in Threads, Alive(u)'
      PROVE  obj'[u] <= object'[Behalf(op'[u].kind, op'[u].r)] /\ Latest(u)'
  <2>1. CASE u = t
    BY <1>5, <1>6, <2>1
  <2>2. CASE u # t
    BY <1>1, <1>4, <1>6, <2>2 DEF Alive
  <2> QED
    BY <2>1, <2>2
<1> QED
  BY <1>6 DEF Objects, Latest, Behalf

LEMMA NextCounted ==
  ASSUME IInv, NEW t \in Threads, Steps(t)
  PROVE  Counted'
<1>0. TypeOK /\ Modes /\ Counted
  BY DEF IInv
<1>1. \A u \in Threads \ {t} : u \in Unmarked' <=> u \in Unmarked
  BY <1>0, Others DEF Unmarked
<1>2. IsFiniteSet(Unmarked) /\ Cardinality(Unmarked) \in Nat
  BY <1>0, FS_CardinalityType DEF Counted
<1>o. /\ ops \in Nat /\ \A r \in Resources \cup {Root} : object[r] \in Nat
      /\ \A r \in Resources \cup {Root} : object[r] + Cardinality(Unmarked) <= ops
  BY <1>0 DEF TypeOK, Counted
<1>3. CASE \E k \in OpKinds, r \in Resources : Start(t, k, r)
  <2>1. /\ pc[t] = "idle" /\ pc'[t] = "wait1" /\ object' = object /\ ops' = ops + 1
    BY <1>0, <1>3 DEF Start, Goto, TypeOK
  <2>2. t \notin Unmarked /\ Unmarked' = Unmarked \cup {t}
    BY <1>1, <2>1 DEF Unmarked
  <2>3. IsFiniteSet(Unmarked') /\ Cardinality(Unmarked') = Cardinality(Unmarked) + 1
    BY <1>2, <2>2, FS_AddElement
  <2> QED
    BY <1>2, <1>o, <2>1, <2>3 DEF Counted
<1>4. CASE Mark(t)
  <2>1. /\ pc[t] = "mark" /\ pc'[t] = "release1" /\ object' = [object EXCEPT ![op[t].r] = @ + 1]
        /\ ops' = ops
    BY <1>0, <1>4 DEF Mark, Goto, TypeOK
  <2>2. t \in Unmarked /\ Unmarked' = Unmarked \ {t}
    BY <1>1, <2>1 DEF Unmarked
  <2>3. IsFiniteSet(Unmarked') /\ Cardinality(Unmarked') = Cardinality(Unmarked) - 1
    BY <1>2, <2>2, FS_RemoveElement
  <2>4. \A r \in Resources \cup {Root} : object'[r] \in Nat /\ object'[r] <= object[r] + 1
    BY <1>0, <1>o, <2>1 DEF TypeOK
  <2> QED
    BY <1>2, <1>o, <2>1, <2>3, <2>4 DEF Counted
<1>5. CASE ~(\E k \in OpKinds, r \in Resources : Start(t, k, r)) /\ ~Mark(t)
  <2>1. Alive(t) /\ (pc[t] = "release1" => pc'[t] \in {"idle", "release1"})
    BY <1>0, <1>5 DEF Steps, Progress, TimeOut1, TimeOut2, Acquire1, Enter, CheckNew, Write,
       Register,
       UnregisterItem, CheckDeletable, Unlink, Open2, Acquire2, Unregister, Release2, Clear,
       Release1, SemWait, Goto, TypeOK, Alive
  <2>2. object' = object /\ ops' = ops
    BY <1>0, <1>5, <2>1, Marks, Others
  <2>3. Unmarked' \subseteq Unmarked
    BY <1>1, <2>1 DEF Unmarked, Alive
  <2>4. /\ IsFiniteSet(Unmarked') /\ Cardinality(Unmarked') \in Nat
        /\ Cardinality(Unmarked') <= Cardinality(Unmarked)
    BY <1>2, <2>3, FS_Subset, FS_CardinalityType
  <2> QED
    BY <1>2, <1>o, <2>2, <2>4 DEF Counted
<1> QED
  BY <1>3, <1>4, <1>5

----------------------------------------------------------------------------
(* Types *)

LEMMA Opened ==
  ASSUME TypeOK, NEW c \in Containers, SemOpen(c)
  PROVE  /\ linked' \in [Containers -> 0 .. MaxGen] /\ lastGen' \in [Containers -> 0 .. MaxGen]
         /\ Gen(c) \in 1 .. MaxGen
<1>1. Gen(c) \in 1 .. MaxGen
  BY DEF TypeOK, SemOpen, Gen
<1>2. linked' = [linked EXCEPT ![c] = Gen(c)] /\ (lastGen' = [lastGen EXCEPT ![c] = Gen(c)] \/ lastGen' = lastGen)
  BY DEF TypeOK, SemOpen
<1> QED
  BY <1>1, <1>2 DEF TypeOK

LEMMA NextType ==
  ASSUME QuietDelete, IInv, NEW t \in Threads, Steps(t), Semaphores', Counted'
  PROVE  TypeOK'
<1>0. TypeOK /\ Modes /\ Objects
  BY DEF IInv
<1>t. Alive(t) => /\ op[t].r \in Resources /\ Parent[op[t].r] \in Containers /\ First(t) \in Containers
                  /\ h1[t] \in 1 .. MaxGen
                  /\ pc[t] \in {"wait2", "unregister", "release2"} => h2[t] \in 1 .. MaxGen
  BY <1>0, Types
<1>1. Root \in stored' /\ stored' \subseteq Resources \cup {Root}
  <2>1. Root \in stored /\ stored \subseteq Resources \cup {Root}
    BY <1>0 DEF TypeOK
  <2>2. CASE stored' = stored
    BY <2>1, <2>2
  <2>3. CASE stored' # stored
    <3>1. Alive(t) /\ (stored' = stored \cup {op[t].r} \/ stored' = stored \ {op[t].r})
      BY <2>3, StoreSteps DEF Alive
    <3>2. op[t].r \in Resources
      BY <1>t, <3>1
    <3> QED
      BY <2>1, <3>1, <3>2
  <2> QED
    BY <2>2, <2>3
<1>2. contents' \in [Containers -> SUBSET Resources]
  <2>1. CASE contents' = contents
    BY <1>0, <2>1 DEF TypeOK
  <2>2. CASE contents' # contents
    <3>1. Alive(t)
      BY <2>2, StoreSteps DEF Alive
    <3>2. \/ contents' = [contents EXCEPT ![Parent[op[t].r]] = @ \cup {op[t].r}]
          \/ contents' = [contents EXCEPT ![Parent[op[t].r]] = @ \ {op[t].r}]
      BY <2>2, StoreSteps
    <3>3. PICK r \in Resources, c \in Containers :
            \/ contents' = [contents EXCEPT ![c] = @ \cup {r}]
            \/ contents' = [contents EXCEPT ![c] = @ \ {r}]
      BY <1>t, <3>1, <3>2
    <3>4. contents \in [Containers -> SUBSET Resources]
      BY <1>0 DEF TypeOK
    <3> QED
      BY <3>3, <3>4
  <2> QED
    BY <2>1, <2>2
<1>3. linked' \in [Containers -> 0 .. MaxGen] /\ lastGen' \in [Containers -> 0 .. MaxGen]
  <2>1. CASE \E k \in OpKinds, r \in Resources : Start(t, k, r)
    <3>1. \E c \in Containers : SemOpen(c)
      BY <2>1 DEF Start, Containers
    <3> QED
      BY <1>0, <3>1, Opened
  <2>2. CASE Open2(t)
    <3>1. SemOpen(Parent[op[t].r]) /\ Alive(t)
      BY <2>2 DEF Open2, Alive
    <3> QED
      BY <1>0, <1>t, <3>1, Opened
  <2>3. CASE Write(t)
    <3>1. CASE op[t].r \in Bases
      BY <1>0, <2>3, <3>1, Opened DEF Write, CreateLock, Containers
    <3>2. CASE op[t].r \notin Bases
      BY <1>0, <2>3, <3>2 DEF Write, sems, TypeOK
    <3> QED
      BY <3>1, <3>2
  <2>4. CASE Unlink(t)
    <3>1. /\ linked \in [Containers -> 0 .. MaxGen] /\ lastGen \in [Containers -> 0 .. MaxGen]
          /\ linked' = [linked EXCEPT ![op[t].r] = 0] /\ lastGen' = lastGen
      BY <1>0, <2>4 DEF Unlink, TypeOK
    <3>2. 0 \in 0 .. MaxGen
      OBVIOUS
    <3> QED
      BY <3>1, <3>2
  <2>5. CASE \/ TimeOut1(t) \/ TimeOut2(t) \/ Acquire1(t) \/ Enter(t) \/ CheckNew(t) \/ Register(t)
             \/ UnregisterItem(t) \/ CheckDeletable(t)
    BY <1>0, <2>5 DEF TimeOut1, TimeOut2, Acquire1, Enter, CheckNew, Register, UnregisterItem,
       CheckDeletable, sems, TypeOK
  <2>6. CASE Acquire2(t) \/ Unregister(t) \/ Release2(t) \/ Clear(t) \/ Mark(t) \/ Release1(t)
    BY <1>0, <2>6 DEF Acquire2, Unregister, Release2, Clear, Mark, Release1, sems, TypeOK
  <2> QED
    BY <2>1, <2>2, <2>3, <2>4, <2>5, <2>6 DEF Steps, Progress
<1>4. value' \in [Containers -> [1 .. MaxGen -> 0 .. 1]]
  <2>1. \E c \in Containers, g \in 1 .. MaxGen :
          \/ value' = value
          \/ value' = [value EXCEPT ![c][g] = @ - 1]
          \/ value' = [value EXCEPT ![c][g] = @ + 1]
    <3>1. CASE Acquire1(t)
      BY <1>t, <3>1 DEF Acquire1, SemWait, Alive
    <3>2. CASE Acquire2(t)
      BY <1>t, <3>2 DEF Acquire2, SemWait, Alive
    <3>3. CASE Release2(t)
      BY <1>t, <3>3 DEF Release2, SemPost, Alive
    <3>4. CASE Release1(t)
      BY <1>t, <3>4 DEF Release1, SemPost, Alive
    <3>5. ASSUME value' = value PROVE \E c \in Containers, g \in 1 .. MaxGen : value' = value
      BY <3>5 DEF Containers
    <3>6. CASE \/ (\E k \in OpKinds, r \in Resources : Start(t, k, r))
               \/ TimeOut1(t) \/ TimeOut2(t) \/ Enter(t) \/ CheckNew(t) \/ Register(t)
               \/ UnregisterItem(t) \/ CheckDeletable(t)
      BY <3>5, <3>6 DEF Start, TimeOut1, TimeOut2, Enter, CheckNew, Register, UnregisterItem,
         CheckDeletable, sems
    <3>7. CASE Unlink(t) \/ Open2(t) \/ Unregister(t) \/ Clear(t) \/ Mark(t)
      BY <3>5, <3>7 DEF Unlink, Open2, Unregister, Clear, Mark, sems
    <3>8. CASE Write(t)
      BY <3>5, <3>8, WriteValue
    <3> QED
      BY <3>1, <3>2, <3>3, <3>4, <3>6, <3>7, <3>8 DEF Steps, Progress
  <2>2. value' \in [Containers -> [1 .. MaxGen -> Int]]
    <3>1. value \in [Containers -> [1 .. MaxGen -> Int]]
      BY <1>0 DEF TypeOK
    <3>2. PICK c \in Containers, g \in 1 .. MaxGen :
            \/ value' = value
            \/ value' = [value EXCEPT ![c][g] = @ - 1]
            \/ value' = [value EXCEPT ![c][g] = @ + 1]
      BY <2>1
    <3>3. /\ [value[c] EXCEPT ![g] = @ - 1] \in [1 .. MaxGen -> Int]
          /\ [value[c] EXCEPT ![g] = @ + 1] \in [1 .. MaxGen -> Int]
      BY <3>1
    <3> QED
      BY <3>1, <3>2, <3>3
  <2>3. \A c \in Containers, g \in 1 .. MaxGen : value'[c][g] \in 0 .. 1
    BY DEF Semaphores
  <2> QED
    BY <2>2, <2>3
<1>5. ops' \in 0 .. MaxOps
  <2>1. CASE \E k \in OpKinds, r \in Resources : Start(t, k, r)
    BY <1>0, <2>1 DEF Start, TypeOK
  <2>2. CASE ~(\E k \in OpKinds, r \in Resources : Start(t, k, r))
    <3>1. Alive(t)
      BY <2>2, Running
    <3> QED
      BY <1>0, <3>1, Others DEF TypeOK
  <2> QED
    BY <2>1, <2>2
<1>6. object' \in [Resources \cup {Root} -> 0 .. MaxOps]
  <2>1. object' \in [Resources \cup {Root} -> Nat]
    <3>1. object \in [Resources \cup {Root} -> Nat]
      BY <1>0 DEF TypeOK
    <3>2. object' = object \/ object' = [object EXCEPT ![op[t].r] = @ + 1]
      BY <1>0, Marks
    <3> QED
      BY <3>1, <3>2
  <2>2. Cardinality(Unmarked') \in Nat
    BY FS_CardinalityType DEF Counted
  <2>3. \A r \in Resources \cup {Root} : object'[r] + Cardinality(Unmarked') <= ops'
    BY DEF Counted
  <2> QED
    BY <1>5, <2>1, <2>2, <2>3
<1>7. CASE \E k \in OpKinds, r \in Resources : Start(t, k, r)
  <2> PICK k \in OpKinds, r \in Resources : Start(t, k, r)
    BY <1>7
  <2>1. PICK c \in Containers : SemOpen(c) /\ h1' = [h1 EXCEPT ![t] = Gen(c)]
    BY DEF Start, Containers
  <2>2. Gen(c) \in 1 .. MaxGen
    BY <1>0, <2>1, Opened
  <2>3. Behalf(k, r) \in Resources \cup {Root}
    BY DEF Behalf, Containers, Resources
  <2>4. h1' \in [Threads -> 0 .. MaxGen] /\ h2' \in [Threads -> 0 .. MaxGen]
    BY <1>0, <2>1, <2>2 DEF Start, TypeOK
  <2>5. obj' \in [Threads -> 0 .. MaxOps]
    BY <1>0, <2>3 DEF Start, TypeOK
  <2>6. pc' \in [Threads -> States] /\ op' \in [Threads -> [kind : OpKinds, r : Resources] \cup {NoOp}]
    BY <1>0 DEF Start, Goto, TypeOK, States
  <2> QED
    BY <1>1, <1>2, <1>3, <1>4, <1>5, <1>6, <2>4, <2>5, <2>6 DEF TypeOK
<1>8. CASE ~(\E k \in OpKinds, r \in Resources : Start(t, k, r))
  <2>1. pc' \in [Threads -> States]
    <3>1. \E s \in States : pc' = [pc EXCEPT ![t] = s]
      <4>1. CASE \/ TimeOut1(t) \/ TimeOut2(t) \/ Acquire1(t) \/ Enter(t) \/ CheckNew(t) \/ Register(t)
                 \/ UnregisterItem(t) \/ CheckDeletable(t) \/ Write(t)
        BY <4>1 DEF TimeOut1, TimeOut2, Acquire1, Enter, CheckNew, Register, UnregisterItem,
           CheckDeletable, Write, SemWait, Goto, States
      <4>2. CASE \/ Unlink(t) \/ Open2(t) \/ Acquire2(t) \/ Unregister(t) \/ Release2(t) \/ Clear(t)
                 \/ Mark(t) \/ Release1(t)
        BY <4>2 DEF Unlink, Open2, Acquire2, Unregister, Release2, Clear, Mark, Release1, SemWait,
           Goto, States
      <4> QED
        BY <1>8, <4>1, <4>2 DEF Steps, Progress
    <3> QED
      BY <1>0, <3>1 DEF TypeOK
  <2>2. op' \in [Threads -> [kind : OpKinds, r : Resources] \cup {NoOp}]
    <3>1. op' = op \/ op' = [op EXCEPT ![t] = NoOp]
      BY <1>8 DEF Steps, Progress, TimeOut1, TimeOut2, Acquire1, Enter, CheckNew, Write, Register,
         UnregisterItem, CheckDeletable, Unlink, Open2, Acquire2, Unregister, Release2, Clear, Mark,
         Release1
    <3> QED
      BY <1>0, <3>1 DEF TypeOK
  <2>3. obj' = obj /\ h1' = h1
    BY <1>8 DEF Steps, Progress, TimeOut1, TimeOut2, Acquire1, Enter, CheckNew, Write, Register,
       UnregisterItem, CheckDeletable, Unlink, Open2, Acquire2, Unregister, Release2, Clear, Mark,
       Release1
  <2>4. h2' \in [Threads -> 0 .. MaxGen]
    <3>1. CASE Open2(t)
      <4>1. SemOpen(Parent[op[t].r]) /\ Alive(t) /\ h2' = [h2 EXCEPT ![t] = Gen(Parent[op[t].r])]
        BY <3>1 DEF Open2, Alive
      <4>2. Gen(Parent[op[t].r]) \in 1 .. MaxGen
        BY <1>0, <1>t, <4>1, Opened
      <4> QED
        BY <1>0, <4>1, <4>2 DEF TypeOK
    <3>2. CASE ~Open2(t)
      <4>1. h2' = h2
        BY <1>8, <3>2 DEF Steps, Progress, TimeOut1, TimeOut2, Acquire1, Enter, CheckNew, Write,
           Register,
           UnregisterItem, CheckDeletable, Unlink, Acquire2, Unregister, Release2, Clear, Mark,
           Release1
      <4> QED
        BY <1>0, <4>1 DEF TypeOK
    <3> QED
      BY <3>1, <3>2
  <2> QED
    BY <1>0, <1>1, <1>2, <1>3, <1>4, <1>5, <1>6, <2>1, <2>2, <2>3, <2>4 DEF TypeOK
<1> QED
  BY <1>7, <1>8

----------------------------------------------------------------------------
(* The theorems *)

LEMMA Inductive ==
  ASSUME QuietDelete, IInv, [Next]_vars
  PROVE  IInv'
<1>1. CASE Next
  <2> PICK t \in Threads : Steps(t)
    BY <1>1 DEF Next, Steps
  <2>1. /\ Modes' /\ Undisturbed' /\ Semaphores' /\ Generations' /\ Findings' /\ Catalogue'
        /\ Objects' /\ Counted'
    BY NextModes, NextUndisturbed, NextSemaphores, NextGenerations, NextFindings, NextCatalogue,
       NextObjects, NextCounted
  <2>2. TypeOK'
    BY <2>1, NextType
  <2> QED
    BY <2>1, <2>2 DEF IInv
<1>2. CASE UNCHANGED vars
  BY <1>2 DEF vars, store, sems, IInv, TypeOK, Modes, Undisturbed, Semaphores, Generations,
     GenerationsOf, Findings, FindingsOf, Catalogue, Objects, Counted, Unmarked, Halfway, Holds, PastUnlink, First, Alive, Deleting
<1> QED
  BY <1>1, <1>2

\* The strengthened invariant: with QuietDelete, the semaphore that a name leads
\* to is the one that whoever holds the container has open.
THEOREM Invariance == QuietDelete => (Spec => []IInv)
<1> SUFFICES ASSUME QuietDelete PROVE Spec => []IInv
  OBVIOUS
<1>1. Init => IInv
  BY Initially
<1>2. IInv /\ [Next]_vars => IInv'
  BY Inductive
<1> QED
  BY <1>1, <1>2, PTL DEF Spec

\* Variables keep their types: in particular a semaphore never exceeds 1, even
\* when create_lock forces its value, and a base is never deleted more often
\* than operations have started.
THEOREM TypeCorrect == QuietDelete => (Spec => []TypeOK)
<1>1. IInv => TypeOK
  BY DEF IInv
<1> QED
  BY <1>1, Invariance, PTL

\* No two threads are in charge of one container (WithLockMixin.lock), although
\* semaphores are unlinked and created again.
THEOREM InChargeCorrect == QuietDelete => (Spec => []OneInCharge)
<1>1. IInv => OneInCharge
  BY Exclusive DEF OneInCharge
<1> QED
  BY <1>1, Invariance, PTL

\* What the store holds is what the containers say they contain, outside of the
\* operations on it: post_graph and delete never stop half way.
THEOREM CatalogueCorrect == QuietDelete => (Spec => []StoredIffRegistered)
<1>1. \A r \in Resources : Halfway(r) => Busy(r)
  BY DEF Halfway, Busy
<1>2. IInv => StoredIffRegistered
  BY <1>1 DEF IInv, Catalogue, StoredIffRegistered
<1> QED
  BY <1>2, Invariance, PTL

\* No resource outlives its container.
THEOREM NoOrphanCorrect == QuietDelete => (Spec => []NoOrphan)
<1>1. \A r \in Resources : Halfway(r) => Busy(r)
  BY DEF Halfway, Busy
<1>2. IInv => NoOrphan
  BY <1>1 DEF IInv, Catalogue, NoOrphan
<1> QED
  BY <1>2, Invariance, PTL

\* Only an empty base can be deleted: when a base goes, it contains nothing,
\* and nothing it contains is being created.
THEOREM EmptyBaseCorrect == QuietDelete => (Spec => OnlyEmptyBaseDeleted)
<1> SUFFICES ASSUME QuietDelete PROVE Spec => OnlyEmptyBaseDeleted
  OBVIOUS
<1> DEFINE Emptied == \A b \in Bases : b \in stored /\ b \notin stored' =>
                        /\ contents[b] = {}
                        /\ \A r \in Resources : Parent[r] = b => r \notin stored \/ Busy(r)
<1>1. IInv /\ [Next]_vars => [Emptied]_vars
  <2> SUFFICES ASSUME IInv, Next, NEW b \in Bases, b \in stored, b \notin stored'
               PROVE  /\ contents[b] = {}
                      /\ \A r \in Resources : Parent[r] = b => r \notin stored \/ Busy(r)
    OBVIOUS
  <2>0. TypeOK /\ Modes /\ Generations /\ Catalogue
    BY DEF IInv
  <2> PICK t \in Threads : Steps(t)
    BY DEF Next, Steps
  <2>1. pc[t] = "clear" /\ op[t].r = b
    BY StoreSteps
  <2>2. Deleting(t)
    BY <2>0, <2>1, Kinds DEF Alive
  <2>3. contents[b] = {}
    BY <2>0, <2>1, <2>2 DEF Generations, GenerationsOf, PastUnlink
  <2>4. ASSUME NEW r \in Resources, Parent[r] = b, ~Busy(r) PROVE r \notin stored
    <3>1. ~Halfway(r)
      BY <2>4 DEF Halfway, Busy
    <3> QED
      BY <2>0, <2>3, <2>4, <3>1 DEF Catalogue
  <2> QED
    BY <2>3, <2>4
<1> QED
  BY <1>1, Invariance, PTL DEF Spec, OnlyEmptyBaseDeleted

\* A resource that is in the store is not created again over itself
\* (check_posted_graph looks in the container only).
THEOREM CreatedOnceCorrect == QuietDelete => (Spec => CreatedOnce)
<1> SUFFICES ASSUME QuietDelete PROVE Spec => CreatedOnce
  OBVIOUS
<1>1. IInv => \A t \in Threads : pc[t] = "write" => op[t].r \notin stored
  BY NotThere
<1>2. IInv /\ [Next]_vars =>
        [\A t \in Threads : pc[t] = "write" /\ pc'[t] = "register" => op[t].r \notin stored]_vars
  BY <1>1
<1> QED
  BY <1>2, Invariance, PTL DEF Spec, CreatedOnce

\* A deletion clears the resource it was asked to delete, not another one
\* created under its name while it waited (the test at lock.py:129).
THEOREM DeletesCorrect == QuietDelete => (Spec => DeletesWhatWasAsked)
<1> SUFFICES ASSUME QuietDelete PROVE Spec => DeletesWhatWasAsked
  OBVIOUS
<1>1. ASSUME IInv, NEW t \in Threads, pc[t] = "clear" PROVE obj[t] = object[op[t].r]
  <2>0. TypeOK /\ Modes /\ Objects
    BY <1>1 DEF IInv
  <2>1. Alive(t) /\ op[t].kind # "create"
    BY <1>1, <2>0, Kinds DEF Alive, Deleting
  <2> QED
    BY <1>1, <2>0, <2>1 DEF Objects
<1>2. IInv /\ [Next]_vars =>
        [\A t \in Threads : pc[t] = "clear" /\ pc'[t] = "mark" => obj[t] = object[op[t].r]]_vars
  BY <1>1
<1> QED
  BY <1>2, Invariance, PTL DEF Spec, DeletesWhatWasAsked
=============================================================================
