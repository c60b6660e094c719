---------------------------- MODULE BaseLifecycle ----------------------------
(***************************************************************************)
(* Creation and deletion of the resources of a kTBS by the threads of one  *)
(* process: bases in the root, bases and items (models, methods, traces,   *)
(* data graphs) in bases.                                                  *)
(*                                                                         *)
(*   post_graph   locks the container, checks that the URI is unused in    *)
(*                it, stores the new resource, registers it.               *)
(*   InBase.delete locks the base, unregisters the item, clears it.        *)
(*   Base.delete  locks the base, checks that it is empty, UNLINKS its     *)
(*                semaphore, locks the parent, unregisters the base,       *)
(*                clears it, marks the python object as deleted.           *)
(*                                                                         *)
(* A semaphore that has been unlinked lives on for the threads that have   *)
(* it open, while sem_open creates a new one of value 1: value[r] keeps    *)
(* one value per generation.  Reentering a lock one holds is ResourceLock's*)
(* business; here the edits nested in a lock are part of the step.         *)
(*                                                                         *)
(* QuietDelete = TRUE restricts the clients: nobody uses a base, or        *)
(* creates a resource of that name, while the base is being deleted.  The  *)
(* code does not enforce it; it is what the code needs.                    *)
(***************************************************************************)
EXTENDS Naturals, FiniteSets

CONSTANTS
  Threads,
  Root,          \* the KtbsRoot, which always exists
  Bases,
  Items,
  Parent,        \* the container of each base and item
  QuietDelete,   \* the clients' discipline, see above
  MaxOps,        \* bound: operations started
  MaxGen,        \* bound: generations of the semaphore of a base
  Nothing        \* no resource

Resources == Bases \cup Items
Containers == Bases \cup {Root}

ASSUME ParentAssumption ==
  /\ Parent \in [Resources -> Containers]
  /\ Root \notin Resources
  /\ Bases \cap Items = {}
ASSUME QuietAssumption == QuietDelete \in BOOLEAN
ASSUME LifecycleBounds == MaxOps \in Nat /\ MaxGen \in Nat \ {0}

VARIABLES
  stored,    \* resources whose graph and metadata are in the store
  contents,  \* ktbs:hasBase and ktbs:contains arcs of each container's graph
  linked,    \* generation the name of each semaphore leads to, 0 if unlinked
  lastGen,   \* generations created so far
  value,     \* value of each generation of each semaphore
  object,    \* python object of each resource; the ones below it are deleted
  pc,        \* where each thread is
  op,        \* the operation it executes and its resource
  obj,       \* the python object it locks on behalf of
  h1, h2,    \* the generations it has open: first lock, lock of the parent
  ops        \* operations started

store == <<stored, contents>>
sems  == <<linked, lastGen, value>>
vars == <<store, sems, object, pc, op, obj, h1, h2, ops>>

NoOp == [kind |-> "none", r |-> Nothing]
OpKinds == {"create", "deleteItem", "deleteBase"}
States == {"idle", "wait1", "enter", "check", "write", "register", "unlink",
           "open2", "wait2", "unregister", "release2", "clear", "mark", "release1"}

\* The resource whose lock the operation takes first.
First(t) == IF op[t].kind = "deleteBase" THEN op[t].r ELSE Parent[op[t].r]

\* The resource on behalf of which it takes it (the argument of lock()).
Behalf(k, r) == IF k = "create" THEN Parent[r] ELSE r

Init ==
  /\ stored = {Root}
  /\ contents = [c \in Containers |-> {}]
  /\ linked = [c \in Containers |-> IF c = Root THEN 1 ELSE 0]
  /\ lastGen = linked
  /\ value = [c \in Containers |-> [g \in 1 .. MaxGen |-> 1]]
  /\ object = [r \in Resources \cup {Root} |-> 0]
  /\ pc = [t \in Threads |-> "idle"]
  /\ op = [t \in Threads |-> NoOp]
  /\ obj = [t \in Threads |-> 0]
  /\ h1 = [t \in Threads |-> 0]
  /\ h2 = [t \in Threads |-> 0]
  /\ ops = 0

Goto(t, s) == pc' = [pc EXCEPT ![t] = s]

\* sem_open(name, O_CREAT, 1).  A new generation starts with value 1, which
\* value already holds for the generations to come.
Gen(c) == IF linked[c] = 0 THEN lastGen[c] + 1 ELSE linked[c]
SemOpen(c) ==
  /\ Gen(c) <= MaxGen
  /\ linked' = [linked EXCEPT ![c] = Gen(c)]
  /\ lastGen' = [lastGen EXCEPT ![c] = IF linked[c] = 0 THEN Gen(c) ELSE @]

SemPost(c, g) == value' = [value EXCEPT ![c][g] = @ + 1]

\* sem_wait, in the state s of a thread.
SemWait(t, c, g, s, next) ==
  /\ pc[t] = s
  /\ value[c][g] > 0
  /\ value' = [value EXCEPT ![c][g] = @ - 1]
  /\ Goto(t, next)

----------------------------------------------------------------------------
(* Starting an operation *)

\* The bases an operation relies on from start to end.
Uses(k, r) == IF k = "deleteBase" THEN {r} ELSE {Parent[r], r}

\* What the deletion of a base must not meet, under QuietDelete.
Quiet(t, k, r) ==
  QuietDelete =>
    \A u \in Threads \ {t} : pc[u] # "idle" =>
      /\ k = "deleteBase" => r \notin Uses(op[u].kind, op[u].r)
      /\ op[u].kind = "deleteBase" => op[u].r \notin Uses(k, r)

\* The client gets the object of the resource from the service, which finds it
\* in its cache or in the store, and the operation opens the first semaphore.
Start(t, k, r) ==
  LET c == IF k = "deleteBase" THEN r ELSE Parent[r]
  IN  /\ pc[t] = "idle"
      /\ ops < MaxOps
      /\ Behalf(k, r) \in stored
      /\ k = "deleteBase" => r \in Bases
      /\ k = "deleteItem" => r \in Items
      /\ Quiet(t, k, r)
      /\ ops' = ops + 1
      /\ op' = [op EXCEPT ![t] = [kind |-> k, r |-> r]]
      /\ obj' = [obj EXCEPT ![t] = object[Behalf(k, r)]]
      /\ SemOpen(c)
      /\ h1' = [h1 EXCEPT ![t] = Gen(c)]
      /\ Goto(t, "wait1")
      /\ UNCHANGED <<store, value, object, h2>>

Acquire1(t) ==
  /\ SemWait(t, First(t), h1[t], "wait1", "enter")
  /\ UNCHANGED <<store, linked, lastGen, object, op, obj, h1, h2, ops>>

\* BusyError: the operation fails.
TimeOut1(t) ==
  /\ pc[t] = "wait1"
  /\ value[First(t)][h1[t]] = 0
  /\ Goto(t, "idle")
  /\ op' = [op EXCEPT ![t] = NoOp]
  /\ UNCHANGED <<store, sems, object, obj, h1, h2, ops>>

\* Mutant: the deleted object is not recognised.
Enter_NoDeletedCheck(t) ==
  /\ pc[t] = "enter"
  /\ Goto(t, "check")
  /\ UNCHANGED <<store, sems, object, op, obj, h1, h2, ops>>

\* TypeError if the object it acts on behalf of has been deleted meanwhile.
Enter(t) ==
  /\ pc[t] = "enter"
  /\ Goto(t, IF obj[t] < object[Behalf(op[t].kind, op[t].r)]
             THEN "release1" ELSE "check")
  /\ UNCHANGED <<store, sems, object, op, obj, h1, h2, ops>>

----------------------------------------------------------------------------
(* post_graph, on the container *)

\* Mutant: the URI in use is not looked for.
CheckNew_Absent(t) ==
  /\ pc[t] = "check" /\ op[t].kind = "create"
  /\ Goto(t, "write")
  /\ UNCHANGED <<store, sems, object, op, obj, h1, h2, ops>>

\* check_posted_graph: the URI must not be in use in the container's graph.
CheckNew(t) ==
  /\ pc[t] = "check" /\ op[t].kind = "create"
  /\ Goto(t, IF op[t].r \in contents[First(t)] THEN "release1" ELSE "write")
  /\ UNCHANGED <<store, sems, object, op, obj, h1, h2, ops>>

\* Base.create_lock: the semaphore is opened and forced to 1.
CreateLock(b) ==
  /\ SemOpen(b)
  /\ value' = [value EXCEPT ![b][Gen(b)] = 1]

\* cls.create: the graph, the metadata and, for a base, the lock.
Write(t) ==
  LET r == op[t].r
  IN  /\ pc[t] = "write"
      /\ stored' = stored \cup {r}
      /\ IF r \in Bases THEN CreateLock(r) ELSE UNCHANGED sems
      /\ Goto(t, "register")
      /\ UNCHANGED <<contents, object, op, obj, h1, h2, ops>>

\* ack_post: the container is edited, inside its lock.
Register(t) ==
  /\ pc[t] = "register"
  /\ contents' = [contents EXCEPT ![First(t)] = @ \cup {op[t].r}]
  /\ Goto(t, "release1")
  /\ UNCHANGED <<stored, sems, object, op, obj, h1, h2, ops>>

----------------------------------------------------------------------------
(* delete, on an item and on a base *)

\* ack_delete of an item: the base is edited, inside its lock.
UnregisterItem(t) ==
  /\ pc[t] = "check" /\ op[t].kind = "deleteItem"
  /\ contents' = [contents EXCEPT ![First(t)] = @ \ {op[t].r}]
  /\ Goto(t, "clear")
  /\ UNCHANGED <<stored, sems, object, op, obj, h1, h2, ops>>

\* check_deletable of a base: only an empty base can be deleted.
CheckDeletable(t) ==
  /\ pc[t] = "check" /\ op[t].kind = "deleteBase"
  /\ Goto(t, IF contents[op[t].r] = {} THEN "unlink" ELSE "release1")
  /\ UNCHANGED <<store, sems, object, op, obj, h1, h2, ops>>

\* WithLockMixin.ack_delete, called first by Base.ack_delete.
Unlink(t) ==
  /\ pc[t] = "unlink"
  /\ linked' = [linked EXCEPT ![op[t].r] = 0]
  /\ Goto(t, "open2")
  /\ UNCHANGED <<store, lastGen, value, object, op, obj, h1, h2, ops>>

\* with parent.lock(self)
Open2(t) ==
  LET c == Parent[op[t].r]
  IN  /\ pc[t] = "open2"
      /\ SemOpen(c)
      /\ h2' = [h2 EXCEPT ![t] = Gen(c)]
      /\ Goto(t, "wait2")
      /\ UNCHANGED <<store, value, object, op, obj, h1, ops>>

Acquire2(t) ==
  /\ SemWait(t, Parent[op[t].r], h2[t], "wait2", "unregister")
  /\ UNCHANGED <<store, linked, lastGen, object, op, obj, h1, h2, ops>>

\* BusyError: the deletion stops there, the semaphore of the base unlinked.
TimeOut2(t) ==
  /\ pc[t] = "wait2"
  /\ value[Parent[op[t].r]][h2[t]] = 0
  /\ Goto(t, "release1")
  /\ UNCHANGED <<store, sems, object, op, obj, h1, h2, ops>>

\* Mutant: only the root is told, by hasBase.
Unregister_RootOnly(t) ==
  /\ pc[t] = "unregister"
  /\ contents' = [contents EXCEPT ![Root] = @ \ {op[t].r}]
  /\ Goto(t, "release2")
  /\ UNCHANGED <<stored, sems, object, op, obj, h1, h2, ops>>

Unregister(t) ==
  /\ pc[t] = "unregister"
  /\ contents' = [contents EXCEPT ![Parent[op[t].r]] = @ \ {op[t].r}]
  /\ Goto(t, "release2")
  /\ UNCHANGED <<stored, sems, object, op, obj, h1, h2, ops>>

\* Mutant: the parent stays locked.
Release2_Forgets(t) ==
  /\ pc[t] = "release2"
  /\ Goto(t, "clear")
  /\ UNCHANGED <<store, sems, object, op, obj, h1, h2, ops>>

Release2(t) ==
  /\ pc[t] = "release2"
  /\ SemPost(Parent[op[t].r], h2[t])
  /\ Goto(t, "clear")
  /\ UNCHANGED <<store, linked, lastGen, object, op, obj, h1, h2, ops>>

\* The graph and the metadata of the resource are emptied ...
Clear(t) ==
  LET r == op[t].r
  IN  /\ pc[t] = "clear"
      /\ stored' = stored \ {r}
      /\ contents' = [c \in Containers |-> IF c = r THEN {} ELSE contents[c]]
      /\ Goto(t, "mark")
      /\ UNCHANGED <<sems, object, op, obj, h1, h2, ops>>

\* ... and its python object leaves the cache and becomes a _DeletedCore.
Mark(t) ==
  /\ pc[t] = "mark"
  /\ object' = [object EXCEPT ![op[t].r] = @ + 1]
  /\ Goto(t, "release1")
  /\ UNCHANGED <<store, sems, op, obj, h1, h2, ops>>

\* End of every operation: the finally clause of the first lock, which
\* releases the semaphore the thread opened, unlinked or not.
Release1(t) ==
  /\ pc[t] = "release1"
  /\ SemPost(First(t), h1[t])
  /\ Goto(t, "idle")
  /\ op' = [op EXCEPT ![t] = NoOp]
  /\ UNCHANGED <<store, linked, lastGen, object, obj, h1, h2, ops>>

----------------------------------------------------------------------------

Progress(t) ==
  \/ Acquire1(t) \/ Enter(t)
  \/ CheckNew(t) \/ Write(t) \/ Register(t)
  \/ UnregisterItem(t)
  \/ CheckDeletable(t) \/ Unlink(t) \/ Open2(t) \/ Acquire2(t)
  \/ Unregister(t) \/ Release2(t)
  \/ Clear(t) \/ Mark(t) \/ Release1(t)

Next ==
  \E t \in Threads :
    \/ \E k \in OpKinds, r \in Resources : Start(t, k, r)
    \/ Progress(t)
    \/ TimeOut1(t)
    \/ TimeOut2(t)

Spec == Init /\ [][Next]_vars

\* Threads run.  Timeouts are possible but never counted on: what ends, ends
\* because the locks are released.
FairSpec == Spec /\ \A t \in Threads : WF_vars(Progress(t))

----------------------------------------------------------------------------
(* Properties *)

TypeOK ==
  /\ Root \in stored /\ stored \subseteq Resources \cup {Root}
  /\ contents \in [Containers -> SUBSET Resources]
  /\ linked \in [Containers -> 0 .. MaxGen]
  /\ lastGen \in [Containers -> 0 .. MaxGen]
  /\ value \in [Containers -> [1 .. MaxGen -> 0 .. 1]]
  /\ object \in [Resources \cup {Root} -> 0 .. MaxOps]
  /\ pc \in [Threads -> States]
  /\ op \in [Threads -> [kind : OpKinds, r : Resources] \cup {NoOp}]
  /\ obj \in [Threads -> 0 .. MaxOps]
  /\ h1 \in [Threads -> 0 .. MaxGen]
  /\ h2 \in [Threads -> 0 .. MaxGen]
  /\ ops \in 0 .. MaxOps

Busy(r) == \E t \in Threads : pc[t] # "idle" /\ op[t].r = r

\* Outside of the operations on it, a resource is in the store if and only if
\* its container says that it contains it.
StoredIffRegistered ==
  \A r \in Resources : ~Busy(r) => (r \in stored <=> r \in contents[Parent[r]])

\* No resource outlives its container (base.py:197).
NoOrphan ==
  \A r \in Resources : r \in stored /\ ~Busy(r) => Parent[r] \in stored

\* The containers whose lock a thread believes it has.
Held(t) ==
  (IF pc[t] \notin {"idle", "wait1"} THEN {First(t)} ELSE {}) \cup
  (IF pc[t] \in {"unregister", "release2"} THEN {Parent[op[t].r]} ELSE {})

\* No two threads are in charge of one container, although its semaphore may
\* be unlinked, created again and forced to 1 under their feet.
OneInCharge ==
  \A t, u \in Threads : t # u => Held(t) \cap Held(u) = {}

\* "Only an empty base can be deleted" (base.py:197): when a base goes, it
\* contains nothing, and nothing it contains is being created.
OnlyEmptyBaseDeleted ==
  [][\A b \in Bases : b \in stored /\ b \notin stored' =>
       /\ contents[b] = {}
       /\ \A r \in Resources : Parent[r] = b => r \notin stored \/ Busy(r)]_vars

\* A resource that is in the store is not created again over itself.
CreatedOnce ==
  [][\A t \in Threads : pc[t] = "write" /\ pc'[t] = "register"
       => op[t].r \notin stored]_vars

\* A deletion that waited while its resource was deleted, and perhaps created
\* again, by another thread removes nothing (lock.py:129).
DeletesWhatWasAsked ==
  [][\A t \in Threads : pc[t] = "clear" /\ pc'[t] = "mark"
       => obj[t] = object[op[t].r]]_vars

\* Base locked, then its parent: never the other way round, so that every
\* operation ends without waiting for a timeout.
OperationsEnd == []<>(\A t \in Threads : pc[t] = "idle")
=============================================================================
