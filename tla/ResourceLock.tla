---------------------------- MODULE ResourceLock ----------------------------
(***************************************************************************)
(* WithLockMixin.lock (lib/ktbs/engine/lock.py): the lock of ONE resource, *)
(* made of a POSIX named semaphore shared by all the processes, and, on    *)
(* each python object that stands for the resource, the attribute          *)
(* __locking_thread_id that lets the owner's nested "with lock" pass.      *)
(*                                                                         *)
(* A thread may use any python object of its own process.  Service.get     *)
(* means to keep one object per resource and process, but checks its cache *)
(* and fills it without a lock (lib/rdfrest/cores/local.py:192-213), so a  *)
(* process may have several; the lock has to cope with that.               *)
(*                                                                         *)
(* A process may be killed at any moment: its threads vanish, its objects  *)
(* with them, the semaphore keeps the value it had.  The script            *)
(* bin/ktbs-reset-locks puts the value back to 1; its help says it must    *)
(* not be used on a running kTBS, so it runs when no thread is in lock().  *)
(***************************************************************************)
EXTENDS Naturals

CONSTANTS
  Threads,      \* threads of all the processes
  Objects,      \* python objects that stand for the resource
  Processes,
  Home,         \* the process of each thread and of each object
  NoThread,     \* python's None, in __locking_thread_id
  NoObject,
  MaxDepth,     \* bound: contexts open at a time on one object
  MaxNested,    \* bound: nested "with lock" of one outermost context
  MaxKills      \* bound: processes killed

ASSUME HomeAssumption == Home \in [Threads \cup Objects -> Processes]
ASSUME NoThreadAssumption == NoThread \notin Threads
ASSUME NoObjectAssumption == NoObject \notin Objects
ASSUME BoundsAssumption ==
  MaxDepth \in Nat \ {0} /\ MaxNested \in Nat /\ MaxKills \in Nat

VARIABLES
  sem,            \* value of the semaphore
  lockingThread,  \* __locking_thread_id of each object
  depth,          \* contexts each thread has open on each object
  pc,             \* where each thread is in lock()
  target,         \* the object whose lock() the thread is executing
  nested,         \* nested contexts entered since the outermost one
  lost,           \* a token went with the thread that held it
  kills

vars == <<sem, lockingThread, depth, pc, target, nested, lost, kills>>

Mine(t) == {o \in Objects : Home[o] = Home[t]}

Inside(t) == \E o \in Objects : depth[t][o] > 0

\* Where a thread goes on when a call of lock() is over.
Resume(t) == IF Inside(t) THEN "inside" ELSE "idle"

\* The threads that have taken the token and not put it back.
Holders == {t \in Threads : pc[t] \in {"acquired", "leaving"} \/ Inside(t)}

Init ==
  /\ sem = 1
  /\ lockingThread = [o \in Objects |-> NoThread]
  /\ depth = [t \in Threads |-> [o \in Objects |-> 0]]
  /\ pc = [t \in Threads |-> "idle"]
  /\ target = [t \in Threads |-> NoObject]
  /\ nested = [t \in Threads |-> 0]
  /\ lost = FALSE
  /\ kills = 0

----------------------------------------------------------------------------
(* with o.lock(...) *)

\* A call from the body of an open context counts as nested.
MayCall(t) ==
  \/ pc[t] = "idle"   /\ UNCHANGED nested
  \/ pc[t] = "inside" /\ nested[t] < MaxNested
                      /\ nested' = [nested EXCEPT ![t] = @ + 1]

\* Mutant: a flag in place of the thread id lets any thread of the process in.
Reenter_AnyThread(t, o) ==
  /\ o \in Mine(t)
  /\ MayCall(t)
  /\ lockingThread[o] # NoThread
  /\ depth[t][o] < MaxDepth
  /\ depth' = [depth EXCEPT ![t][o] = @ + 1]
  /\ pc' = [pc EXCEPT ![t] = "inside"]
  /\ UNCHANGED <<sem, lockingThread, target, lost, kills>>

\* The thread already holds the lock through this object: no semaphore.
Reenter(t, o) ==
  /\ o \in Mine(t)
  /\ MayCall(t)
  /\ lockingThread[o] = t
  /\ depth[t][o] < MaxDepth
  /\ depth' = [depth EXCEPT ![t][o] = @ + 1]
  /\ pc' = [pc EXCEPT ![t] = "inside"]
  /\ UNCHANGED <<sem, lockingThread, target, lost, kills>>

\* The semaphore is opened (created with value 1 if it does not exist).
Open(t, o) ==
  /\ o \in Mine(t)
  /\ MayCall(t)
  /\ lockingThread[o] # t
  /\ pc' = [pc EXCEPT ![t] = "waiting"]
  /\ target' = [target EXCEPT ![t] = o]
  /\ UNCHANGED <<sem, lockingThread, depth, lost, kills>>

\* sem_wait gets the token.
Acquire(t) ==
  /\ pc[t] = "waiting"
  /\ sem > 0
  /\ sem' = sem - 1
  /\ pc' = [pc EXCEPT ![t] = "acquired"]
  /\ UNCHANGED <<lockingThread, depth, target, nested, lost, kills>>

\* Mutant: the finally clause also covers the acquisition.
TimeOut_Releases(t) ==
  /\ pc[t] = "waiting"
  /\ sem = 0
  /\ sem' = sem + 1
  /\ pc' = [pc EXCEPT ![t] = Resume(t)]
  /\ target' = [target EXCEPT ![t] = NoObject]
  /\ UNCHANGED <<lockingThread, depth, nested, lost, kills>>

\* Mutant: sem_wait is called without a timeout.
TimeOut_Never(t) == FALSE

\* The timeout expires: BusyError, which leaves the body of any open context.
TimeOut(t) ==
  /\ pc[t] = "waiting"
  /\ sem = 0
  /\ pc' = [pc EXCEPT ![t] = Resume(t)]
  /\ target' = [target EXCEPT ![t] = NoObject]
  /\ UNCHANGED <<sem, lockingThread, depth, nested, lost, kills>>

\* The assertion on the value, then the owner is recorded and the body runs.
\* The AssertionError is raised outside the inner try: nobody releases.
CheckAndOwn(t) ==
  /\ pc[t] = "acquired"
  /\ IF sem = 0
     THEN /\ lockingThread' = [lockingThread EXCEPT ![target[t]] = t]
          /\ depth' = [depth EXCEPT ![t][target[t]] = @ + 1]
          /\ pc' = [pc EXCEPT ![t] = "inside"]
          /\ UNCHANGED lost
     ELSE /\ pc' = [pc EXCEPT ![t] = Resume(t)]
          /\ lost' = TRUE
          /\ UNCHANGED <<lockingThread, depth>>
  /\ target' = [target EXCEPT ![t] = NoObject]
  /\ UNCHANGED <<sem, nested, kills>>

\* The body of a nested context ends, normally or with an exception.
ExitNested(t, o) ==
  /\ pc[t] = "inside"
  /\ depth[t][o] > 1
  /\ depth' = [depth EXCEPT ![t][o] = @ - 1]
  /\ UNCHANGED <<sem, lockingThread, pc, target, nested, lost, kills>>

\* Mutant: the finally clause belongs to each context, not to the outermost.
Leave_Innermost(t, o) ==
  /\ pc[t] = "inside"
  /\ depth[t][o] > 0
  /\ lockingThread' = [lockingThread EXCEPT ![o] = NoThread]
  /\ depth' = [depth EXCEPT ![t][o] = @ - 1]
  /\ pc' = [pc EXCEPT ![t] = "leaving"]
  /\ target' = [target EXCEPT ![t] = o]
  /\ UNCHANGED <<sem, nested, lost, kills>>

\* The body of the outermost context ends: the finally clause, first line ...
Leave(t, o) ==
  /\ pc[t] = "inside"
  /\ depth[t][o] = 1
  /\ lockingThread' = [lockingThread EXCEPT ![o] = NoThread]
  /\ depth' = [depth EXCEPT ![t][o] = 0]
  /\ pc' = [pc EXCEPT ![t] = "leaving"]
  /\ target' = [target EXCEPT ![t] = o]
  /\ UNCHANGED <<sem, nested, lost, kills>>

\* Mutant: the semaphore is closed without being released.
Release_Closes(t) ==
  /\ pc[t] = "leaving"
  /\ pc' = [pc EXCEPT ![t] = Resume(t)]
  /\ target' = [target EXCEPT ![t] = NoObject]
  /\ nested' = [nested EXCEPT ![t] = IF Inside(t) THEN @ ELSE 0]
  /\ UNCHANGED <<sem, lockingThread, depth, lost, kills>>

\* ... and the second one.
Release(t) ==
  /\ pc[t] = "leaving"
  /\ sem' = sem + 1
  /\ pc' = [pc EXCEPT ![t] = Resume(t)]
  /\ target' = [target EXCEPT ![t] = NoObject]
  /\ nested' = [nested EXCEPT ![t] = IF Inside(t) THEN @ ELSE 0]
  /\ UNCHANGED <<lockingThread, depth, lost, kills>>

----------------------------------------------------------------------------
(* The environment *)

\* A process is killed, and started again with no context open.
Kill(p) ==
  /\ kills < MaxKills
  /\ kills' = kills + 1
  /\ lost' = (lost \/ \E t \in Holders : Home[t] = p)
  /\ depth' = [t \in Threads |-> IF Home[t] = p THEN [o \in Objects |-> 0]
                                                ELSE depth[t]]
  /\ pc' = [t \in Threads |-> IF Home[t] = p THEN "idle" ELSE pc[t]]
  /\ target' = [t \in Threads |-> IF Home[t] = p THEN NoObject ELSE target[t]]
  /\ nested' = [t \in Threads |-> IF Home[t] = p THEN 0 ELSE nested[t]]
  /\ lockingThread' = [o \in Objects |-> IF Home[o] = p THEN NoThread
                                                        ELSE lockingThread[o]]
  /\ UNCHANGED sem

\* bin/ktbs-reset-locks, on a kTBS that is not running: a value of 0 is
\* released, a value above 1 is acquired down to 1.
Reset ==
  /\ \A t \in Threads : pc[t] = "idle"
  /\ sem # 1
  /\ sem' = 1
  /\ lost' = FALSE
  /\ UNCHANGED <<lockingThread, depth, pc, target, nested, kills>>

----------------------------------------------------------------------------

Next ==
  \/ \E t \in Threads :
       \/ \E o \in Objects : \/ Reenter(t, o)
                             \/ Open(t, o)
                             \/ ExitNested(t, o)
                             \/ Leave(t, o)
       \/ Acquire(t)
       \/ TimeOut(t)
       \/ CheckAndOwn(t)
       \/ Release(t)
  \/ \E p \in Processes : Kill(p)
  \/ Reset

\* sem_wait returns, with the token or with a timeout; the interpreter runs
\* every thread; a body is finite, so it ends.  Nobody has to call lock().
Fairness ==
  \A t \in Threads :
    /\ WF_vars(Acquire(t) \/ TimeOut(t))
    /\ WF_vars(CheckAndOwn(t))
    /\ WF_vars(\E o \in Objects : ExitNested(t, o) \/ Leave(t, o))
    /\ WF_vars(Release(t))

Spec == Init /\ [][Next]_vars

FairSpec == Spec /\ Fairness

----------------------------------------------------------------------------
(* Properties *)

TypeOK ==
  /\ sem \in Nat
  /\ lockingThread \in [Objects -> Threads \cup {NoThread}]
  /\ depth \in [Threads -> [Objects -> 0 .. MaxDepth]]
  /\ pc \in [Threads -> {"idle", "waiting", "acquired", "inside", "leaving"}]
  /\ target \in [Threads -> Objects \cup {NoObject}]
  /\ \A t \in Threads : pc[t] \in {"waiting", "acquired"} => target[t] \in Objects
  /\ nested \in [Threads -> 0 .. MaxNested]
  /\ lost \in BOOLEAN
  /\ kills \in 0 .. MaxKills

\* Whatever the processes, the objects and the crashes, the bodies of two
\* "with lock" on the same resource never run at the same time.
MutualExclusion ==
  \A t, u \in Threads : Inside(t) /\ Inside(u) => t = u

\* A thread passes without the semaphore (lock.py:112) exactly when it has an
\* open context on that object: the attribute is never stale, not even while
\* the owner is leaving, timing out in a nested call, or killed.
OwnerAgrees ==
  \A o \in Objects, t \in Threads : lockingThread[o] = t <=> depth[t][o] > 0

\* The token is in the semaphore, or with exactly one thread, or was lost in
\* a crash: it is never duplicated, and no error path forgets to put it back.
TokenConserved ==
  \/ sem = 1 /\ Holders = {} /\ ~lost
  \/ sem = 0 /\ ~lost /\ \E t \in Threads : Holders = {t}
  \/ sem = 0 /\ Holders = {} /\ lost

\* "This lock is corrupted" (lock.py:123) is never raised.
LockNotCorrupted == \A t \in Threads : pc[t] = "acquired" => sem = 0

\* A lock that is taken comes back, unless its holder was killed.
LockComesBack == (sem = 0) ~> (sem = 1 \/ lost)

\* Every call of lock() returns: with the lock or with a BusyError, even when
\* the thread waits for a lock it holds itself through another object.
CallsReturn ==
  \A t \in Threads : (pc[t] = "waiting") ~> (pc[t] \in {"idle", "inside"})

----------------------------------------------------------------------------
(* What makes the safety properties inductive *)

\* Where a thread is says whether it is in a body; a waiting thread may be in
\* the body of a context on another object.
PcAgrees ==
  \A t \in Threads : /\ pc[t] \in {"idle", "acquired", "leaving"} => ~Inside(t)
                     /\ pc[t] = "inside" => Inside(t)

\* A thread has open contexts on one object at most.
OneObject ==
  \A t \in Threads : \A o, q \in Objects :
    depth[t][o] > 0 /\ depth[t][q] > 0 => o = q

\* A thread uses the objects of its own process only.
LocalObjects ==
  \A t \in Threads :
    /\ pc[t] \in {"waiting", "acquired"} => target[t] \in Mine(t)
    /\ \A o \in Objects : depth[t][o] > 0 => o \in Mine(t)

IInv ==
  TypeOK /\ OwnerAgrees /\ TokenConserved /\ PcAgrees /\ OneObject /\ LocalObjects

----------------------------------------------------------------------------
(* Refinement of Mutex *)

Nobody == "nobody"
Dead == "dead"
ASSUME NobodyAssumption == Nobody \notin Threads /\ Dead \notin Threads

holder == IF Holders # {} THEN CHOOSE t \in Threads : t \in Holders
          ELSE IF lost THEN Dead ELSE Nobody

Abstract == INSTANCE Mutex

\* Seen through Holders, the semaphore, the attribute and the crashes only do
\* what Mutex allows.
MutexSpec == Abstract!Spec
=============================================================================
