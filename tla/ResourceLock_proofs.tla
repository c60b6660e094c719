------------------------ MODULE ResourceLock_proofs ------------------------
(***************************************************************************)
(* The lock of a resource excludes, for any set of threads, objects and    *)
(* processes and any bound: IInv is inductive, it implies the safety       *)
(* properties of ResourceLock, and every step is a step of Mutex.          *)
(***************************************************************************)
EXTENDS ResourceLock, TLAPS

USE HomeAssumption, NoThreadAssumption, NoObjectAssumption, BoundsAssumption

\* The token starts in the semaphore, and no context is open.
LEMMA InitIInv == Init => IInv
<1> SUFFICES ASSUME Init
             PROVE  IInv
  OBVIOUS
<1>1. \A t \in Threads : /\ \A o \in Objects : depth[t][o] = 0
                         /\ pc[t] = "idle"
                         /\ ~Inside(t)
  <2> TAKE t \in Threads
  <2>1. depth[t] = [o \in Objects |-> 0]
    BY DEF Init
  <2>2. \A o \in Objects : depth[t][o] = 0
    BY <2>1
  <2>3. pc[t] = "idle"
    BY DEF Init
  <2> QED
    BY <2>2, <2>3 DEF Inside
<1>2. TypeOK
  <2>1. 0 \in 0 .. MaxDepth /\ 0 \in 0 .. MaxNested /\ 0 \in 0 .. MaxKills
    OBVIOUS
  <2>2. [o \in Objects |-> 0] \in [Objects -> 0 .. MaxDepth]
    BY <2>1
  <2> QED
    BY <2>1, <2>2 DEF Init, TypeOK
<1>3. OwnerAgrees
  <2>1. \A o \in Objects : lockingThread[o] = NoThread
    BY DEF Init
  <2>2. \A o \in Objects, t \in Threads : lockingThread[o] # t
    BY <2>1
  <2>3. \A o \in Objects, t \in Threads : depth[t][o] = 0
    BY <1>1
  <2> QED
    BY <2>2, <2>3 DEF OwnerAgrees
<1>4. TokenConserved
  BY <1>1 DEF Init, TokenConserved, Holders
<1>5. PcAgrees
  BY <1>1 DEF PcAgrees
<1>6. OneObject /\ LocalObjects
  BY <1>1 DEF OneObject, LocalObjects
<1> QED
  BY <1>2, <1>3, <1>4, <1>5, <1>6 DEF IInv

----------------------------------------------------------------------------
(* IInv is preserved, one lemma per kind of step *)

\* Entering a nested context of an object the thread already owns.
LEMMA ReenterIInv ==
  ASSUME IInv, NEW t \in Threads, NEW o \in Objects, Reenter(t, o)
  PROVE  IInv' /\ Holders' = Holders
<1> USE DEF IInv
<1>1. TypeOK'
  BY DEF Reenter, MayCall, TypeOK
<1>2. depth[t][o] > 0 /\ Inside(t)
  BY DEF Reenter, OwnerAgrees, Inside
<1>3. \A u \in Threads, q \in Objects : depth'[u][q] > 0 <=> depth[u][q] > 0
  BY <1>2 DEF Reenter, TypeOK
<1>4. \A u \in Threads : Inside(u)' <=> Inside(u)
  BY <1>3 DEF Inside
<1>5. Holders' = Holders
  BY <1>2, <1>4 DEF Reenter, Holders, TypeOK, PcAgrees
<1>6. OwnerAgrees'
  BY <1>3 DEF Reenter, OwnerAgrees
<1>7. TokenConserved'
  BY <1>5 DEF Reenter, TokenConserved
<1>8. PcAgrees'
  BY <1>2, <1>4 DEF Reenter, PcAgrees, TypeOK
<1>9. OneObject'
  BY <1>3 DEF OneObject
<1>10. LocalObjects'
  BY <1>3 DEF Reenter, LocalObjects, TypeOK
<1> QED
  BY <1>1, <1>5, <1>6, <1>7, <1>8, <1>9, <1>10

\* Starting to wait for the semaphore.
LEMMA OpenIInv ==
  ASSUME IInv, NEW t \in Threads, NEW o \in Objects, Open(t, o)
  PROVE  IInv' /\ Holders' = Holders
<1> USE DEF IInv
<1>1. TypeOK'
  BY DEF Open, MayCall, Resume, TypeOK
<1>2. \A u \in Threads : Inside(u)' <=> Inside(u)
  BY DEF Open, Inside
<1>3. Holders' = Holders
  BY <1>2 DEF Open, MayCall, Resume, Holders, TypeOK, PcAgrees
<1>4. OwnerAgrees'
  BY DEF Open, OwnerAgrees
<1>5. TokenConserved'
  BY <1>3 DEF Open, TokenConserved
<1>6. PcAgrees'
  BY <1>2 DEF Open, MayCall, Resume, PcAgrees, TypeOK
<1>7. OneObject'
  BY DEF Open, OneObject
<1>8. LocalObjects'
  BY DEF Open, MayCall, Resume, LocalObjects, Mine, TypeOK
<1> QED
  BY <1>1, <1>3, <1>4, <1>5, <1>6, <1>7, <1>8

\* Giving up: no token was taken, none is put back.
LEMMA TimeOutIInv ==
  ASSUME IInv, NEW t \in Threads, TimeOut(t)
  PROVE  IInv' /\ Holders' = Holders
<1> USE DEF IInv
<1>1. TypeOK'
  BY DEF TimeOut, MayCall, Resume, TypeOK
<1>2. \A u \in Threads : Inside(u)' <=> Inside(u)
  BY DEF TimeOut, Inside
<1>3. Holders' = Holders
  BY <1>2 DEF TimeOut, MayCall, Resume, Holders, TypeOK, PcAgrees
<1>4. OwnerAgrees'
  BY DEF TimeOut, OwnerAgrees
<1>5. TokenConserved'
  BY <1>3 DEF TimeOut, TokenConserved
<1>6. PcAgrees'
  BY <1>2 DEF TimeOut, MayCall, Resume, PcAgrees, TypeOK
<1>7. OneObject'
  BY DEF TimeOut, OneObject
<1>8. LocalObjects'
  BY DEF TimeOut, MayCall, Resume, LocalObjects, Mine, TypeOK
<1> QED
  BY <1>1, <1>3, <1>4, <1>5, <1>6, <1>7, <1>8

\* Taking the token: the semaphore had it, so no thread did.
LEMMA AcquireIInv ==
  ASSUME IInv, NEW t \in Threads, Acquire(t)
  PROVE  IInv' /\ Holders = {} /\ Holders' = {t} /\ ~lost
<1> USE DEF IInv
<1>1. TypeOK'
  BY DEF Acquire, TypeOK
<1>2. sem = 1 /\ Holders = {} /\ ~lost
  BY DEF Acquire, TokenConserved, TypeOK
<1>3. \A u \in Threads : ~Inside(u) /\ ~Inside(u)'
  BY <1>2 DEF Acquire, Inside, Holders
<1>4. Holders' = {t}
  BY <1>2, <1>3 DEF Acquire, Holders, TypeOK
<1>5. OwnerAgrees'
  BY DEF Acquire, OwnerAgrees
<1>6. TokenConserved'
  BY <1>2, <1>4 DEF Acquire, TokenConserved
<1>7. PcAgrees'
  BY <1>2, <1>3 DEF Acquire, PcAgrees, TypeOK, Holders
<1>8. OneObject'
  BY DEF Acquire, OneObject
<1>9. LocalObjects'
  BY DEF Acquire, Resume, LocalObjects, Mine, TypeOK
<1> QED
  BY <1>1, <1>2, <1>4, <1>5, <1>6, <1>7, <1>8, <1>9

\* Checking the value and recording the owner: the assertion holds, because
\* this thread is the only holder.
LEMMA CheckAndOwnIInv ==
  ASSUME IInv, NEW t \in Threads, CheckAndOwn(t)
  PROVE  IInv' /\ Holders' = Holders
<1> USE DEF IInv
<1> DEFINE o == target[t]
<1>1. o \in Objects /\ t \in Holders /\ ~Inside(t)
  BY DEF CheckAndOwn, TypeOK, Holders, PcAgrees
<1>2. sem = 0 /\ Holders = {t} /\ ~lost
  BY <1>1 DEF TokenConserved
<1>3. \A u \in Threads : ~Inside(u)
  BY <1>1, <1>2 DEF Holders
<1>4. \A u \in Threads, q \in Objects : depth[u][q] = 0
  BY <1>3 DEF Inside, TypeOK
<1>5. /\ lockingThread' = [lockingThread EXCEPT ![o] = t]
      /\ depth' = [depth EXCEPT ![t][o] = @ + 1]
      /\ pc' = [pc EXCEPT ![t] = "inside"]
      /\ target' = [target EXCEPT ![t] = NoObject]
      /\ UNCHANGED <<sem, nested, lost, kills>>
  BY <1>2 DEF CheckAndOwn
<1>6. \A u \in Threads, q \in Objects :
        depth'[u][q] = IF u = t /\ q = o THEN 1 ELSE 0
  BY <1>1, <1>4, <1>5 DEF TypeOK
<1> HIDE DEF o
<1>7. TypeOK'
  <2>1. depth' \in [Threads -> [Objects -> 0 .. MaxDepth]]
    BY <1>1, <1>4, <1>5 DEF TypeOK
  <2> QED
    BY <1>1, <1>5, <2>1 DEF TypeOK
<1>8. \A u \in Threads : Inside(u)' <=> u = t
  BY <1>1, <1>6 DEF Inside
<1>9. Holders' = Holders
  BY <1>1, <1>2, <1>3, <1>5, <1>8 DEF Holders, TypeOK
<1>10. OwnerAgrees'
  BY <1>1, <1>4, <1>5, <1>6 DEF OwnerAgrees, TypeOK
<1>11. TokenConserved'
  BY <1>5, <1>9 DEF TokenConserved
<1>12. PcAgrees'
  BY <1>3, <1>5, <1>8 DEF PcAgrees, TypeOK
<1>13. OneObject'
  BY <1>6 DEF OneObject
<1>14. LocalObjects'
  BY <1>5, <1>6 DEF CheckAndOwn, LocalObjects, o, Mine, TypeOK
<1> QED
  BY <1>7, <1>9, <1>10, <1>11, <1>12, <1>13, <1>14

\* Closing a nested context leaves the outermost one open.
LEMMA ExitNestedIInv ==
  ASSUME IInv, NEW t \in Threads, NEW o \in Objects, ExitNested(t, o)
  PROVE  IInv' /\ Holders' = Holders
<1> USE DEF IInv
<1>1. TypeOK'
  BY DEF ExitNested, TypeOK
<1>2. \A u \in Threads, q \in Objects : depth'[u][q] > 0 <=> depth[u][q] > 0
  BY DEF ExitNested, TypeOK
<1>3. \A u \in Threads : Inside(u)' <=> Inside(u)
  BY <1>2 DEF Inside
<1>4. Holders' = Holders
  BY <1>3 DEF ExitNested, Holders
<1>5. OwnerAgrees'
  BY <1>2 DEF ExitNested, OwnerAgrees
<1>6. TokenConserved'
  BY <1>4 DEF ExitNested, TokenConserved
<1>7. PcAgrees'
  BY <1>3 DEF ExitNested, PcAgrees
<1>8. OneObject'
  BY <1>2 DEF OneObject
<1>9. LocalObjects'
  BY <1>2 DEF ExitNested, LocalObjects, TypeOK
<1> QED
  BY <1>1, <1>4, <1>5, <1>6, <1>7, <1>8, <1>9

\* Closing the outermost context: the thread has no other object open, so it
\* is in no body any more, and it still has the token.
LEMMA LeaveIInv ==
  ASSUME IInv, NEW t \in Threads, NEW o \in Objects, Leave(t, o)
  PROVE  IInv' /\ Holders' = Holders
<1> USE DEF IInv
<1>1. TypeOK'
  BY DEF Leave, TypeOK
<1>2. Inside(t) /\ lockingThread[o] = t
  BY DEF Leave, Inside, OwnerAgrees
<1>3. \A u \in Threads, q \in Objects :
        depth'[u][q] > 0 <=> depth[u][q] > 0 /\ u # t
  BY DEF Leave, TypeOK, OneObject
<1>4. \A u \in Threads : Inside(u)' <=> Inside(u) /\ u # t
  BY <1>3 DEF Inside
<1>5. Holders' = Holders
  BY <1>2, <1>4 DEF Leave, Holders, TypeOK
<1>6. OwnerAgrees'
  <2> SUFFICES ASSUME NEW q \in Objects, NEW u \in Threads
               PROVE  lockingThread'[q] = u <=> depth'[u][q] > 0
    BY DEF OwnerAgrees
  <2>1. CASE q = o
    BY <1>2, <1>3, <2>1 DEF Leave, OwnerAgrees, TypeOK
  <2>2. CASE q # o
    BY <1>3, <2>2 DEF Leave, OwnerAgrees, OneObject, TypeOK
  <2> QED
    BY <2>1, <2>2
<1>7. TokenConserved'
  BY <1>5 DEF Leave, TokenConserved
<1>8. PcAgrees'
  BY <1>4 DEF Leave, PcAgrees, TypeOK
<1>9. OneObject'
  BY <1>3 DEF OneObject
<1>10. LocalObjects'
  BY <1>3 DEF Leave, LocalObjects, TypeOK
<1> QED
  BY <1>1, <1>5, <1>6, <1>7, <1>8, <1>9, <1>10

\* Putting the token back: this thread was the holder, and is not any more.
LEMMA ReleaseIInv ==
  ASSUME IInv, NEW t \in Threads, Release(t)
  PROVE  IInv' /\ Holders = {t} /\ Holders' = {} /\ ~lost'
<1> USE DEF IInv
<1>1. TypeOK'
  BY DEF Release, Resume, TypeOK
<1>2. t \in Holders /\ ~Inside(t)
  BY DEF Release, Holders, PcAgrees
<1>3. sem = 0 /\ Holders = {t} /\ ~lost
  BY <1>2 DEF TokenConserved
<1>4. \A u \in Threads : ~Inside(u) /\ ~Inside(u)'
  BY <1>2, <1>3 DEF Release, Inside, Holders
<1>5. pc' = [pc EXCEPT ![t] = "idle"]
  BY <1>2 DEF Release, Resume
<1>6. Holders' = {}
  BY <1>3, <1>4, <1>5 DEF Holders, TypeOK
<1>7. OwnerAgrees'
  BY DEF Release, OwnerAgrees
<1>8. TokenConserved'
  BY <1>3, <1>6 DEF Release, TokenConserved
<1>9. PcAgrees'
  BY <1>4, <1>5 DEF PcAgrees, TypeOK
<1>10. OneObject'
  BY DEF Release, OneObject
<1>11. LocalObjects'
  BY DEF Release, Resume, LocalObjects, Mine, TypeOK
<1> QED
  BY <1>1, <1>3, <1>6, <1>7, <1>8, <1>9, <1>10, <1>11 DEF Release

\* A crash takes the token with it when the holder was in that process, and
\* clears the attribute together with the contexts.
LEMMA KillIInv ==
  ASSUME IInv, NEW p \in Processes, Kill(p)
  PROVE  /\ IInv'
         /\ \/ Holders' = Holders /\ (lost' <=> lost)
            \/ Holders # {} /\ Holders' = {} /\ lost'
<1> USE DEF IInv
<1>1. TypeOK'
  BY DEF Kill, TypeOK
<1>2. \A u \in Threads, q \in Objects :
        depth'[u][q] > 0 <=> depth[u][q] > 0 /\ Home[u] # p
  BY DEF Kill, TypeOK
<1>3. \A u \in Threads : Inside(u)' <=> Inside(u) /\ Home[u] # p
  BY <1>2 DEF Inside
<1>4. Holders' = {u \in Holders : Home[u] # p}
  BY <1>3 DEF Kill, Holders, TypeOK
<1>5. OwnerAgrees'
  <2> SUFFICES ASSUME NEW o \in Objects, NEW u \in Threads
               PROVE  lockingThread'[o] = u <=> depth'[u][o] > 0
    BY DEF OwnerAgrees
  <2>1. lockingThread[o] = u <=> depth[u][o] > 0
    BY DEF OwnerAgrees
  <2>2. depth[u][o] > 0 => Home[o] = Home[u]
    BY DEF LocalObjects, Mine
  <2>3. lockingThread'[o] = IF Home[o] = p THEN NoThread ELSE lockingThread[o]
    BY DEF Kill
  <2> QED
    BY <1>2, <2>1, <2>2, <2>3
<1>6. TokenConserved'
  BY <1>4 DEF Kill, TokenConserved
<1>7. PcAgrees'
  BY <1>3 DEF Kill, PcAgrees, TypeOK
<1>8. OneObject'
  BY <1>2 DEF OneObject
<1>9. \/ Holders' = Holders /\ (lost' <=> lost)
      \/ Holders # {} /\ Holders' = {} /\ lost'
  BY <1>4 DEF Kill, TokenConserved
<1>10. LocalObjects'
  BY <1>2 DEF Kill, LocalObjects, Mine, TypeOK
<1> QED
  BY <1>1, <1>5, <1>6, <1>7, <1>8, <1>9, <1>10

\* The reset script runs when no thread has the token.
LEMMA ResetIInv ==
  ASSUME IInv, Reset
  PROVE  IInv' /\ Holders = {} /\ Holders' = {} /\ lost /\ ~lost'
<1> USE DEF IInv
<1>1. TypeOK'
  BY DEF Reset, TypeOK
<1>2. \A t \in Threads : ~Inside(t) /\ ~Inside(t)'
  BY DEF Reset, PcAgrees, Inside
<1>3. Holders = {} /\ Holders' = {}
  BY <1>2 DEF Reset, Holders
<1>4. lost /\ ~lost'
  BY <1>3 DEF Reset, TokenConserved
<1>5. OwnerAgrees'
  BY DEF Reset, OwnerAgrees
<1>6. TokenConserved'
  BY <1>3, <1>4 DEF Reset, TokenConserved
<1>7. PcAgrees'
  BY <1>2 DEF Reset, PcAgrees
<1>8. OneObject' /\ LocalObjects'
  BY DEF Reset, OneObject, LocalObjects, Mine
<1> QED
  BY <1>1, <1>3, <1>4, <1>5, <1>6, <1>7, <1>8

\* A step that changes nothing.
LEMMA StutterIInv ==
  ASSUME IInv, UNCHANGED vars
  PROVE  IInv' /\ Holders' = Holders /\ (lost' <=> lost)
<1> USE DEF vars
<1>1. TypeOK'
  BY DEF IInv, TypeOK
<1>2. OwnerAgrees' /\ PcAgrees' /\ OneObject' /\ LocalObjects'
  BY DEF IInv, OwnerAgrees, PcAgrees, OneObject, LocalObjects, Inside, Mine
<1>3. Holders' = Holders /\ (lost' <=> lost)
  BY DEF Holders, Inside
<1>4. TokenConserved'
  BY <1>3 DEF IInv, TokenConserved
<1> QED
  BY <1>1, <1>2, <1>3, <1>4 DEF IInv

\* IInv is inductive.
LEMMA NextIInv == IInv /\ [Next]_vars => IInv'
<1> SUFFICES ASSUME IInv, [Next]_vars
             PROVE  IInv'
  OBVIOUS
<1> QED
  BY ReenterIInv, OpenIInv, AcquireIInv, TimeOutIInv, CheckAndOwnIInv,
     ExitNestedIInv, LeaveIInv, ReleaseIInv, KillIInv, ResetIInv, StutterIInv
     DEF Next

\* IInv holds in every reachable state.
THEOREM Invariance == Spec => []IInv
  BY InitIInv, NextIInv, PTL DEF Spec

----------------------------------------------------------------------------
(* The properties *)

\* The type invariant, for every value of the constants.
THEOREM TypeCorrect == Spec => []TypeOK
<1>1. IInv => TypeOK
  BY DEF IInv
<1> QED
  BY Invariance, <1>1, PTL

\* Two bodies of "with lock" on the resource never overlap, however many
\* processes, threads and python objects there are and whichever are killed.
THEOREM Exclusion == Spec => []MutualExclusion
<1>1. IInv => MutualExclusion
  BY DEF IInv, TokenConserved, MutualExclusion, Holders
<1> QED
  BY Invariance, <1>1, PTL

\* __locking_thread_id names a thread exactly when it has a context open.
THEOREM OwnerCorrect == Spec => []OwnerAgrees
<1>1. IInv => OwnerAgrees
  BY DEF IInv
<1> QED
  BY Invariance, <1>1, PTL

\* No path through lock() duplicates or forgets the token.
THEOREM TokenCorrect == Spec => []TokenConserved
<1>1. IInv => TokenConserved
  BY DEF IInv
<1> QED
  BY Invariance, <1>1, PTL

\* The assertion "This lock is corrupted" never fails.
THEOREM NotCorrupted == Spec => []LockNotCorrupted
<1>1. IInv => LockNotCorrupted
  BY DEF IInv, TokenConserved, LockNotCorrupted, Holders
<1> QED
  BY Invariance, <1>1, PTL

----------------------------------------------------------------------------
(* The refinement *)

\* The initial state maps to the initial state of Mutex.
LEMMA InitMutex == Init => Abstract!Init
<1> SUFFICES ASSUME Init
             PROVE  holder = Nobody
  BY DEF Abstract!Init
<1>1. Holders = {} /\ ~lost
  BY InitIInv DEF IInv, TokenConserved, Init
<1> QED
  BY <1>1 DEF holder

\* Steps that keep the token where it is do not change the holder.
LEMMA SameHolder ==
  ASSUME Holders' = Holders, lost' <=> lost
  PROVE  holder' = holder
  BY DEF holder

\* Every step of the lock is a step of Mutex, or one it does not see.
LEMMA NextMutex == IInv /\ [Next]_vars => [Abstract!Next]_holder
<1> SUFFICES ASSUME IInv, [Next]_vars
             PROVE  Abstract!Next \/ holder' = holder
  OBVIOUS
<1> USE DEF Abstract!Next
<1>1. ASSUME NEW t \in Threads, NEW o \in Objects,
             Reenter(t, o) \/ Open(t, o) \/ ExitNested(t, o) \/ Leave(t, o)
      PROVE  holder' = holder
  <2>1. Holders' = Holders
    BY <1>1, ReenterIInv, OpenIInv, ExitNestedIInv, LeaveIInv
  <2>2. lost' <=> lost
    BY <1>1 DEF Reenter, Open, ExitNested, Leave
  <2> QED
    BY <2>1, <2>2, SameHolder
<1>2. ASSUME NEW t \in Threads, Acquire(t)
      PROVE  Abstract!Take(t)
  <2>1. Holders = {} /\ Holders' = {t} /\ ~lost
    BY <1>2, AcquireIInv
  <2> QED
    BY <2>1 DEF holder, Abstract!Take
<1>3. ASSUME NEW t \in Threads, TimeOut(t) \/ CheckAndOwn(t)
      PROVE  holder' = holder
  <2>1. Holders' = Holders /\ IInv'
    BY <1>3, TimeOutIInv, CheckAndOwnIInv
  <2>2. lost' <=> lost
    <3>1. CASE TimeOut(t)
      BY <3>1 DEF TimeOut
    <3>2. CASE CheckAndOwn(t)
      <4>1. t \in Holders
        BY <3>2 DEF CheckAndOwn, Holders
      <4> QED
        BY <2>1, <4>1 DEF IInv, TokenConserved
    <3> QED
      BY <1>3, <3>1, <3>2
  <2> QED
    BY <2>1, <2>2, SameHolder
<1>4. ASSUME NEW t \in Threads, Release(t)
      PROVE  Abstract!Give(t)
  <2>1. Holders = {t} /\ Holders' = {} /\ ~lost'
    BY <1>4, ReleaseIInv
  <2> QED
    BY <2>1 DEF holder, Abstract!Give
<1>5. ASSUME NEW p \in Processes, Kill(p)
      PROVE  Abstract!Die \/ holder' = holder
  <2>1. CASE Holders' = Holders /\ (lost' <=> lost)
    BY <2>1, SameHolder
  <2>2. CASE Holders # {} /\ Holders' = {} /\ lost'
    <3>1. holder \in Threads
      BY <2>2 DEF holder, Holders
    <3> QED
      BY <2>2, <3>1 DEF holder, Abstract!Die
  <2> QED
    BY <1>5, <2>1, <2>2, KillIInv
<1>6. ASSUME Reset
      PROVE  Abstract!Revive
  BY <1>6, ResetIInv DEF holder, Abstract!Revive
<1>7. ASSUME UNCHANGED vars
      PROVE  holder' = holder
  BY <1>7, StutterIInv, SameHolder
<1> QED
  BY <1>1, <1>2, <1>3, <1>4, <1>5, <1>6, <1>7 DEF Next

\* The semaphore and the attribute implement Mutex.
THEOREM Refinement == Spec => MutexSpec
  BY InitMutex, NextMutex, Invariance, PTL DEF Spec, MutexSpec, Abstract!Spec
=============================================================================
