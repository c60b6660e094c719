------------------------------- MODULE Mutex -------------------------------
(***************************************************************************)
(* What the lock of one kTBS resource promises to the threads of all the   *)
(* processes that serve it: at most one of them is in charge at a time,    *)
(* and a process that dies in charge leaves the resource dead, available   *)
(* to nobody, until the administrator revives it with ktbs-reset-locks.    *)
(* ResourceLock is the mechanism (lib/ktbs/engine/lock.py) that implements *)
(* this.                                                                   *)
(***************************************************************************)
CONSTANTS Threads, Nobody, Dead

VARIABLE holder

Init == holder = Nobody

Take(t) == holder = Nobody /\ holder' = t

Give(t) == holder = t /\ holder' = Nobody

Die == holder \in Threads /\ holder' = Dead

Revive == holder = Dead /\ holder' = Nobody

Next == \/ \E t \in Threads : Take(t) \/ Give(t)
        \/ Die
        \/ Revive

Spec == Init /\ [][Next]_holder
=============================================================================
