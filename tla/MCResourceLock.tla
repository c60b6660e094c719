--------------------------- MODULE MCResourceLock ---------------------------
(***************************************************************************)
(* Two processes.  In the first, two threads share two python objects that *)
(* stand for the same resource; the second has one thread and one object.  *)
(***************************************************************************)
EXTENDS ResourceLock, TLC

CONSTANTS t1, t2, t3, o1, o2, o3, p1, p2

MCThreads == {t1, t2, t3}
MCObjects == {o1, o2, o3}
MCProcesses == {p1, p2}
MCHome == (t1 :> p1) @@ (t2 :> p1) @@ (t3 :> p2)
          @@ (o1 :> p1) @@ (o2 :> p1) @@ (o3 :> p2)
=============================================================================
