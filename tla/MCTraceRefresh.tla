--------------------------- MODULE MCTraceRefresh ----------------------------
(***************************************************************************)
(* A stored trace, a computed trace and another one computed from it; each *)
(* thread is a process, next to the one of bgcompute.                      *)
(***************************************************************************)
EXTENDS TraceRefresh, TLC

CONSTANTS s, a, b, th1, th2, d

ChainOfTwo == (a :> s) @@ (b :> a)
OneEach == [th \in Threads |-> th]
=============================================================================
