--------------------------- MODULE MCEditContext ---------------------------
(***************************************************************************)
(* EditContext for TLC: threads and resources are interchangeable.         *)
(***************************************************************************)
EXTENDS EditContext

CONSTANTS t1, t2, r1, r2, add

Symmetric == Permutations(Threads) \cup Permutations(Resources)
=============================================================================
