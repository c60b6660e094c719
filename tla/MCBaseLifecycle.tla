--------------------------- MODULE MCBaseLifecycle ---------------------------
(***************************************************************************)
(* A root, a base in it, and in that base a sub-base and an item.          *)
(***************************************************************************)
EXTENDS BaseLifecycle, TLC

CONSTANTS t1, t2, t3, b, sub, item

MCParent == (b :> Root) @@ (sub :> b) @@ (item :> b)
=============================================================================
