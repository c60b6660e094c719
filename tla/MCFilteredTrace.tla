--------------------------- MODULE MCFilteredTrace ---------------------------
(***************************************************************************)
(* Instances of FilteredTrace, with boundaries within 0 .. 2.              *)
(***************************************************************************)
EXTENDS FilteredTrace

MCBounds == {[min |-> NoTime, max |-> 1], [min |-> 1, max |-> NoTime]}

NoBounds == {[min |-> NoTime, max |-> NoTime]}
=============================================================================
