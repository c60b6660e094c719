-------------------------- MODULE MCObselCollection --------------------------
(***************************************************************************)
(* Three URIs and three instants: obsels that last, that share their end,  *)
(* their begin or both, in any order of URIs.                              *)
(***************************************************************************)
EXTENDS ObselCollection
=============================================================================
