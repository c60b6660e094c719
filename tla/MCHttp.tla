------------------------------- MODULE MCHttp --------------------------------
(***************************************************************************)
(* Two clients that read, edit, post to and delete one resource.           *)
(***************************************************************************)
EXTENDS HttpClient, TLC

Symmetry == Permutations(Clients)
=============================================================================
