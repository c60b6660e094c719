---------------------------- MODULE MCTraceGraph ----------------------------
(***************************************************************************)
(* TraceGraph for TLC: names are interchangeable.                          *)
(***************************************************************************)
EXTENDS TraceGraph, TLC

CONSTANTS s1, c1, c2, m1, m2, filter, fusion, a, b

Symmetric ==
  Permutations(ComputedNames) \cup Permutations(Methods) \cup Permutations(Builtins)
    \cup Permutations(Settings)
=============================================================================
