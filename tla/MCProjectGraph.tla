--------------------------- MODULE MCProjectGraph ---------------------------
(* Instances of ProjectGraph for TLC.                                       *)
EXTENDS ProjectGraph, TLC

\* Projects differ only in their name, and no property names one.
Symmetry == Permutations(Projects)
=============================================================================
