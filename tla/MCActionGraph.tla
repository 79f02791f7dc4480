--------------------------- MODULE MCActionGraph ---------------------------
(* Instances of ActionGraph for TLC.                                        *)
EXTENDS ActionGraph, TLC

\* Actions differ only in their name, and no property names one.
Symmetry == Permutations(Actions)
=============================================================================
