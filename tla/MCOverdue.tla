----------------------------- MODULE MCOverdue -----------------------------
(* Instances of Overdue for TLC.                                            *)
EXTENDS Overdue, TLC

Symmetry == Permutations(Waits)
=============================================================================
