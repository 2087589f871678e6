------------------------------ MODULE MCLsmTree ------------------------------
(* LsmTree on small instances.                                             *)
EXTENDS LsmTree, TLC

Symmetry == Permutations(Keys) \cup Permutations(Values)
=============================================================================
