---------------------------- MODULE MCCoroutine ----------------------------
(* Three coroutines no code tells apart. *)
EXTENDS Coroutine

Symmetry == Permutations(Coroutines)

=============================================================================
