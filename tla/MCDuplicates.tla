------------------------------ MODULE MCDuplicates ------------------------------
(* Duplicates on a small instance. *)
EXTENDS Duplicates, TLC

Symmetry == Permutations(Hashes)
==================================================================================
