------------------------------ MODULE MCConsult ------------------------------
(* Consult for TLC. *)
EXTENDS Consult, TLC

Symmetry == Permutations(Callers)
===============================================================================
