------------------------------ MODULE MCCatalogue ------------------------------
(* Catalogue with interchangeable calls. *)
EXTENDS Catalogue, TLC
CONSTANTS c1, c2

Symmetry == Permutations(Calls)
================================================================================
