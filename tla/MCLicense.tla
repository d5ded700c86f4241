------------------------------- MODULE MCLicense -------------------------------
(* License for TLC. *)
EXTENDS License, TLC
CONSTANTS k1, k2, A, B

\* Keys are interchangeable.
Symmetry == Permutations({A, B})
================================================================================
