----------------------------- MODULE MCGenLimiter -----------------------------
(* GenLimiter for TLC. *)
EXTENDS GenLimiter, TLC

\* Calls are interchangeable in every safety property.
Symmetry == Permutations(Calls)
===============================================================================
