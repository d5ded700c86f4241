------------------------------ MODULE MCJobPool ------------------------------
(* JobPool for TLC. *)
EXTENDS JobPool, TLC
===============================================================================
