----------------------------- MODULE MCLifecycle ------------------------------
(* Lifecycle with two requests. *)
EXTENDS Lifecycle, TLC
CONSTANTS q1, q2
===============================================================================
