------------------------------- MODULE MCPublish -------------------------------
(* Publish with two plugin versions. *)
EXTENDS Publish, TLC
CONSTANTS v1, v2
===============================================================================
