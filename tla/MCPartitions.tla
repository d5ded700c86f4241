---------------------------- MODULE MCPartitions -----------------------------
(* Partitions with interchangeable replicas. *)
EXTENDS Partitions, TLC
CONSTANTS r1, r2
===============================================================================
