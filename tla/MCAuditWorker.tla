---------------------------- MODULE MCAuditWorker -----------------------------
(* AuditWorker with interchangeable entries. *)
EXTENDS AuditWorker, TLC
CONSTANTS e1, e2, e3, e4

Symmetry == Permutations({e1, e2, e3, e4})
===============================================================================
