---------------------------- MODULE MCIndexerWorker ----------------------------
(* Instances of IndexerWorker for TLC. *)
EXTENDS IndexerWorker, TLC

CONSTANTS m1, m2, m3, w1, w2, a, b

(* The messages of the instances are of two tenants. *)
TwoTenants == [m \in Messages |-> IF m = m1 THEN a ELSE b]
===============================================================================
