-------------------------- MODULE MCCorrelationWorker --------------------------
(* Instances of CorrelationWorker for TLC. *)
EXTENDS CorrelationWorker, TLC

CONSTANTS m1, m2, m3, w1, w2
===============================================================================
