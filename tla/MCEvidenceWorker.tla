--------------------------- MODULE MCEvidenceWorker ---------------------------
(* Instances of EvidenceWorker for TLC. *)
EXTENDS EvidenceWorker, TLC

CONSTANTS m1, m2, m3, w1, w2
===============================================================================
