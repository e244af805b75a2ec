--------------------------- MODULE MCUploadPipeline ---------------------------
(* Instances of UploadPipeline and UploadFleet for TLC: one worker, or two.  *)
EXTENDS UploadFleet, TLC

CONSTANTS w1, w2

Pair == {w1, w2}
WorkerSymmetry == Permutations(Pair)
===============================================================================
