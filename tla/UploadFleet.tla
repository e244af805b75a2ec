----------------------------- MODULE UploadFleet ------------------------------
(***************************************************************************)
(* UploadPipeline as it is deployed: some of the Workers run, one by        *)
(* default, more when the parser service is scaled, and the others are      *)
(* never started.                                                            *)
(***************************************************************************)
EXTENDS UploadPipeline

CONSTANTS
    FleetCrashes,   \* bounds on the deaths and on the actions of the operator
    FleetUi         \* where more than one worker runs

ASSUME FleetAssumption == IsFiniteSet(Workers) /\ FleetCrashes \in Nat /\ FleetUi \in Nat

VARIABLE fleet      \* the workers that run

FleetInit == Init /\ fleet \in (SUBSET Workers) \ {{}}

(* Bounds: several workers may be given less than the single one, a          *)
(* second death and a second action of the operator for instance.            *)
FleetNext ==
    /\ \/ \E u \in Uploads : \/ Receive(u) \/ Enqueue(u) \/ RequestDies(u)
                             \/ UiRequeue(u) \/ UiEngineRequeue(u) \/ Age(u)
       \/ UiPause
       \/ \E w \in fleet : Step(w) \/ Crash(w)
    /\ Cardinality(fleet) > 1 => crashes' <= FleetCrashes /\ ui' <= FleetUi
    /\ UNCHANGED fleet

FleetSpec == FleetInit /\ [][FleetNext]_<<vars, fleet>>

(* An upload shown as finished has been read to its end, if one worker runs, *)
(* or if its row was put in the queue only once.                             *)
FinishedWereRead ==
    \A u \in Uploads :
        (status[u] \in Done /\ (Cardinality(fleet) = 1 \/ epoch[u] <= 1)) => passes[u] > 0

(* ... and stays finished until it is put in the queue again: no parse, no   *)
(* failure and no mark of a worker that is still on the row takes it back.   *)
FinishedStays ==
    [][\A u \in Uploads :
          (status[u] \in Done /\ (Cardinality(fleet) = 1 \/ epoch[u] <= 1))
             => status'[u] \in Done \/ epoch'[u] > epoch[u]]_<<vars, fleet>>
===============================================================================
