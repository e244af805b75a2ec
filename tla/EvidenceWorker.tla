---------------------------- MODULE EvidenceWorker ----------------------------
(***************************************************************************)
(* MinioEvidenceWorker (app/workers/minio_evidence_worker.py) with         *)
(* EvidenceService (app/services/evidence_service.py): each message of a   *)
(* batch is uploaded to MinIO and acknowledged, one after the other.       *)
(*                                                                         *)
(* EvidenceService keeps a flag per process, set by the first successful   *)
(* connect() and never cleared.  A worker without it leaves the message    *)
(* unacknowledged while MinIO is down; a worker with it goes on to         *)
(* put_object, whose failure it treats like any other error.               *)
(***************************************************************************)
EXTENDS PullConsumer

CONSTANTS
    Workers,
    Corrupt,      \* messages that do not decode into a NormalizedEvent
    DlqMayFail,   \* publish_dlq may return False
    MaxFaults     \* bound: outages, failed uploads, lost acknowledgements, deaths

ASSUME EvidenceAssumption ==
    /\ Corrupt \subseteq Messages
    /\ DlqMayFail \in BOOLEAN
    /\ MaxFaults \in Nat

VARIABLES
    up,          \* MinIO answers
    connected,   \* EvidenceService._connected of each worker's process
    batch,       \* messages of the worker's batch not yet dealt with
    stored,      \* messages with an object in the bucket
    dlq,         \* messages in the dead-letter queue
    failedPuts,  \* ghost: messages whose put_object raised
    faults       \* faults so far

sink == <<stored, dlq, failedPuts>>
vars == <<delivery, up, connected, batch, sink, faults>>

Init ==
    /\ ConsumerInit
    /\ up \in BOOLEAN
    /\ connected = [w \in Workers |-> FALSE]
    /\ batch = [w \in Workers |-> {}]
    /\ stored = {} /\ dlq = {} /\ failedPuts = {}
    /\ faults = 0

Fault == faults < MaxFaults /\ faults' = faults + 1

Publish(m) == Stored(m) /\ UNCHANGED <<up, connected, batch, sink, faults>>

Redeliver(m) == AckWaitEnds(m) /\ UNCHANGED <<up, connected, batch, sink, faults>>

Outage == up /\ Fault /\ up' = FALSE /\ UNCHANGED <<delivery, connected, batch, sink>>

Recovery == ~up /\ up' = TRUE /\ UNCHANGED <<delivery, connected, batch, sink, faults>>

-------------------------------------------------------------------------------

Fetch(w) ==
    /\ batch[w] = {}
    /\ \E b \in Fetchable : Fetched(b) /\ batch' = [batch EXCEPT ![w] = b]
    /\ UNCHANGED <<up, connected, sink, faults>>

Leave(w, m) == batch' = [batch EXCEPT ![w] = @ \ {m}]

(* publish_dlq returns False, which the worker does not look at, when it    *)
(* fails; then the message is acknowledged, and a failure is swallowed.      *)
DeadLetter(m) ==
    /\ dlq' = dlq \cup {m} \/ (DlqMayFail /\ dlq' = dlq)
    /\ \/ Acked(m) /\ UNCHANGED faults
       \/ Fault /\ UNCHANGED delivery

OnDecodeError(m) == DeadLetter(m)

RejectCorrupt(w) ==
    /\ \E m \in batch[w] \cap Corrupt : OnDecodeError(m) /\ Leave(w, m)
    /\ UNCHANGED <<up, connected, stored, failedPuts>>

(* upload_evidence connects first where the process has not yet. *)
Connect(w) ==
    /\ batch[w] \ Corrupt # {} /\ ~connected[w] /\ up
    /\ connected' = [connected EXCEPT ![w] = TRUE]
    /\ UNCHANGED <<delivery, up, batch, sink, faults>>

(* Mutant: the offline branch acknowledges like the others. *)
OnUnavailable_Ack(m) == Acked(m)

(* MinioUnavailableError: no acknowledgement, the broker keeps the message. *)
OnUnavailable(m) == UNCHANGED delivery

Unavailable(w) ==
    /\ ~connected[w] /\ ~up
    /\ \E m \in batch[w] \ Corrupt : OnUnavailable(m) /\ Leave(w, m)
    /\ UNCHANGED <<up, connected, sink, faults>>

(* Mutant: an object with the key is taken to be there already. *)
Put_Assumed(m) == {}

(* put_object: one object per event id, so a second upload replaces it. *)
Put(m) == {m}

(* The object is stored.  When the acknowledgement raises, the handler of   *)
(* upload errors sends the message to the dead-letter queue as well.         *)
Upload(w) ==
    /\ connected[w] /\ up
    /\ \E m \in batch[w] \ Corrupt :
        /\ stored' = stored \cup Put(m)
        /\ \/ Acked(m) /\ UNCHANGED <<dlq, faults>>
           \/ /\ Fault
              /\ dlq' = dlq \cup {m} \/ (DlqMayFail /\ dlq' = dlq)
              /\ Acked(m) \/ UNCHANGED delivery
        /\ Leave(w, m)
    /\ UNCHANGED <<up, connected, failedPuts>>

(* put_object raises, perhaps after MinIO stored the object. *)
UploadFails(w) ==
    /\ connected[w] /\ ~up
    /\ \E m \in batch[w] \ Corrupt :
        /\ stored' \in {stored, stored \cup {m}}
        /\ failedPuts' = failedPuts \cup {m}
        /\ DeadLetter(m) /\ Leave(w, m)
    /\ UNCHANGED <<up, connected>>

(* The worker dies and starts again, with a new EvidenceService. *)
Crash(w) ==
    /\ batch[w] # {} \/ connected[w]
    /\ Fault
    /\ batch' = [batch EXCEPT ![w] = {}]
    /\ connected' = [connected EXCEPT ![w] = FALSE]
    /\ UNCHANGED <<delivery, up, sink>>

-------------------------------------------------------------------------------

Step(w) ==
    \/ Fetch(w) \/ RejectCorrupt(w) \/ Connect(w)
    \/ Unavailable(w) \/ Upload(w) \/ UploadFails(w)

Next ==
    \/ \E m \in Messages : Publish(m) \/ Redeliver(m)
    \/ \E w \in Workers : Step(w) \/ Crash(w)
    \/ Outage \/ Recovery

Spec == Init /\ [][Next]_vars

(* The workers loop for ever, the broker redelivers and MinIO comes back. *)
FairSpec ==
    /\ Spec
    /\ \A w \in Workers : WF_vars(Step(w))
    /\ \A m \in Messages : WF_vars(Redeliver(m))
    /\ WF_vars(Recovery)

-------------------------------------------------------------------------------

TypeOK ==
    /\ delivery \in [Messages -> Deliveries]
    /\ up \in BOOLEAN
    /\ connected \in [Workers -> BOOLEAN]
    /\ batch \in [Workers -> SUBSET Messages]
    /\ stored \subseteq Messages /\ dlq \subseteq Messages /\ failedPuts \subseteq Messages
    /\ faults \in Nat

Settled == {m \in Messages : delivery[m] = "settled"}

(* The worker is one more consumer of the stream: what it settles is in the *)
(* bucket or in the dead-letter queue.                                       *)
Contract == INSTANCE SinkContract WITH kept <- stored \cup dlq, settled <- Settled

KeepsContract == Contract!Spec

(* Evidence that is missing for good had an upload of its own fail: a lost  *)
(* acknowledgement, a death or another message's trouble costs none.         *)
OnlyFailedUploadsAreMissing == Settled \subseteq Corrupt \cup failedPuts \cup stored

(* docs/ADR/003: while MinIO is offline the worker does not acknowledge and *)
(* the broker keeps the message.                                             *)
OfflineIsRetained ==
    [][~up => Settled' \subseteq Settled \cup Corrupt]_vars

===============================================================================
