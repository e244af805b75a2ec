----------------------------- MODULE IndexerWorker -----------------------------
(***************************************************************************)
(* OpenSearchIndexerWorker (app/workers/opensearch_indexer_worker.py) with *)
(* OpenSearchClient.bulk_index_events (app/core/opensearch_client.py):     *)
(* fetch a batch, send the undecodable messages to the dead-letter queue,  *)
(* index the rest with one bulk request, then settle message by message.   *)
(*                                                                         *)
(* Any number of workers share the durable consumer.  A document is        *)
(* created with the event id as _id, so a second creation in the same data *)
(* stream is a conflict (409), which the bulk response lists among its     *)
(* failed items like a mapping rejection (400).                            *)
(***************************************************************************)
EXTENDS PullConsumer

CONSTANTS
    Workers,
    Tenants,
    TenantOf,     \* tenant.id of each message
    Corrupt,      \* messages that do not decode into a NormalizedEvent
    Refused,      \* messages whose document the mapping rejects
    DlqMayFail,   \* publish_dlq may return False
    MaxFaults     \* bound: outages, faults, lost acknowledgements and deaths

ASSUME IndexerAssumption ==
    /\ TenantOf \in [Messages -> Tenants]
    /\ Corrupt \subseteq Messages
    /\ Refused \subseteq Messages
    /\ DlqMayFail \in BOOLEAN
    /\ MaxFaults \in Nat

VARIABLES
    pc,       \* where each worker stands: fetch, corrupt, bulk, settle
    batch,    \* messages of the worker's batch not yet dealt with
    failed,   \* failed_event_ids of the worker's bulk response
    index,    \* documents: pairs of a tenant's data stream and a message
    dlq,      \* the dead-letter queue: pairs of a message and a reason
    busy,     \* ghost: messages a bulk response turned away for its load
    faults    \* faults so far

local == <<pc, batch, failed>>
vars  == <<delivery, local, index, dlq, busy, faults>>

Reasons == {"indexer_parse_error", "opensearch_mapping_rejected"}

Indexed == {m \in Messages : \E t \in Tenants : <<t, m>> \in index}
DeadLettered == {m \in Messages : \E r \in Reasons : <<m, r>> \in dlq}

Init ==
    /\ ConsumerInit
    /\ pc = [w \in Workers |-> "fetch"]
    /\ batch = [w \in Workers |-> {}]
    /\ failed = [w \in Workers |-> {}]
    /\ index = {}
    /\ dlq = {}
    /\ busy = {}
    /\ faults = 0

Fault == faults < MaxFaults /\ faults' = faults + 1

(* A producer, the ingestion API or a parsing worker, publishes. *)
Publish(m) ==
    /\ Stored(m)
    /\ UNCHANGED <<local, index, dlq, busy, faults>>

Redeliver(m) ==
    /\ AckWaitEnds(m)
    /\ UNCHANGED <<local, index, dlq, busy, faults>>

-------------------------------------------------------------------------------

(* Mutant: one undecodable message rejects its whole batch. *)
Undecodable_Batch(b) == IF b \cap Corrupt = {} THEN {} ELSE b

Undecodable(b) == b \cap Corrupt

(* What is to be done with the messages left in a batch. *)
NextPc(b) ==
    IF b = {} THEN "fetch" ELSE IF Undecodable(b) = {} THEN "bulk" ELSE "corrupt"

Fetch(w) ==
    /\ pc[w] = "fetch"
    /\ \E b \in Fetchable :
        /\ Fetched(b)
        /\ batch' = [batch EXCEPT ![w] = b]
        /\ pc' = [pc EXCEPT ![w] = NextPc(b)]
    /\ UNCHANGED <<failed, index, dlq, busy, faults>>

(* publish_dlq returns False, which no caller looks at, when it fails. *)
DeadLetter(m, reason) ==
    \/ dlq' = dlq \cup {<<m, reason>>}
    \/ DlqMayFail /\ dlq' = dlq

(* msg.ack(): one that fails is swallowed and the message stays in flight. *)
Ack(m) ==
    \/ Acked(m) /\ UNCHANGED faults
    \/ Fault /\ UNCHANGED delivery

(* Mutant: only what was indexed is acknowledged. *)
AckDeadLetter_Never(m) == UNCHANGED <<delivery, faults>>

(* A message sent to the dead-letter queue is acknowledged too. *)
AckDeadLetter(m) == Ack(m)

(* An undecodable message goes to the dead-letter queue. *)
RejectCorrupt(w) ==
    /\ pc[w] = "corrupt"
    /\ \E m \in Undecodable(batch[w]) :
        /\ DeadLetter(m, "indexer_parse_error")
        /\ AckDeadLetter(m)
        /\ batch' = [batch EXCEPT ![w] = @ \ {m}]
        /\ pc' = [pc EXCEPT ![w] = NextPc(batch[w] \ {m})]
    /\ UNCHANGED <<failed, index, busy>>

(* The stream of the whole batch: that of the tenant of its first event.    *)
(* The order of the batch is that of the producers, so any may come first.  *)
TargetStreams(w) == {TenantOf[m] : m \in batch[w]}

(* The ids under "create" in the failed items of the response. *)
FailedIds(items) == items

(* Documents of the batch that its target stream has already. *)
Present(w, t) == {m \in batch[w] : <<t, m>> \in index}

(* The bulk request is answered.  The documents of "early" were created by  *)
(* an attempt whose answer timed out (retry_on_timeout), and conflict in    *)
(* the attempt that is answered, like those that were there before.  Those  *)
(* of "turned" are turned away by a full write queue (429).                 *)
BulkAnswered(w) ==
    /\ pc[w] = "bulk"
    /\ \E t \in TargetStreams(w),
          early \in SUBSET (batch[w] \ Refused), turned \in SUBSET (batch[w] \ Refused) :
        /\ early \cap Present(w, t) = {}
        /\ turned \cap (early \cup Present(w, t)) = {}
        /\ \/ early \cup turned = {} /\ UNCHANGED faults
           \/ early \cup turned # {} /\ Fault
        /\ index' = index \cup ({t} \X (batch[w] \ (Refused \cup turned)))
        /\ failed' = [failed EXCEPT ![w] = FailedIds(
                Present(w, t) \cup early \cup turned \cup (batch[w] \cap Refused))]
        /\ busy' = busy \cup turned
    /\ pc' = [pc EXCEPT ![w] = "settle"]
    /\ UNCHANGED <<delivery, batch, dlq>>

(* Mutant: the batch of a failed request is acknowledged. *)
AfterOutage_Settle == "settle"

AfterOutage == "fetch"

(* OpenSearch is unreachable, or the request ends in an error after some of *)
(* the documents were created: nothing is acknowledged.                      *)
BulkFailed(w) ==
    /\ pc[w] = "bulk"
    /\ Fault
    /\ \E t \in TargetStreams(w), some \in SUBSET (batch[w] \ Refused) :
        index' = index \cup ({t} \X some)
    /\ pc' = [pc EXCEPT ![w] = AfterOutage]
    /\ failed' = [failed EXCEPT ![w] = {}]
    /\ batch' = [batch EXCEPT ![w] = IF AfterOutage = "fetch" THEN {} ELSE @]
    /\ UNCHANGED <<delivery, dlq, busy>>

FailureReason == "opensearch_mapping_rejected"

(* Each message of the answered batch is settled. *)
Settle(w) ==
    /\ pc[w] = "settle"
    /\ \E m \in batch[w] :
        /\ IF m \in failed[w]
             THEN DeadLetter(m, FailureReason) /\ AckDeadLetter(m)
             ELSE Ack(m) /\ UNCHANGED dlq
        /\ batch' = [batch EXCEPT ![w] = @ \ {m}]
        /\ pc' = [pc EXCEPT ![w] = IF batch[w] = {m} THEN "fetch" ELSE "settle"]
    /\ UNCHANGED <<failed, index, busy>>

(* The worker dies and starts again. *)
Crash(w) ==
    /\ pc[w] # "fetch"
    /\ Fault
    /\ pc' = [pc EXCEPT ![w] = "fetch"]
    /\ batch' = [batch EXCEPT ![w] = {}]
    /\ failed' = [failed EXCEPT ![w] = {}]
    /\ UNCHANGED <<delivery, index, dlq, busy>>

-------------------------------------------------------------------------------

Step(w) ==
    \/ Fetch(w) \/ RejectCorrupt(w) \/ BulkAnswered(w) \/ BulkFailed(w) \/ Settle(w)

Next ==
    \/ \E m \in Messages : Publish(m) \/ Redeliver(m)
    \/ \E w \in Workers : Step(w) \/ Crash(w)

Spec == Init /\ [][Next]_vars

(* The workers loop for ever and the broker redelivers; nothing obliges a   *)
(* producer to publish.  Faults are bounded, so an outage ends.              *)
FairSpec ==
    /\ Spec
    /\ \A w \in Workers : WF_vars(Step(w))
    /\ \A m \in Messages : WF_vars(Redeliver(m))

-------------------------------------------------------------------------------

TypeOK ==
    /\ delivery \in [Messages -> Deliveries]
    /\ pc \in [Workers -> {"fetch", "corrupt", "bulk", "settle"}]
    /\ batch \in [Workers -> SUBSET Messages]
    /\ failed \in [Workers -> SUBSET Messages]
    /\ index \subseteq Tenants \X Messages
    /\ dlq \subseteq Messages \X Reasons
    /\ busy \subseteq Messages
    /\ faults \in Nat

(* docs/ADR/002: an event is acknowledged when it is indexed or when it is  *)
(* in the dead-letter queue.  Holds when the dead-letter publication does.  *)
SettledIsKept ==
    \A m \in Messages : delivery[m] = "settled" => m \in Indexed \cup DeadLettered

(* The same, as the implementation of what every consumer promises. *)
Contract == INSTANCE SinkContract WITH
    kept    <- Indexed \cup DeadLettered,
    settled <- {m \in Messages : delivery[m] = "settled"}

KeepsContract == Contract!Spec

(* An event of the dead-letter queue is one OpenSearch refused or turned    *)
(* away, or it is in the index as well: an outage, a retry, a redelivery or *)
(* a bad neighbour in its batch never costs an event its document.          *)
OnlyRefusedAreMissing ==
    \A m \in DeadLettered : m \in Corrupt \cup Refused \cup busy \cup Indexed

(* docs/ADR/002: neither a rejected event nor an outage blocks the queue:   *)
(* what is delivered is settled in the end.                                 *)
EveryMessageSettles ==
    \A m \in Messages : delivery[m] = "waiting" ~> delivery[m] = "settled"
===============================================================================
