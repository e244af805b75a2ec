----------------------------- MODULE PullConsumer -----------------------------
(***************************************************************************)
(* A durable pull consumer of the stream SENTINELX_EVENTS_NORMALIZED, as   *)
(* the workers create it with js.pull_subscribe(durable=...): explicit     *)
(* acknowledgement, redelivery of what is not acknowledged within          *)
(* ack_wait, no limit on deliveries.  NATS itself is not part of the       *)
(* repository; these are the defaults the code relies on.                  *)
(***************************************************************************)
EXTENDS Naturals, FiniteSets

CONSTANTS
    Messages,    \* messages of the stream
    BatchSize    \* batch_size of a fetch

ASSUME ConsumerAssumption ==
    /\ IsFiniteSet(Messages)
    /\ BatchSize \in Nat \ {0}

VARIABLE
    delivery     \* per message: absent, waiting, inflight or settled

Deliveries == {"absent", "waiting", "inflight", "settled"}

ConsumerInit == delivery = [m \in Messages |-> "absent"]

(* The stream takes a message a producer published. *)
Stored(m) ==
    /\ delivery[m] = "absent"
    /\ delivery' = [delivery EXCEPT ![m] = "waiting"]

(* What one fetch may return. *)
Fetchable ==
    {batch \in SUBSET {m \in Messages : delivery[m] = "waiting"} :
        batch # {} /\ Cardinality(batch) <= BatchSize}

Fetched(batch) ==
    delivery' = [m \in Messages |-> IF m \in batch THEN "inflight" ELSE delivery[m]]

(* The acknowledgement of any delivery of a message settles it. *)
Acked(m) == delivery' = [delivery EXCEPT ![m] = "settled"]

(* ack_wait passes without one. *)
AckWaitEnds(m) ==
    /\ delivery[m] = "inflight"
    /\ delivery' = [delivery EXCEPT ![m] = "waiting"]
===============================================================================
