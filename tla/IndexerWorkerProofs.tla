-------------------------- MODULE IndexerWorkerProofs --------------------------
(* Theorems of IndexerWorker, for every number of messages and workers. *)
EXTENDS IndexerWorker, TLAPS

USE DEF local

(* A message whose bulk item did not fail has its document when its turn to *)
(* be acknowledged comes: why Settle may acknowledge it.                     *)
AnsweredIsIndexed ==
    \A w \in Workers : pc[w] = "settle" => batch[w] \ failed[w] \subseteq Indexed

(* A failed item is one OpenSearch refused or turned away, or a conflict,   *)
(* which only a document that is there can cause.                            *)
FailedIsRefused ==
    \A w \in Workers :
        pc[w] = "settle" => batch[w] \cap failed[w] \subseteq Refused \cup busy \cup Indexed

Inv == TypeOK /\ AnsweredIsIndexed /\ FailedIsRefused /\ OnlyRefusedAreMissing

(* Every step keeps the types. *)
LEMMA TypePreserved == TypeOK /\ [Next]_vars => TypeOK'
<1> SUFFICES ASSUME TypeOK, [Next]_vars PROVE TypeOK'
    OBVIOUS
<1> USE IndexerAssumption DEF TypeOK, Deliveries, Reasons, Fault
<1>1. ASSUME NEW m \in Messages, Publish(m) \/ Redeliver(m) PROVE TypeOK'
    BY <1>1 DEF Publish, Redeliver, Stored, AckWaitEnds
<1>2. ASSUME NEW w \in Workers, Fetch(w) PROVE TypeOK'
  <2>1. PICK b \in Fetchable :
            /\ Fetched(b)
            /\ batch' = [batch EXCEPT ![w] = b]
            /\ pc' = [pc EXCEPT ![w] = NextPc(b)]
      BY <1>2 DEF Fetch
  <2>2. b \in SUBSET Messages
      BY DEF Fetchable
  <2> QED
      BY <1>2, <2>1, <2>2 DEF Fetch, Fetched, NextPc
<1>3. ASSUME NEW w \in Workers, RejectCorrupt(w) PROVE TypeOK'
    BY <1>3 DEF RejectCorrupt, Undecodable, DeadLetter, AckDeadLetter, Ack, Acked, NextPc
<1>4. ASSUME NEW w \in Workers, BulkAnswered(w) PROVE TypeOK'
    BY <1>4 DEF BulkAnswered, TargetStreams, Present, FailedIds
<1>5. ASSUME NEW w \in Workers, BulkFailed(w) PROVE TypeOK'
    BY <1>5 DEF BulkFailed, TargetStreams, AfterOutage
<1>6. ASSUME NEW w \in Workers, Settle(w) PROVE TypeOK'
    BY <1>6 DEF Settle, DeadLetter, AckDeadLetter, Ack, Acked, FailureReason
<1>7. ASSUME NEW w \in Workers, Crash(w) PROVE TypeOK'
    BY <1>7 DEF Crash
<1>8. CASE UNCHANGED vars
    BY <1>8 DEF vars
<1> QED
    BY <1>1, <1>2, <1>3, <1>4, <1>5, <1>6, <1>7, <1>8 DEF Next, Step

(* Type correctness: the state keeps its types. *)
THEOREM TypeCorrect == Spec => []TypeOK
<1>1. Init => TypeOK
    BY IndexerAssumption DEF Init, ConsumerInit, TypeOK, Deliveries
<1> QED
    BY <1>1, TypePreserved, PTL DEF Spec

(* Documents, dead letters and settled messages are never taken back. *)
LEMMA Monotone ==
    ASSUME TypeOK, [Next]_vars
    PROVE  /\ index \subseteq index' /\ dlq \subseteq dlq' /\ busy \subseteq busy'
           /\ Indexed \subseteq Indexed' /\ DeadLettered \subseteq DeadLettered'
           /\ \A m \in Messages : delivery[m] = "settled" => delivery'[m] = "settled"
<1> DEFINE Grow == index \subseteq index' /\ dlq \subseteq dlq' /\ busy \subseteq busy'
           Stay == \A m \in Messages : delivery[m] = "settled" => delivery'[m] = "settled"
<1> USE DEF TypeOK
<1>1. ASSUME NEW n \in Messages, Publish(n) \/ Redeliver(n) PROVE Grow /\ Stay
    BY <1>1 DEF Publish, Redeliver, Stored, AckWaitEnds
<1>2. ASSUME NEW w \in Workers, Fetch(w) PROVE Grow /\ Stay
    BY <1>2 DEF Fetch, Fetched, Fetchable
<1>3. ASSUME NEW w \in Workers, RejectCorrupt(w) PROVE Grow /\ Stay
    BY <1>3 DEF RejectCorrupt, Undecodable, DeadLetter, AckDeadLetter, Ack, Acked
<1>4. ASSUME NEW w \in Workers, BulkAnswered(w) \/ BulkFailed(w) PROVE Grow /\ Stay
    BY <1>4 DEF BulkAnswered, BulkFailed
<1>5. ASSUME NEW w \in Workers, Settle(w) PROVE Grow /\ Stay
    BY <1>5 DEF Settle, DeadLetter, AckDeadLetter, Ack, Acked
<1>6. ASSUME NEW w \in Workers, Crash(w) PROVE Grow /\ Stay
    BY <1>6 DEF Crash
<1>7. ASSUME UNCHANGED vars PROVE Grow /\ Stay
    BY <1>7 DEF vars
<1>8. Grow /\ Stay
    BY <1>1, <1>2, <1>3, <1>4, <1>5, <1>6, <1>7 DEF Next, Step
<1> QED
    BY <1>8 DEF Indexed, DeadLettered

(* Every step keeps what Settle relies on: the bulk response names every    *)
(* document the request did not leave in the index.                          *)
LEMMA AnswerPreserved ==
    ASSUME TypeOK, AnsweredIsIndexed, FailedIsRefused, [Next]_vars
    PROVE  AnsweredIsIndexed' /\ FailedIsRefused'
<1> DEFINE Goal == AnsweredIsIndexed' /\ FailedIsRefused'
<1>1. Indexed \subseteq Indexed' /\ busy \subseteq busy'
    BY Monotone
<1> USE <1>1 DEF AnsweredIsIndexed, FailedIsRefused, TypeOK
<1>2. ASSUME NEW m \in Messages, Publish(m) \/ Redeliver(m) PROVE Goal
    BY <1>2 DEF Publish, Redeliver
<1>3. ASSUME NEW w \in Workers, Fetch(w) PROVE Goal
    BY <1>3 DEF Fetch, NextPc
<1>4. ASSUME NEW w \in Workers, RejectCorrupt(w) PROVE Goal
    BY <1>4 DEF RejectCorrupt, NextPc
<1>5. ASSUME NEW w \in Workers, BulkAnswered(w) PROVE Goal
  <2>1. PICK t \in TargetStreams(w), early \in SUBSET (batch[w] \ Refused),
             turned \in SUBSET (batch[w] \ Refused) :
            /\ turned \cap (early \cup Present(w, t)) = {}
            /\ index' = index \cup ({t} \X (batch[w] \ (Refused \cup turned)))
            /\ failed' = [failed EXCEPT ![w] = FailedIds(
                   Present(w, t) \cup early \cup turned \cup (batch[w] \cap Refused))]
            /\ busy' = busy \cup turned
      BY <1>5 DEF BulkAnswered
  <2>2. t \in Tenants /\ batch[w] \subseteq Messages
      BY IndexerAssumption DEF TargetStreams
  <2>3. \A m \in batch[w] \ (Refused \cup turned) : m \in Indexed'
      BY <2>1, <2>2 DEF Indexed
  <2>4. Present(w, t) \subseteq Indexed
      BY <2>2 DEF Present, Indexed
  <2>5. failed'[w] = Present(w, t) \cup early \cup turned \cup (batch[w] \cap Refused)
      BY <2>1 DEF FailedIds
  <2>6. batch[w] \ failed'[w] \subseteq Indexed'
      BY <2>3, <2>5
  <2>7. batch[w] \cap failed'[w] \subseteq Refused \cup busy' \cup Indexed'
      BY <2>1, <2>3, <2>4, <2>5
  <2>8. /\ batch' = batch /\ pc' = [pc EXCEPT ![w] = "settle"]
        /\ \A v \in Workers \ {w} : failed'[v] = failed[v]
      BY <1>5, <2>1 DEF BulkAnswered
  <2> QED
      BY <2>6, <2>7, <2>8
<1>6. ASSUME NEW w \in Workers, BulkFailed(w) PROVE Goal
    BY <1>6 DEF BulkFailed, AfterOutage
<1>7. ASSUME NEW w \in Workers, Settle(w) PROVE Goal
    BY <1>7 DEF Settle
<1>8. ASSUME NEW w \in Workers, Crash(w) PROVE Goal
    BY <1>8 DEF Crash
<1>9. CASE UNCHANGED vars
    BY <1>9 DEF vars
<1> QED
    BY <1>2, <1>3, <1>4, <1>5, <1>6, <1>7, <1>8, <1>9 DEF Next, Step

(* What one step adds to the dead-letter queue. *)
LEMMA DeadLettersFrom ==
    ASSUME TypeOK, FailedIsRefused, [Next]_vars
    PROVE  DeadLettered' \subseteq DeadLettered \cup Corrupt \cup Refused \cup busy \cup Indexed
<1> DEFINE Sound(m) == m \in Corrupt \cup Refused \cup busy \cup Indexed
<1> SUFFICES ASSUME NEW m \in Messages, NEW r \in Reasons, <<m, r>> \in dlq', <<m, r>> \notin dlq
             PROVE  Sound(m)
    BY DEF DeadLettered
<1> USE DEF TypeOK
<1>1. ASSUME NEW w \in Workers, RejectCorrupt(w) PROVE Sound(m)
    BY <1>1 DEF RejectCorrupt, DeadLetter, Undecodable
<1>2. ASSUME NEW w \in Workers, Settle(w) PROVE Sound(m)
    BY <1>2 DEF Settle, DeadLetter, FailedIsRefused
<1>3. ASSUME NEW w \in Workers, Fetch(w) \/ BulkAnswered(w) \/ BulkFailed(w) \/ Crash(w)
      PROVE  dlq' = dlq
    BY <1>3 DEF Fetch, BulkAnswered, BulkFailed, Crash
<1>4. ASSUME NEW n \in Messages, Publish(n) \/ Redeliver(n) PROVE dlq' = dlq
    BY <1>4 DEF Publish, Redeliver
<1>5. CASE UNCHANGED vars
    BY <1>5 DEF vars
<1> QED
    BY <1>1, <1>2, <1>3, <1>4, <1>5 DEF Next, Step

LEMMA Invariance == Spec => []Inv
<1>1. Init => Inv
  <2> SUFFICES ASSUME Init PROVE Inv
      OBVIOUS
  <2>1. TypeOK
      BY IndexerAssumption DEF Init, ConsumerInit, TypeOK, Deliveries
  <2> QED
      BY <2>1 DEF Init, Inv, AnsweredIsIndexed, FailedIsRefused, OnlyRefusedAreMissing, DeadLettered
<1>2. Inv /\ [Next]_vars => Inv'
  <2> SUFFICES ASSUME Inv, [Next]_vars PROVE Inv'
      OBVIOUS
  <2>1. TypeOK' /\ AnsweredIsIndexed' /\ FailedIsRefused'
      BY TypePreserved, AnswerPreserved DEF Inv
  <2>2. OnlyRefusedAreMissing'
      BY Monotone, DeadLettersFrom DEF Inv, OnlyRefusedAreMissing
  <2> QED
      BY <2>1, <2>2 DEF Inv
<1> QED
    BY <1>1, <1>2, PTL DEF Spec

(* An event that went to the dead-letter queue was refused or turned away,  *)
(* or its document exists: redelivery, outages and lost acknowledgements    *)
(* never cost an event its document.                                         *)
THEOREM RefusalsOnly == Spec => []OnlyRefusedAreMissing
<1>1. Inv => OnlyRefusedAreMissing
    BY DEF Inv
<1> QED
    BY <1>1, Invariance, PTL

(* What one step settles is in the index or in the dead-letter queue, when  *)
(* the dead-letter publication does not fail.                                *)
LEMMA SettledFrom ==
    ASSUME ~DlqMayFail, TypeOK, AnsweredIsIndexed, [Next]_vars,
           NEW m \in Messages, delivery[m] # "settled", delivery'[m] = "settled"
    PROVE  m \in Indexed' \cup DeadLettered'
<1> USE DEF TypeOK
<1>1. ASSUME NEW w \in Workers, RejectCorrupt(w) PROVE m \in DeadLettered'
    BY <1>1 DEF RejectCorrupt, Undecodable, DeadLetter, AckDeadLetter, Ack, Acked,
                DeadLettered, Reasons
<1>2. ASSUME NEW w \in Workers, Settle(w) PROVE m \in Indexed' \cup DeadLettered'
  <2>1. PICK n \in batch[w] :
            IF n \in failed[w] THEN DeadLetter(n, FailureReason) /\ AckDeadLetter(n)
                               ELSE Ack(n) /\ UNCHANGED dlq
      BY <1>2 DEF Settle
  <2>2. n = m
      BY <2>1 DEF AckDeadLetter, Ack, Acked
  <2>3. CASE n \in failed[w]
      BY <2>1, <2>2, <2>3 DEF DeadLetter, DeadLettered, Reasons, FailureReason
  <2>4. CASE n \notin failed[w]
    <3>1. n \in Indexed /\ index' = index
        BY <1>2, <2>4 DEF Settle, AnsweredIsIndexed
    <3> QED
        BY <2>2, <3>1 DEF Indexed
  <2> QED
      BY <2>3, <2>4
<1>3. ASSUME NEW w \in Workers, Fetch(w) PROVE FALSE
    BY <1>3 DEF Fetch, Fetched
<1>4. ASSUME NEW w \in Workers, BulkAnswered(w) \/ BulkFailed(w) \/ Crash(w) PROVE FALSE
    BY <1>4 DEF BulkAnswered, BulkFailed, Crash
<1>5. ASSUME NEW n \in Messages, Publish(n) \/ Redeliver(n) PROVE FALSE
    BY <1>5 DEF Publish, Redeliver, Stored, AckWaitEnds
<1>6. CASE UNCHANGED vars
    BY <1>6 DEF vars
<1> QED
    BY <1>1, <1>2, <1>3, <1>4, <1>5, <1>6 DEF Next, Step

(* The worker implements what docs/ADR/001 asks of a consumer, at-least-once *)
(* delivery: no message leaves the stream before the index or the            *)
(* dead-letter queue holds it, provided the dead-letter publication, whose   *)
(* result nobody reads, does not fail.                                        *)
THEOREM ImplementsContract ==
    ASSUME ~DlqMayFail
    PROVE  Spec => KeepsContract
<1> DEFINE Settled == {m \in Messages : delivery[m] = "settled"}
<1>1. Init => Contract!Init /\ SettledIsKept
    BY DEF Init, ConsumerInit, Contract!Init, SettledIsKept, Indexed, DeadLettered
<1>2. SettledIsKept /\ Inv /\ [Next]_vars => SettledIsKept'
  <2> SUFFICES ASSUME SettledIsKept, Inv, [Next]_vars, NEW m \in Messages,
                      delivery'[m] = "settled"
               PROVE  m \in Indexed' \cup DeadLettered'
      BY DEF SettledIsKept
  <2>1. CASE delivery[m] = "settled"
      BY <2>1, Monotone DEF SettledIsKept, Inv
  <2>2. CASE delivery[m] # "settled"
      BY <2>2, SettledFrom DEF Inv
  <2> QED
      BY <2>1, <2>2
<1>3. SettledIsKept' /\ Inv /\ [Next]_vars
      => [Contract!Deliver]_<<Indexed \cup DeadLettered, Settled>>
  <2> SUFFICES ASSUME SettledIsKept', Inv, [Next]_vars PROVE Contract!Deliver
      OBVIOUS
  <2>1. Indexed' \cup DeadLettered' \in SUBSET Messages /\ Settled' \in SUBSET Messages
      BY DEF Indexed, DeadLettered
  <2>2. /\ Indexed' \cup DeadLettered' = (Indexed \cup DeadLettered) \cup (Indexed' \cup DeadLettered')
        /\ Settled' = Settled \cup Settled'
      BY Monotone DEF Inv
  <2>3. Settled' \subseteq Indexed' \cup DeadLettered'
      BY DEF SettledIsKept
  <2> QED
      BY <2>1, <2>2, <2>3 DEF Contract!Deliver
<1> QED
    BY <1>1, <1>2, <1>3, Invariance, PTL DEF Spec, KeepsContract, Contract!Spec
===============================================================================
