------------------------- MODULE EvidenceWorkerProofs -------------------------
(* Theorems of EvidenceWorker, for every number of messages and workers. *)
EXTENDS EvidenceWorker, TLAPS

USE DEF sink

(* What a dead-lettered message leaves behind. *)
LEMMA DeadLetterTypes ==
    ASSUME TypeOK, NEW m \in Messages, DeadLetter(m)
    PROVE  /\ dlq' \subseteq Messages
           /\ delivery' \in [Messages -> Deliveries]
           /\ faults' \in Nat
BY DEF TypeOK, DeadLetter, Acked, Deliveries, Fault

(* Every step keeps the types. *)
LEMMA TypePreserved == TypeOK /\ [Next]_vars => TypeOK'
<1> SUFFICES ASSUME TypeOK, [Next]_vars PROVE TypeOK'
    OBVIOUS
<1> USE EvidenceAssumption DEF TypeOK, Deliveries, Fault
<1>1. ASSUME NEW m \in Messages, Publish(m) \/ Redeliver(m) PROVE TypeOK'
    BY <1>1 DEF Publish, Redeliver, Stored, AckWaitEnds
<1>2. ASSUME NEW w \in Workers, Fetch(w) PROVE TypeOK'
  <2>1. PICK b \in Fetchable : Fetched(b) /\ batch' = [batch EXCEPT ![w] = b]
      BY <1>2 DEF Fetch
  <2> QED
      BY <1>2, <2>1 DEF Fetch, Fetched, Fetchable
<1>3. ASSUME NEW w \in Workers, RejectCorrupt(w) PROVE TypeOK'
  <2>1. PICK m \in batch[w] \cap Corrupt : DeadLetter(m) /\ Leave(w, m)
      BY <1>3 DEF RejectCorrupt, OnDecodeError
  <2>2. /\ dlq' \subseteq Messages
        /\ delivery' \in [Messages -> Deliveries]
        /\ faults' \in Nat
      BY <2>1, DeadLetterTypes
  <2>3. batch' \in [Workers -> SUBSET Messages]
      BY <2>1 DEF Leave
  <2>4. up' \in BOOLEAN /\ connected' \in [Workers -> BOOLEAN]
      BY <1>3, Zenon DEF RejectCorrupt
  <2>5. stored' = stored /\ failedPuts' = failedPuts
      BY <1>3 DEF RejectCorrupt
  <2> QED
      BY <2>2, <2>3, <2>4, <2>5
<1>4. ASSUME NEW w \in Workers, Connect(w) \/ Crash(w) PROVE TypeOK'
  <2>1. PICK c \in BOOLEAN : connected' = [connected EXCEPT ![w] = c]
      BY <1>4 DEF Connect, Crash
  <2>2. connected' \in [Workers -> BOOLEAN]
      BY <2>1
  <2>3. up' = up /\ UNCHANGED <<delivery, stored, dlq, failedPuts>>
      BY <1>4 DEF Connect, Crash
  <2>4. up' \in BOOLEAN
      BY <2>3, Zenon
  <2>5. batch' \in [Workers -> SUBSET Messages] /\ faults' \in Nat
      BY <1>4 DEF Connect, Crash
  <2> QED
      BY <2>2, <2>3, <2>4, <2>5
<1>5. ASSUME NEW w \in Workers, Unavailable(w) PROVE TypeOK'
    BY <1>5 DEF Unavailable, OnUnavailable, Leave
<1>6. ASSUME NEW w \in Workers, Upload(w) PROVE TypeOK'
    BY <1>6 DEF Upload, Put, Acked, Leave
<1>7. ASSUME NEW w \in Workers, UploadFails(w) PROVE TypeOK'
  <2>1. PICK m \in batch[w] \ Corrupt :
            /\ stored' \in {stored, stored \cup {m}}
            /\ failedPuts' = failedPuts \cup {m}
            /\ DeadLetter(m) /\ Leave(w, m)
      BY <1>7 DEF UploadFails
  <2>2. m \in Messages
      BY <2>1
  <2>3. /\ dlq' \subseteq Messages
        /\ delivery' \in [Messages -> Deliveries]
        /\ faults' \in Nat
      BY <2>1, <2>2, DeadLetterTypes
  <2>4. batch' \in [Workers -> SUBSET Messages]
      BY <2>1 DEF Leave
  <2>5. stored' \subseteq Messages /\ failedPuts' \subseteq Messages
      BY <2>1, <2>2
  <2>6. up' \in BOOLEAN /\ connected' \in [Workers -> BOOLEAN]
      BY <1>7, Zenon DEF UploadFails
  <2> QED
      BY <2>3, <2>4, <2>5, <2>6
<1>8. CASE Outage \/ Recovery \/ UNCHANGED vars
  <2>1. UNCHANGED <<delivery, connected, batch, stored, dlq, failedPuts>>
      BY <1>8 DEF Outage, Recovery, vars
  <2>2. faults' \in Nat
      BY <1>8 DEF Outage, Recovery, vars
  <2>3. up' \in BOOLEAN
      BY <1>8, Zenon DEF Outage, Recovery, vars
  <2> QED
      BY <2>1, <2>2, <2>3
<1> QED
    BY <1>1, <1>2, <1>3, <1>4, <1>5, <1>6, <1>7, <1>8 DEF Next, Step

(* Type correctness: the state keeps its types. *)
THEOREM TypeCorrect == Spec => []TypeOK
<1>1. Init => TypeOK
    BY EvidenceAssumption DEF Init, ConsumerInit, TypeOK, Deliveries
<1> QED
    BY <1>1, TypePreserved, PTL DEF Spec

(* Objects, dead letters and settled messages are never taken back, and     *)
(* what a step settles was undecodable, had a failed upload, or is stored;   *)
(* it is stored or in the dead-letter queue if that cannot fail.             *)
LEMMA WhatAStepSettles ==
    ASSUME TypeOK, [Next]_vars
    PROVE  /\ stored \subseteq stored' /\ dlq \subseteq dlq' /\ failedPuts \subseteq failedPuts'
           /\ Settled \subseteq Settled'
           /\ Settled' \subseteq Settled \cup Corrupt \cup failedPuts' \cup stored'
           /\ ~DlqMayFail => Settled' \subseteq Settled \cup stored' \cup dlq'
<1> DEFINE Grow == /\ stored \subseteq stored' /\ dlq \subseteq dlq'
                   /\ failedPuts \subseteq failedPuts'
           Good == /\ Settled \subseteq Settled'
                   /\ Settled' \subseteq Settled \cup Corrupt \cup failedPuts' \cup stored'
                   /\ ~DlqMayFail => Settled' \subseteq Settled \cup stored' \cup dlq'
<1> USE DEF TypeOK, Settled
<1>1. ASSUME NEW m \in Messages, Publish(m) \/ Redeliver(m) PROVE Grow /\ Good
    BY <1>1 DEF Publish, Redeliver, Stored, AckWaitEnds
<1>2. ASSUME NEW w \in Workers, Fetch(w) PROVE Grow /\ Good
    BY <1>2 DEF Fetch, Fetched, Fetchable
<1>3. ASSUME NEW w \in Workers, RejectCorrupt(w) PROVE Grow /\ Good
    BY <1>3 DEF RejectCorrupt, OnDecodeError, DeadLetter, Acked
<1>4. ASSUME NEW w \in Workers, Connect(w) \/ Crash(w) PROVE Grow /\ Good
    BY <1>4 DEF Connect, Crash
<1>5. ASSUME NEW w \in Workers, Unavailable(w) PROVE Grow /\ Good
    BY <1>5 DEF Unavailable, OnUnavailable
<1>6. ASSUME NEW w \in Workers, Upload(w) PROVE Grow /\ Good
    BY <1>6 DEF Upload, Put, Acked
<1>7. ASSUME NEW w \in Workers, UploadFails(w) PROVE Grow /\ Good
    BY <1>7 DEF UploadFails, DeadLetter, Acked
<1>8. ASSUME Outage \/ Recovery \/ UNCHANGED vars PROVE Grow /\ Good
    BY <1>8 DEF Outage, Recovery, vars
<1>9. Grow /\ Good
    BY <1>1, <1>2, <1>3, <1>4, <1>5, <1>6, <1>7, <1>8 DEF Next, Step
<1> QED
    BY <1>9

(* Evidence missing for good had an upload of its own fail. *)
THEOREM FailedUploadsOnly == Spec => []OnlyFailedUploadsAreMissing
<1>1. Init => OnlyFailedUploadsAreMissing
    BY DEF Init, ConsumerInit, OnlyFailedUploadsAreMissing, Settled
<1>2. TypeOK /\ OnlyFailedUploadsAreMissing /\ [Next]_vars => OnlyFailedUploadsAreMissing'
    BY WhatAStepSettles DEF OnlyFailedUploadsAreMissing
<1> QED
    BY <1>1, <1>2, TypeCorrect, PTL DEF Spec

(* At-least-once: no message leaves the stream before the bucket or the     *)
(* dead-letter queue holds it, provided the dead-letter publication, whose   *)
(* result nobody reads, does not fail.                                        *)
THEOREM ImplementsContract ==
    ASSUME ~DlqMayFail
    PROVE  Spec => KeepsContract
<1> DEFINE Kept == Settled \subseteq stored \cup dlq
<1>1. Init => Contract!Init /\ Kept
    BY DEF Init, ConsumerInit, Contract!Init, Settled
<1>2. Kept /\ TypeOK /\ [Next]_vars => Kept'
    BY WhatAStepSettles
<1>3. Kept' /\ TypeOK /\ [Next]_vars => [Contract!Deliver]_<<stored \cup dlq, Settled>>
  <2> SUFFICES ASSUME Kept', TypeOK, [Next]_vars PROVE Contract!Deliver
      OBVIOUS
  <2>1. stored' \cup dlq' \in SUBSET Messages /\ Settled' \in SUBSET Messages
      BY TypePreserved DEF TypeOK, Settled
  <2>2. /\ stored' \cup dlq' = (stored \cup dlq) \cup (stored' \cup dlq')
        /\ Settled' = Settled \cup Settled'
      BY WhatAStepSettles
  <2> QED
      BY <2>1, <2>2 DEF Contract!Deliver
<1> QED
    BY <1>1, <1>2, <1>3, TypeCorrect, PTL DEF Spec, KeepsContract, Contract!Spec
===============================================================================
