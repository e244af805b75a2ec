------------------------ MODULE CorrelationWorkerProofs ------------------------
(* Theorems of CorrelationWorker, for every number of messages and workers. *)
EXTENDS CorrelationWorker, TLAPS

USE DEF rows

(* The acknowledgement of a message settles it or does nothing. *)
LEMMA AcknowledgeTypes ==
    ASSUME TypeOK, NEW m \in Messages, Acknowledge(m)
    PROVE  delivery' \in [Messages -> Deliveries] /\ faults' \in Nat
BY DEF TypeOK, Acknowledge, Acked, Deliveries, Fault

(* What the evaluation of a message leaves behind: the alerts that join the *)
(* session of the worker are rows the engine has committed.                  *)
LEMMA EvaluateRows ==
    ASSUME TypeOK, NEW w \in Workers, Evaluate(w)
    PROVE  \E m \in Messages, alerts \in SUBSET Messages :
             /\ Leave(w, m)
             /\ current' = [current EXCEPT ![w] = {m}]
             /\ session' = [session EXCEPT ![w] = @ \cup alerts]
             /\ detected' = detected \cup alerts
             /\ refused' \subseteq Messages /\ refused \subseteq refused'
             /\ m \in Triggers => m \in detected' \cup refused'
             /\ faults' \in Nat
<1>1. PICK m \in batch[w] \ Corrupt :
          /\ Leave(w, m)
          /\ current' = [current EXCEPT ![w] = {m}]
          /\ \/ \E alerts \in Verdicts(m) :
                  /\ detected' = detected \cup alerts
                  /\ session' = [session EXCEPT ![w] = @ \cup alerts]
                  /\ UNCHANGED <<refused, faults>>
             \/ /\ CommitMayFail /\ Fault
                /\ refused' = refused \cup {m}
                /\ session' = [session EXCEPT ![w] = @ \cup Rollback(m)]
                /\ UNCHANGED detected
    BY DEF Evaluate
<1>2. m \in Messages
    BY <1>1 DEF TypeOK
<1>3. ASSUME NEW alerts \in Verdicts(m),
             detected' = detected \cup alerts,
             session' = [session EXCEPT ![w] = @ \cup alerts],
             UNCHANGED <<refused, faults>>
      PROVE  alerts \in SUBSET Messages /\ (m \in Triggers => m \in detected')
    BY <1>2, <1>3 DEF Verdicts
<1>4. CASE \E alerts \in Verdicts(m) :
              /\ detected' = detected \cup alerts
              /\ session' = [session EXCEPT ![w] = @ \cup alerts]
              /\ UNCHANGED <<refused, faults>>
  <2>1. PICK alerts \in Verdicts(m) :
            /\ detected' = detected \cup alerts
            /\ session' = [session EXCEPT ![w] = @ \cup alerts]
            /\ UNCHANGED <<refused, faults>>
      BY <1>4
  <2>2. alerts \in SUBSET Messages /\ (m \in Triggers => m \in detected')
      BY <1>3, <2>1
  <2>3. refused' \subseteq Messages /\ refused \subseteq refused' /\ faults' \in Nat
      BY <2>1 DEF TypeOK
  <2> QED
      BY <1>1, <1>2, <2>1, <2>2, <2>3
<1>5. CASE /\ Fault
           /\ refused' = refused \cup {m}
           /\ session' = [session EXCEPT ![w] = @ \cup Rollback(m)]
           /\ UNCHANGED detected
  <2>1. /\ session' = [session EXCEPT ![w] = @ \cup {}]
        /\ detected' = detected \cup {}
      BY <1>5 DEF Rollback
  <2>2. refused' \subseteq Messages /\ refused \subseteq refused' /\ m \in refused'
      BY <1>2, <1>5 DEF TypeOK
  <2>3. faults' \in Nat
      BY <1>5 DEF TypeOK, Fault
  <2>4. {} \in SUBSET Messages
      OBVIOUS
  <2> QED
      BY <1>1, <1>2, <2>1, <2>2, <2>3, <2>4
<1> QED
    BY <1>1, <1>4, <1>5

(* Every step keeps the types. *)
LEMMA TypePreserved == TypeOK /\ [Next]_vars => TypeOK'
<1> SUFFICES ASSUME TypeOK, [Next]_vars PROVE TypeOK'
    OBVIOUS
<1> USE CorrelationAssumption DEF TypeOK, Deliveries, Fault
<1>1. ASSUME NEW m \in Messages, Publish(m) \/ Redeliver(m) PROVE TypeOK'
    BY <1>1 DEF Publish, Redeliver, Stored, AckWaitEnds
<1>2. ASSUME NEW w \in Workers, Fetch(w) PROVE TypeOK'
  <2>1. PICK b \in Fetchable : Fetched(b) /\ batch' = [batch EXCEPT ![w] = b]
      BY <1>2 DEF Fetch, Take
  <2> QED
      BY <1>2, <2>1 DEF Fetch, Fetched, Fetchable
<1>3. ASSUME NEW w \in Workers, RejectCorrupt(w) PROVE TypeOK'
  <2>1. PICK m \in batch[w] \cap Corrupt : Acknowledge(m) /\ Leave(w, m)
      BY <1>3 DEF RejectCorrupt, OnDecodeError
  <2>2. delivery' \in [Messages -> Deliveries] /\ faults' \in Nat
      BY <2>1, AcknowledgeTypes
  <2> QED
      BY <1>3, <2>1, <2>2 DEF RejectCorrupt, Leave
<1>4. ASSUME NEW w \in Workers, Evaluate(w) PROVE TypeOK'
  <2>1. PICK m \in Messages, alerts \in SUBSET Messages :
            /\ Leave(w, m)
            /\ current' = [current EXCEPT ![w] = {m}]
            /\ session' = [session EXCEPT ![w] = @ \cup alerts]
            /\ detected' = detected \cup alerts
            /\ refused' \subseteq Messages
            /\ faults' \in Nat
      BY <1>4, EvaluateRows
  <2> QED
      BY <1>4, <2>1 DEF Evaluate, Leave
<1>5. ASSUME NEW w \in Workers, Ack(w) PROVE TypeOK'
  <2>1. PICK m \in current[w] : Acknowledge(m)
      BY <1>5 DEF Ack
  <2>2. delivery' \in [Messages -> Deliveries] /\ faults' \in Nat
      BY <2>1, AcknowledgeTypes
  <2> QED
      BY <1>5, <2>2 DEF Ack
<1>6. ASSUME NEW w \in Workers, SaveAlerts(w) PROVE TypeOK'
    BY <1>6 DEF SaveAlerts
<1>7. ASSUME NEW w \in Workers, Crash(w) PROVE TypeOK'
    BY <1>7 DEF Crash
<1>8. CASE UNCHANGED vars
    BY <1>8 DEF vars
<1> QED
    BY <1>1, <1>2, <1>3, <1>4, <1>5, <1>6, <1>7, <1>8 DEF Next, Step

(* Type correctness: the state keeps its types. *)
THEOREM TypeCorrect == Spec => []TypeOK
<1>1. Init => TypeOK
    BY CorrelationAssumption DEF Init, ConsumerInit, TypeOK, Deliveries
<1> QED
    BY <1>1, TypePreserved, PTL DEF Spec

-------------------------------------------------------------------------------

(* The worker's own rows come from evaluations the engine committed,        *)
(* whatever fails, dies or is delivered again.                                *)
THEOREM NoRowOfARollback == Spec => []SavedWereDetected
<1>1. Init => SavedWereDetected
    BY DEF Init, SavedWereDetected
<1>2. TypeOK /\ SavedWereDetected /\ [Next]_vars => SavedWereDetected'
  <2> SUFFICES ASSUME TypeOK, SavedWereDetected, [Next]_vars PROVE SavedWereDetected'
      OBVIOUS
  <2> USE DEF SavedWereDetected, TypeOK
  <2>1. ASSUME UNCHANGED <<session, detected, saved>> PROVE SavedWereDetected'
      BY <2>1
  <2>2. ASSUME NEW w \in Workers, Evaluate(w) PROVE SavedWereDetected'
    <3>1. PICK m \in Messages, alerts \in SUBSET Messages :
              /\ session' = [session EXCEPT ![w] = @ \cup alerts]
              /\ detected' = detected \cup alerts
        BY <2>2, EvaluateRows
    <3>2. saved' = saved
        BY <2>2 DEF Evaluate
    <3>3. \A v \in Workers : session'[v] \subseteq session[v] \cup alerts
        BY <3>1
    <3> QED
        BY <3>1, <3>2, <3>3
  <2>3. ASSUME NEW w \in Workers, SaveAlerts(w) PROVE SavedWereDetected'
    <3>1. \A v \in Workers : session'[v] \subseteq session[v]
        BY <2>3 DEF SaveAlerts
    <3>2. saved' \subseteq saved \cup session[w] /\ detected' = detected
        BY <2>3 DEF SaveAlerts
    <3> QED
        BY <3>1, <3>2
  <2>4. ASSUME NEW w \in Workers, Crash(w) PROVE SavedWereDetected'
    <3>1. \A v \in Workers : session'[v] \subseteq session[v]
        BY <2>4 DEF Crash
    <3> QED
        BY <2>4, <3>1 DEF Crash
  <2> QED
      BY <2>1, <2>2, <2>3, <2>4
         DEF Next, Step, Publish, Redeliver, Fetch, RejectCorrupt, Ack, vars
<1> QED
    BY <1>1, <1>2, TypeCorrect, PTL DEF Spec

(* OnlyRefusedAreSilent is not inductive: a message is evaluated before it  *)
(* is acknowledged, so it must also hold of the messages in between.          *)
SilentInv ==
    Triggers \cap (Settled \cup UNION {current[w] : w \in Workers}) \subseteq detected \cup refused

(* Every step keeps it. *)
LEMMA SilentPreserved == TypeOK /\ SilentInv /\ [Next]_vars => SilentInv'
<1> SUFFICES ASSUME TypeOK, SilentInv, [Next]_vars PROVE SilentInv'
    OBVIOUS
<1> USE DEF SilentInv, Settled, TypeOK
<1>1. ASSUME NEW m \in Messages, Publish(m) \/ Redeliver(m) PROVE SilentInv'
    BY <1>1 DEF Publish, Redeliver, Stored, AckWaitEnds
<1>2. ASSUME NEW w \in Workers, Fetch(w) PROVE SilentInv'
  <2>1. Settled' \subseteq Settled
      BY <1>2 DEF Fetch, Take, Fetched, Fetchable
  <2> QED
      BY <1>2, <2>1 DEF Fetch
<1>3. ASSUME NEW w \in Workers, RejectCorrupt(w) PROVE SilentInv'
  <2>1. Settled' \subseteq Settled \cup Corrupt
      BY <1>3 DEF RejectCorrupt, OnDecodeError, Acknowledge, Acked
  <2> QED
      BY <1>3, <2>1, CorrelationAssumption DEF RejectCorrupt
<1>4. ASSUME NEW w \in Workers, Evaluate(w) PROVE SilentInv'
  <2>1. PICK m \in Messages, alerts \in SUBSET Messages :
            /\ current' = [current EXCEPT ![w] = {m}]
            /\ detected' = detected \cup alerts
            /\ refused \subseteq refused'
            /\ m \in Triggers => m \in detected' \cup refused'
      BY <1>4, EvaluateRows
  <2>2. \A v \in Workers : current'[v] \subseteq current[v] \cup {m}
      BY <2>1
  <2>3. Settled' = Settled
      BY <1>4 DEF Evaluate
  <2> QED
      BY <2>1, <2>2, <2>3
<1>5. ASSUME NEW w \in Workers, Ack(w) PROVE SilentInv'
  <2>1. Settled' \subseteq Settled \cup current[w]
      BY <1>5 DEF Ack, Acknowledge, Acked
  <2>2. \A v \in Workers : current'[v] \subseteq current[v]
      BY <1>5 DEF Ack
  <2> QED
      BY <1>5, <2>1, <2>2 DEF Ack
<1>6. ASSUME NEW w \in Workers, SaveAlerts(w) PROVE SilentInv'
    BY <1>6 DEF SaveAlerts
<1>7. ASSUME NEW w \in Workers, Crash(w) PROVE SilentInv'
  <2>1. \A v \in Workers : current'[v] \subseteq current[v]
      BY <1>7 DEF Crash
  <2> QED
      BY <1>7, <2>1 DEF Crash
<1>8. CASE UNCHANGED vars
    BY <1>8 DEF vars
<1> QED
    BY <1>1, <1>2, <1>3, <1>4, <1>5, <1>6, <1>7, <1>8 DEF Next, Step

(* A trigger leaves the stream without an alert only after an evaluation of *)
(* its own was rolled back.                                                   *)
THEOREM OnlyRollbacksSilence == Spec => []OnlyRefusedAreSilent
<1>1. Init => SilentInv
    BY DEF Init, ConsumerInit, SilentInv, Settled
<1>2. TypeOK /\ SilentInv /\ [Next]_vars => SilentInv'
    BY SilentPreserved
<1>3. SilentInv => OnlyRefusedAreSilent
    BY DEF SilentInv, OnlyRefusedAreSilent
<1> QED
    BY <1>1, <1>2, <1>3, TypeCorrect, PTL DEF Spec

-------------------------------------------------------------------------------

(* Rows of alerts and acknowledgements are never taken back, and where no   *)
(* commit of the engine fails nothing is rolled back.                        *)
LEMMA RowsAndAcksStay ==
    ASSUME ~CommitMayFail, TypeOK, [Next]_vars
    PROVE  detected \subseteq detected' /\ Settled \subseteq Settled' /\ refused' = refused
<1> USE DEF Settled, TypeOK
<1>1. ASSUME NEW m \in Messages, Publish(m) \/ Redeliver(m)
      PROVE  Settled \subseteq Settled'
    BY <1>1 DEF Publish, Redeliver, Stored, AckWaitEnds
<1>2. ASSUME NEW w \in Workers, Fetch(w) PROVE Settled \subseteq Settled'
  <2>1. PICK b \in Fetchable : Fetched(b)
      BY <1>2 DEF Fetch, Take
  <2>2. \A m \in b : delivery[m] = "waiting"
      BY DEF Fetchable
  <2> QED
      BY <2>1, <2>2 DEF Fetched
<1>3. ASSUME NEW w \in Workers, RejectCorrupt(w) \/ Ack(w) PROVE Settled \subseteq Settled'
    BY <1>3 DEF RejectCorrupt, OnDecodeError, Ack, Acknowledge, Acked
<1>4. ASSUME NEW w \in Workers, Evaluate(w)
      PROVE  detected \subseteq detected' /\ refused' = refused
    BY <1>4 DEF Evaluate
<1> QED
    BY <1>1, <1>2, <1>3, <1>4
       DEF Next, Step, Publish, Redeliver, Fetch, RejectCorrupt, Evaluate, Ack, SaveAlerts, Crash, vars

(* Where no commit of the engine fails the worker implements at-least-once  *)
(* delivery of what should alert, whatever dies and whatever acknowledgement *)
(* or commit of the batch is lost.  The hypothesis is needed: the worker     *)
(* acknowledges an event whose commit the engine swallowed.                   *)
THEOREM ImplementsContract ==
    ASSUME ~CommitMayFail
    PROVE  Spec => KeepsContract
<1> DEFINE Unrefused == SilentInv /\ refused = {}
<1>1. Init => Contract!Init /\ Unrefused
    BY DEF Init, ConsumerInit, Contract!Init, Settled, SilentInv
<1>2. Unrefused /\ TypeOK /\ [Next]_vars => Unrefused'
    BY SilentPreserved, RowsAndAcksStay
<1>3. Unrefused' /\ TypeOK /\ [Next]_vars => [Contract!Deliver]_<<detected, Settled \cap Triggers>>
  <2> SUFFICES ASSUME Unrefused', TypeOK, [Next]_vars PROVE Contract!Deliver
      OBVIOUS
  <2>1. detected' \in SUBSET Messages /\ (Settled \cap Triggers)' \in SUBSET Messages
      BY TypePreserved DEF TypeOK, Settled
  <2>2. /\ detected' = detected \cup detected'
        /\ (Settled \cap Triggers)' = (Settled \cap Triggers) \cup (Settled \cap Triggers)'
      BY RowsAndAcksStay
  <2>3. (Settled \cap Triggers)' \subseteq detected'
      BY DEF SilentInv
  <2> QED
      BY <2>1, <2>2, <2>3 DEF Contract!Deliver
<1> QED
    BY <1>1, <1>2, <1>3, TypeCorrect, PTL DEF Spec, KeepsContract, Contract!Spec
===============================================================================
