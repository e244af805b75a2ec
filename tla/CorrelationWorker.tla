--------------------------- MODULE CorrelationWorker ---------------------------
(***************************************************************************)
(* CorrelationWorker (app/workers/correlation_worker.py) with              *)
(* CorrelationEngine.process_event_async (app/services/                    *)
(* correlation_engine.py).                                                 *)
(*                                                                         *)
(* The engine evaluates an event and commits the alert rows of RuleEngineV2*)
(* in a session of its own, whose failure it swallows; it returns the      *)
(* alerts, and the worker adds a row for each to the session of the batch. *)
(* Every event is acknowledged as soon as it is evaluated, and the session *)
(* of the batch is committed at the end.  RuleWindow says when a rule      *)
(* alerts; here an event in Triggers meets a rule by itself.               *)
(***************************************************************************)
EXTENDS PullConsumer

CONSTANTS
    Workers,
    Corrupt,         \* messages that do not decode into a NormalizedEvent
    Triggers,        \* messages that meet a rule whose threshold is 1
    CommitMayFail,   \* the database may refuse a commit of the engine
    MaxFaults        \* bound: refused commits, lost acknowledgements, deaths

ASSUME CorrelationAssumption ==
    /\ Corrupt \subseteq Messages
    /\ Triggers \subseteq Messages \ Corrupt
    /\ CommitMayFail \in BOOLEAN
    /\ MaxFaults \in Nat

VARIABLES
    batch,       \* messages of the worker's batch not yet evaluated
    current,     \* the message that is evaluated and not yet acknowledged
    session,     \* messages with an alert in the session of the batch
    detected,    \* messages with an alert row the engine committed
    saved,       \* messages with an alert row a worker committed
    refused,     \* ghost: messages whose evaluation was rolled back
    faults       \* faults so far

rows == <<detected, saved, refused>>
vars == <<delivery, batch, current, session, rows, faults>>

Init ==
    /\ ConsumerInit
    /\ batch = [w \in Workers |-> {}]
    /\ current = [w \in Workers |-> {}]
    /\ session = [w \in Workers |-> {}]
    /\ detected = {} /\ saved = {} /\ refused = {}
    /\ faults = 0

Fault == faults < MaxFaults /\ faults' = faults + 1

Publish(m) == Stored(m) /\ UNCHANGED <<batch, current, session, rows, faults>>

Redeliver(m) == AckWaitEnds(m) /\ UNCHANGED <<batch, current, session, rows, faults>>

-------------------------------------------------------------------------------

(* Mutant: the consumer is created without explicit acknowledgement. *)
Take_AutoAck(b) == delivery' = [m \in Messages |-> IF m \in b THEN "settled" ELSE delivery[m]]

Take(b) == Fetched(b)

Fetch(w) ==
    /\ batch[w] = {} /\ current[w] = {} /\ session[w] = {}
    /\ \E b \in Fetchable : Take(b) /\ batch' = [batch EXCEPT ![w] = b]
    /\ UNCHANGED <<current, session, rows, faults>>

Leave(w, m) == batch' = [batch EXCEPT ![w] = @ \ {m}]

(* An acknowledgement that raises is swallowed. *)
Acknowledge(m) ==
    \/ Acked(m) /\ UNCHANGED faults
    \/ Fault /\ UNCHANGED delivery

OnDecodeError(m) == Acknowledge(m)

(* What does not decode is acknowledged and goes nowhere. *)
RejectCorrupt(w) ==
    /\ current[w] = {}
    /\ \E m \in batch[w] \cap Corrupt : OnDecodeError(m) /\ Leave(w, m)
    /\ UNCHANGED <<current, session, rows>>

(* The alerts returned when the engine's commit fails. *)
Rollback(m) == {}

(* The alerts of the event: the first evaluation of a trigger alerts, and   *)
(* another one may, as the cooldown of its rule has it.                      *)
Verdicts(m) ==
    IF m \notin Triggers THEN {{}}
    ELSE IF m \in detected THEN {{}, {m}} ELSE {{m}}

(* The engine evaluates a message and commits, or rolls back.               *)
Evaluate(w) ==
    /\ current[w] = {}
    /\ \E m \in batch[w] \ Corrupt :
        /\ Leave(w, m)
        /\ current' = [current EXCEPT ![w] = {m}]
        /\ \/ \E alerts \in Verdicts(m) :
                /\ detected' = detected \cup alerts
                /\ session' = [session EXCEPT ![w] = @ \cup alerts]
                /\ UNCHANGED <<refused, faults>>
           \/ /\ CommitMayFail /\ Fault
              /\ refused' = refused \cup {m}
              /\ session' = [session EXCEPT ![w] = @ \cup Rollback(m)]
              /\ UNCHANGED detected
    /\ UNCHANGED <<delivery, saved>>

Ack(w) ==
    /\ \E m \in current[w] : Acknowledge(m)
    /\ current' = [current EXCEPT ![w] = {}]
    /\ UNCHANGED <<batch, session, rows>>

(* The batch is done: its session is committed, or rolled back and logged. *)
SaveAlerts(w) ==
    /\ batch[w] = {} /\ current[w] = {} /\ session[w] # {}
    /\ \/ saved' = saved \cup session[w] /\ UNCHANGED faults
       \/ Fault /\ UNCHANGED saved
    /\ session' = [session EXCEPT ![w] = {}]
    /\ UNCHANGED <<delivery, batch, current, detected, refused>>

(* The worker dies, or an exception ends the batch: what is in the session  *)
(* is gone, what is not acknowledged comes again.                            *)
Crash(w) ==
    /\ batch[w] # {} \/ current[w] # {} \/ session[w] # {}
    /\ Fault
    /\ batch' = [batch EXCEPT ![w] = {}]
    /\ current' = [current EXCEPT ![w] = {}]
    /\ session' = [session EXCEPT ![w] = {}]
    /\ UNCHANGED <<delivery, rows>>

-------------------------------------------------------------------------------

Step(w) == Fetch(w) \/ RejectCorrupt(w) \/ Evaluate(w) \/ Ack(w) \/ SaveAlerts(w)

Next ==
    \/ \E m \in Messages : Publish(m) \/ Redeliver(m)
    \/ \E w \in Workers : Step(w) \/ Crash(w)

Spec == Init /\ [][Next]_vars

(* The workers loop for ever and the broker redelivers. *)
FairSpec ==
    /\ Spec
    /\ \A w \in Workers : WF_vars(Step(w))
    /\ \A m \in Messages : WF_vars(Redeliver(m))

-------------------------------------------------------------------------------

TypeOK ==
    /\ delivery \in [Messages -> Deliveries]
    /\ batch \in [Workers -> SUBSET Messages]
    /\ current \in [Workers -> SUBSET Messages]
    /\ session \in [Workers -> SUBSET Messages]
    /\ detected \subseteq Messages /\ saved \subseteq Messages /\ refused \subseteq Messages
    /\ faults \in Nat

Settled == {m \in Messages : delivery[m] = "settled"}

(* The worker saves alerts of committed evaluations only: what the engine   *)
(* rolled back never reaches the table through the worker's own session.     *)
SavedWereDetected ==
    saved \cup UNION {session[w] : w \in Workers} \subseteq detected

(* A trigger that leaves the stream without an alert had an evaluation of   *)
(* its own rolled back; a lost acknowledgement, a death of any worker or the *)
(* failed commit of the batch costs none.                                     *)
OnlyRefusedAreSilent == Settled \cap Triggers \subseteq detected \cup refused

(* What every consumer promises, of the messages that should alert: the     *)
(* alert is in the table before the trigger leaves the stream.  Holds while *)
(* the database refuses no commit of the engine.                             *)
Contract == INSTANCE SinkContract WITH
    kept    <- detected,
    settled <- Settled \cap Triggers

KeepsContract == Contract!Spec

(* Every trigger has an alert at last, unless the database refuses one of   *)
(* its evaluations; deaths and lost acknowledgements do not prevent it.       *)
EveryTriggerAlerts ==
    \A m \in Triggers : delivery[m] = "waiting" ~> m \in detected \cup refused

(* docs/FINAL_PRODUCTION_ARCHITECTURE_AUDIT.md: the worker inserts the alert. *)
OneRowPerAlert == detected \cap saved = {}
===============================================================================
