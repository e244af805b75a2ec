----------------------------- MODULE EngineWorker -----------------------------
(***************************************************************************)
(* The legacy detection loop (app/workers/engine_worker_loop.py): the rows *)
(* of the table events as a work queue, any number of engine workers, and  *)
(* the upload the events come from, whose status the parser, the engine    *)
(* and the operator all write.                                             *)
(*                                                                         *)
(* A step is a transaction, but for the evaluation of an event, whose      *)
(* transaction reads the upload row early and writes it at its commit.     *)
(* A claimed batch is a set: UPDATE ... RETURNING promises no order.       *)
(***************************************************************************)
EXTENDS Naturals, FiniteSets

CONSTANTS
    Events,          \* rows of one upload, numbered in the order of created_at
    Engines,         \* processes running engine_worker_loop
    ClaimBatch,      \* claim_batch_size
    OldEvents,       \* events whose timestamp_utc lies before the lookback from the start
    ReconcileEvery,  \* RECONCILE_EVERY_CYCLES
    StaleOn,         \* pipeline.engine.stale_seconds is not 0
    MaxTrouble       \* bound: deaths and failed transactions, claims that outlive
                     \* stale_seconds in a live worker, requeues by the operator,
                     \* events the lookback passes

ASSUME EngineAssumption ==
    /\ Events \subseteq Nat \ {0} /\ IsFiniteSet(Events)
    /\ OldEvents \subseteq Events
    /\ ClaimBatch \in Nat \ {0} /\ ReconcileEvery \in Nat \ {0}
    /\ StaleOn \in BOOLEAN
    /\ MaxTrouble \in Nat

VARIABLES
    estate,    \* engine_status of each event, "absent" before it is inserted
    overdue,   \* claimed events whose engine_claimed_at is older than the limit
    lapsed,    \* events whose created_at lies before the lookback
    upload,    \* LogUpload.status
    parser,    \* the parse of the upload: run, done, dead
    at,        \* where each worker stands
    queue,     \* its local_queue
    cur,       \* the event it evaluates, 0 when none
    logread,   \* the upload status as its transaction has it, "none" outside of one
    cycle,     \* its cycle counter, modulo ReconcileEvery
    faults, overdues, requeues,   \* what went wrong so far
    evals      \* ghost: committed evaluations of each event

eventRows == <<estate, overdue>>
loop      == <<at, queue, cur, logread, cycle>>
spent     == <<faults, overdues, requeues, lapsed>>
EngineVars == <<eventRows, upload, parser, loop, spent, evals>>

UploadStatuses == {"parsing", "parsed", "processing_engine", "processed",
                   "parsed_with_errors"}

(* The bound on what goes wrong in a behaviour. *)
Calm == faults + overdues + requeues + Cardinality(lapsed) < MaxTrouble

Held(e) == \E w \in Engines : e \in queue[w] \/ cur[w] = e

EngineInit ==
    /\ estate = [e \in Events |-> "absent"]
    /\ overdue = {}
    /\ lapsed = {}
    /\ upload = "parsing"
    /\ parser = "run"
    /\ at = [w \in Engines |-> "cycle"]
    /\ queue = [w \in Engines |-> {}]
    /\ cur = [w \in Engines |-> 0]
    /\ logread = [w \in Engines |-> "none"]
    /\ cycle = [w \in Engines |-> 0]
    /\ faults = 0 /\ overdues = 0 /\ requeues = 0
    /\ evals = [e \in Events |-> 0]

-------------------------------------------------------------------------------
(* The parse of the upload *)

(* A committed batch of parse_log_file with its rows in the engine's queue. *)
ParserInsert(S) ==
    /\ parser = "run"
    /\ \A e \in S : estate[e] = "absent"
    /\ \A e \in S : \A d \in Events \ S : d < e => estate[d] # "absent"
    /\ estate' = [e \in Events |-> IF e \in S THEN "pending" ELSE estate[e]]
    /\ UNCHANGED <<overdue, upload, parser, loop, spent, evals>>

(* The final status is written over whatever the engine made of the row;    *)
(* the error of a fatal parse is to the engine as parsed_with_errors.        *)
ParserEnd ==
    /\ parser = "run"
    /\ \E st \in {"processed", "parsed_with_errors"} : upload' = st
    /\ parser' = "done"
    /\ UNCHANGED <<eventRows, loop, spent, evals>>

ParserDies ==
    /\ parser = "run" /\ Calm
    /\ parser' = "dead"
    /\ faults' = faults + 1
    /\ UNCHANGED <<eventRows, upload, loop, overdues, requeues, lapsed, evals>>

(* The parsing workers' stale requeue finds only rows still in parsing. *)
ParserRetries ==
    /\ parser = "dead" /\ upload = "parsing"
    /\ parser' = "run"
    /\ UNCHANGED <<eventRows, upload, loop, spent, evals>>

-------------------------------------------------------------------------------
(* The operator *)

PutBack(S) ==
    /\ estate' = [e \in Events |-> IF e \in S THEN "pending" ELSE estate[e]]
    /\ overdue' = overdue \ S

(* engine_requeue_errors, and engine_requeue_upload for all events of the   *)
(* upload or those in error: a claim that is being worked off is not asked. *)
UiRequeueErrors ==
    /\ Calm
    /\ requeues' = requeues + 1
    /\ PutBack({e \in Events : estate[e] = "error"})
    /\ UNCHANGED <<upload, parser, loop, faults, overdues, lapsed, evals>>

UiRequeueUpload(onlyErrors) ==
    /\ Calm
    /\ requeues' = requeues + 1
    /\ PutBack({e \in Events : estate[e] # "absent" /\ (onlyErrors => estate[e] = "error")})
    /\ upload' = IF upload \in {"processed", "processing_engine", "parsed"}
                   THEN "parsed" ELSE upload
    /\ UNCHANGED <<parser, loop, faults, overdues, lapsed, evals>>

-------------------------------------------------------------------------------
(* The worker's cycle *)

Goto(w, p) == at' = [at EXCEPT ![w] = p]

(* Mutant: the requeue of a cycle takes every claimed event. *)
Requeued_Young == {e \in Events : estate[e] = "processing"}

(* Mutant: claims that became old are not looked for. *)
Requeued_Never == {}

(* Claims older than stale_seconds.  The rescue with its own, shorter limit *)
(* runs first and does nothing: reading the settings has begun a            *)
(* transaction, db.begin() refuses, and the exception is rolled back.        *)
Requeued == IF StaleOn THEN overdue ELSE {}

(* A cycle starts: settings, rescue, stale requeue. *)
StartCycle(w) ==
    /\ at[w] = "cycle"
    /\ PutBack({e \in Requeued : estate[e] = "processing"})
    /\ cycle' = [cycle EXCEPT ![w] = (@ + 1) % ReconcileEvery]
    /\ Goto(w, IF cycle'[w] = 0 THEN "reconcile" ELSE "claim")
    /\ UNCHANGED <<upload, parser, queue, cur, logread, spent, evals>>

(* Open events that entered the system within the lookback. *)
OpenEvents == {e \in Events \ lapsed : estate[e] \in {"pending", "processing"}}

(* Mutant: the reconciliation looks for the parser's status. *)
AfterReconcile_Parsed ==
    IF upload = "parsed" /\ OpenEvents = {} THEN "processed" ELSE upload

AfterReconcile ==
    IF upload = "processing_engine" /\ OpenEvents = {} THEN "processed" ELSE upload

(* _reconcile_uploads_processing_engine, every ReconcileEvery-th cycle. *)
Reconcile(w) ==
    /\ at[w] = "reconcile"
    /\ upload' = AfterReconcile
    /\ Goto(w, "claim")
    /\ UNCHANGED <<eventRows, parser, queue, cur, logread, cycle, spent, evals>>

(* Pending events the claim looks at: the lookback is by created_at. *)
Claimable == {e \in Events \ lapsed : estate[e] = "pending"}

(* _claim_batch: the oldest of them, up to the batch size.  A cycle with    *)
(* nothing to claim is over.                                                 *)
ClaimEvents(w, S) ==
    /\ at[w] = "claim"
    /\ S # {} /\ Cardinality(S) <= ClaimBatch
    /\ S \subseteq Claimable
    /\ \A e \in S : \A d \in Claimable \ S : e < d
    /\ Cardinality(S) < ClaimBatch => S = Claimable
    /\ estate' = [e \in Events |-> IF e \in S THEN "processing" ELSE estate[e]]
    /\ overdue' = overdue \ S
    /\ queue' = [queue EXCEPT ![w] = S]
    /\ Goto(w, "work")
    /\ UNCHANGED <<upload, parser, cur, logread, cycle, spent, evals>>

ClaimNothing(w) ==
    /\ at[w] = "claim"
    /\ Claimable = {}
    /\ Goto(w, "cycle")
    /\ UNCHANGED <<eventRows, upload, parser, queue, cur, logread, cycle, spent, evals>>

(* The next event of the local queue, whatever its row says by now; its     *)
(* transaction reads the upload.                                             *)
TakeEvent(w, e) ==
    /\ at[w] = "work" /\ e \in queue[w]
    /\ queue' = [queue EXCEPT ![w] = @ \ {e}]
    /\ cur' = [cur EXCEPT ![w] = e]
    /\ logread' = [logread EXCEPT ![w] =
                     IF upload \in {"parsed", "parsing"} THEN "processing_engine" ELSE upload]
    /\ Goto(w, "eval")
    /\ UNCHANGED <<eventRows, upload, parser, cycle, spent, evals>>

(* Mutant: a cycle may end before its local queue is empty. *)
QueueDone_Early(w) ==
    /\ at[w] = "work"
    /\ queue' = [queue EXCEPT ![w] = {}]
    /\ \E p \in {"claim", "cycle"} : Goto(w, p)
    /\ UNCHANGED <<eventRows, upload, parser, cur, logread, cycle, spent, evals>>

(* The local queue is empty: the cycle claims again while max_per_cycle     *)
(* lasts, or ends.                                                           *)
QueueDone(w) ==
    /\ at[w] = "work" /\ queue[w] = {}
    /\ \E p \in {"claim", "cycle"} : Goto(w, p)
    /\ UNCHANGED <<eventRows, upload, parser, queue, cur, logread, cycle, spent, evals>>

(* What _maybe_mark_upload_processed sees besides the event done here: it   *)
(* looks at timestamp_utc, which is no later than created_at, so old events *)
(* do not count.                                                             *)
StillOpen(e) ==
    {d \in Events \ (OldEvents \cup lapsed \cup {e}) : estate[d] \in {"pending", "processing"}}

(* The upload row after the commit.  A status the transaction changed, or   *)
(* marks processed, is written over what the row holds.                      *)
UploadAfter(w) ==
    IF logread[w] = "processing_engine"
      THEN IF StillOpen(cur[w]) = {} THEN "processed" ELSE "processing_engine"
      ELSE upload

(* The rules have been evaluated, the alerts inserted, the event is done:   *)
(* all in one transaction.  Alerts are then notified outside of it.          *)
CommitEvent(w) ==
    /\ at[w] = "eval"
    /\ estate' = [estate EXCEPT ![cur[w]] = "done"]
    /\ overdue' = overdue \ {cur[w]}
    /\ evals' = [evals EXCEPT ![cur[w]] = @ + 1]
    /\ upload' = UploadAfter(w)
    /\ logread' = [logread EXCEPT ![w] = "none"]
    /\ Goto(w, "notify")
    /\ UNCHANGED <<parser, queue, cur, cycle, spent>>

(* The transaction fails: a lock or statement timeout, or a lost race for   *)
(* a new rule state, whose rollback ends the surrounding db.begin().         *)
FailEvent(w) ==
    /\ at[w] = "eval" /\ Calm
    /\ faults' = faults + 1
    /\ logread' = [logread EXCEPT ![w] = "none"]
    /\ Goto(w, "fail")
    /\ UNCHANGED <<eventRows, upload, parser, queue, cur, cycle, overdues, requeues,
                   lapsed, evals>>

LetGo(w) ==
    /\ cur' = [cur EXCEPT ![w] = 0]
    /\ Goto(w, "work")

(* Notifications are over, or there was nothing or nobody to notify. *)
Notified(w) ==
    /\ at[w] = "notify"
    /\ LetGo(w)
    /\ UNCHANGED <<eventRows, upload, parser, queue, logread, cycle, spent, evals>>

(* The notifier raises after the commit: the handler of a failed evaluation *)
(* takes it.                                                                 *)
NotifyRaises(w) ==
    /\ at[w] = "notify" /\ Calm
    /\ faults' = faults + 1
    /\ Goto(w, "fail")
    /\ UNCHANGED <<eventRows, upload, parser, queue, cur, logread, cycle, overdues,
                   requeues, lapsed, evals>>

(* _mark_event_error in a transaction of its own ... *)
MarkEventError(w) ==
    /\ at[w] = "fail"
    /\ estate' = [estate EXCEPT ![cur[w]] = "error"]
    /\ overdue' = overdue \ {cur[w]}
    /\ LetGo(w)
    /\ UNCHANGED <<upload, parser, queue, logread, cycle, spent, evals>>

(* ... whose failure is swallowed. *)
ErrorIsLost(w) ==
    /\ at[w] = "fail" /\ Calm
    /\ faults' = faults + 1
    /\ LetGo(w)
    /\ UNCHANGED <<eventRows, upload, parser, queue, logread, cycle, overdues, requeues,
                   lapsed, evals>>

EngineDies(w) ==
    /\ Calm /\ at[w] # "cycle"
    /\ faults' = faults + 1
    /\ Goto(w, "cycle")
    /\ queue' = [queue EXCEPT ![w] = {}]
    /\ cur' = [cur EXCEPT ![w] = 0]
    /\ logread' = [logread EXCEPT ![w] = "none"]
    /\ UNCHANGED <<eventRows, upload, parser, cycle, overdues, requeues, lapsed, evals>>

(* A claim passes the limit: at once for an event nobody works on, counted  *)
(* against the bound while it waits in a local queue.                        *)
Ages(e) ==
    /\ estate[e] = "processing" /\ e \notin overdue
    /\ \/ ~Held(e) /\ UNCHANGED overdues
       \/ Held(e) /\ Calm /\ overdues' = overdues + 1
    /\ overdue' = overdue \cup {e}
    /\ UNCHANGED <<estate, upload, parser, loop, faults, requeues, lapsed, evals>>

(* The lookback passes an event, in the order they entered the system. *)
Lapses(e) ==
    /\ Calm /\ estate[e] # "absent" /\ e \notin lapsed
    /\ \A d \in Events : d < e => d \in lapsed
    /\ lapsed' = lapsed \cup {e}
    /\ UNCHANGED <<eventRows, upload, parser, loop, faults, overdues, requeues, evals>>

-------------------------------------------------------------------------------

EngineStep(w) ==
    \/ StartCycle(w) \/ Reconcile(w) \/ ClaimNothing(w) \/ QueueDone(w)
    \/ \E S \in SUBSET Events : ClaimEvents(w, S)
    \/ \E e \in Events : TakeEvent(w, e)
    \/ CommitEvent(w) \/ Notified(w) \/ MarkEventError(w)

EngineNext ==
    \/ \E S \in SUBSET Events \ {{}} : ParserInsert(S)
    \/ ParserEnd \/ ParserDies \/ ParserRetries
    \/ UiRequeueErrors \/ (\E b \in BOOLEAN : UiRequeueUpload(b))
    \/ \E w \in Engines : \/ EngineStep(w)
                          \/ FailEvent(w) \/ NotifyRaises(w) \/ ErrorIsLost(w) \/ EngineDies(w)
    \/ \E e \in Events : Ages(e) \/ Lapses(e)

EngineSpec == EngineInit /\ [][EngineNext]_EngineVars

(* The workers are supervised loops, a parse runs to its end unless its     *)
(* process dies, the parsing workers retry it, and time passes.              *)
EngineFairSpec ==
    /\ EngineSpec
    /\ \A w \in Engines : WF_EngineVars(EngineStep(w))
    /\ \A e \in Events : WF_EngineVars(Ages(e))
    /\ WF_EngineVars(ParserEnd) /\ WF_EngineVars(ParserRetries)

-------------------------------------------------------------------------------

EngineTypeOK ==
    /\ estate \in [Events -> {"absent", "pending", "processing", "done", "error"}]
    /\ overdue \in SUBSET Events /\ lapsed \in SUBSET Events
    /\ upload \in UploadStatuses
    /\ parser \in {"run", "done", "dead"}
    /\ at \in [Engines -> {"cycle", "reconcile", "claim", "work", "eval", "notify", "fail"}]
    /\ queue \in [Engines -> SUBSET Events]
    /\ cur \in [Engines -> Events \cup {0}]
    /\ logread \in [Engines -> UploadStatuses \cup {"none"}]
    /\ cycle \in [Engines -> Nat]
    /\ faults \in Nat /\ overdues \in Nat /\ requeues \in Nat
    /\ evals \in [Events -> Nat]

(* An event is evaluated again, and its alerts counted twice, only after a  *)
(* claim became overdue in a live worker or the operator requeued, and at    *)
(* most once for each: deaths and failed transactions never repeat one.      *)
RepeatsNeedTrouble == \A e \in Events : evals[e] <= 1 + overdues + requeues

(* An event is left in processing with no worker on it only by a fault, and *)
(* no fault strands more than one claimed batch.                             *)
StrandedNeedFaults ==
    Cardinality({e \in Events : estate[e] = "processing" /\ ~Held(e)}) <= faults * ClaimBatch

(* Every event that enters the queue is done or in error in the end, unless *)
(* the lookback passed it: what is pending then, or is put back later, is    *)
(* never claimed again.                                                      *)
EventsSettle ==
    \A e \in Events : estate[e] = "pending" ~> estate[e] \in {"done", "error"} \/ e \in lapsed

(* "Evita uploads pegados": an upload the engine has taken over is released. *)
UploadIsReleased == upload = "processing_engine" ~> upload # "processing_engine"
===============================================================================
