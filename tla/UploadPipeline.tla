---------------------------- MODULE UploadPipeline ----------------------------
(***************************************************************************)
(* The log_uploads table as a work queue.                                  *)
(*                                                                         *)
(* Writers: the ingestion endpoints (app/routers/logs.py), which insert a  *)
(* row and queue it in a second transaction; any number of parsing workers *)
(* (app/workers/parsing_worker_loop.py), each running requeue, throttle,   *)
(* claim, parse_log_file and the closing mark; the operator's actions of   *)
(* the processes page (app/routers/processes.py).  Any process may die     *)
(* between two of its transactions.                                        *)
(*                                                                         *)
(* One step is one transaction, except where the code reads in one         *)
(* statement and writes unconditionally in a later one: the stale requeue  *)
(* and the closing mark are a read step and a write step.                  *)
(*                                                                         *)
(* The contents of a parse are in ParseRun.  Here a parse is an interval   *)
(* at whose end the whole file has gone downstream once more.              *)
(***************************************************************************)
EXTENDS Naturals, FiniteSets

CONSTANTS
    Uploads,     \* ids of the table, numbered in order of uploaded_at
    Workers,     \* processes running parsing_worker_loop
    Untyped,     \* uploads whose extra_meta has no log_type
    MaxGlobal,   \* pipeline.parsing.max_processing_global
    MaxCrashes,  \* bound: process deaths and database faults in a behaviour
    MaxAges,     \* bound: rows that outlive stale_seconds while not orphaned
    MaxUi        \* bound: operator actions in a behaviour

ASSUME UploadAssumption ==
    /\ Uploads \subseteq Nat \ {0}
    /\ Untyped \subseteq Uploads
    /\ MaxGlobal \in Nat \ {0}
    /\ MaxCrashes \in Nat
    /\ MaxAges \in Nat
    /\ MaxUi \in Nat

VARIABLES
    status,     \* LogUpload.status, "absent" before the row exists
    handler,    \* the ingestion request of the row: none, open (row inserted), closed
    startedAt,  \* age of the persisted extra_meta.parsing_started_at
    paused,     \* pipeline.parsing.enabled = 0
    pc,         \* where each worker stands
    job,        \* the upload a worker claimed, 0 when none
    seen,       \* uploads the worker's stale requeue read and will write
    crashes,    \* process deaths so far
    ages,       \* rows that became stale so far while not orphaned
    ui,         \* operator actions so far
    epoch,      \* ghost: times the row was put in the queue
    gen,        \* ghost: epoch of the row when the worker claimed it
    passes      \* ghost: complete passes over the file

table   == <<status, startedAt>>
worker  == <<pc, job, seen>>
budgets == <<crashes, ages, ui>>
ghosts  == <<epoch, gen, passes>>
vars    == <<table, handler, paused, worker, budgets, ghosts>>

Statuses == {"absent", "uploaded", "queued", "parsing", "parsed", "processed",
             "parsed_with_errors", "error"}

(* Statuses parse_log_file takes for "already parsed". *)
Done == {"parsed", "parsed_with_errors", "processed"}

PCs == {"poll", "requeue", "throttle", "claim", "claimed", "parsing", "mark", "write"}

(* The worker is working on its claimed upload. *)
Holds(w) == pc[w] \in {"claimed", "parsing", "mark", "write"}

Init ==
    /\ status = [u \in Uploads |-> "absent"]
    /\ handler = [u \in Uploads |-> "none"]
    /\ startedAt = [u \in Uploads |-> "none"]
    /\ paused = FALSE
    /\ pc = [w \in Workers |-> "poll"]
    /\ job = [w \in Workers |-> 0]
    /\ seen = [w \in Workers |-> {}]
    /\ crashes = 0
    /\ ages = 0
    /\ ui = 0
    /\ epoch = [u \in Uploads |-> 0]
    /\ gen = [w \in Workers |-> 0]
    /\ passes = [u \in Uploads |-> 0]

-------------------------------------------------------------------------------
(* The ingestion request *)

(* The file is saved and the row inserted, or the save failed and the row   *)
(* records the error.                                                       *)
Receive(u) ==
    /\ status[u] = "absent"
    /\ \A v \in Uploads : v < u => status[v] # "absent"
    /\ \E st \in {"uploaded", "error"} :
        /\ status' = [status EXCEPT ![u] = st]
        /\ handler' = [handler EXCEPT ![u] = IF st = "uploaded" THEN "open" ELSE "closed"]
    /\ UNCHANGED <<startedAt, paused, worker, budgets, ghosts>>

(* The second transaction: whatever the row holds by now becomes queued. *)
Enqueue(u) ==
    /\ handler[u] = "open"
    /\ handler' = [handler EXCEPT ![u] = "closed"]
    /\ status' = [status EXCEPT ![u] = "queued"]
    /\ epoch' = [epoch EXCEPT ![u] = @ + 1]
    /\ UNCHANGED <<startedAt, paused, worker, budgets, gen, passes>>

(* The API process dies between the two transactions. *)
RequestDies(u) ==
    /\ handler[u] = "open" /\ crashes < MaxCrashes
    /\ handler' = [handler EXCEPT ![u] = "closed"]
    /\ crashes' = crashes + 1
    /\ UNCHANGED <<table, paused, worker, ages, ui, ghosts>>

-------------------------------------------------------------------------------
(* The operator *)

(* parsing_requeue_uploads takes any row, parsing_requeue_errors those in   *)
(* error: both write queued without a look at what a worker is doing.       *)
UiRequeue(u) ==
    /\ ui < MaxUi /\ status[u] # "absent"
    /\ ui' = ui + 1
    /\ status' = [status EXCEPT ![u] = "queued"]
    /\ epoch' = [epoch EXCEPT ![u] = IF status[u] = "queued" THEN @ ELSE @ + 1]
    /\ UNCHANGED <<startedAt, handler, paused, worker, crashes, ages, gen, passes>>

(* engine_requeue_upload: a parsed upload goes back to the engine. *)
UiEngineRequeue(u) ==
    /\ ui < MaxUi /\ status[u] \in {"processed", "parsed"}
    /\ ui' = ui + 1
    /\ status' = [status EXCEPT ![u] = "parsed"]
    /\ UNCHANGED <<startedAt, handler, paused, worker, crashes, ages, ghosts>>

(* processes_control flips pipeline.parsing.enabled; switching it back on   *)
(* is not counted against the bound.                                        *)
UiPause ==
    /\ paused \/ ui < MaxUi
    /\ paused' = ~paused
    /\ ui' = IF paused THEN ui ELSE ui + 1
    /\ UNCHANGED <<table, handler, worker, crashes, ages, ghosts>>

-------------------------------------------------------------------------------
(* The worker loop *)

(* Where the loop goes after a job: the next claim of the cycle while       *)
(* max_per_cycle lasts, else a new cycle.                                    *)
NextJob == {"claim", "poll"}

Drop(w, next) ==
    /\ pc' = [pc EXCEPT ![w] = next]
    /\ job' = [job EXCEPT ![w] = 0]
    /\ gen' = [gen EXCEPT ![w] = 0]
    /\ UNCHANGED <<seen, epoch, passes>>

(* Mutant: the test for a missing start is inverted. *)
Stale_Inverted == {u \in Uploads : status[u] = "parsing" /\ startedAt[u] = "none"}

(* Rows a stale requeue takes: parsing, with a persisted start that is old. *)
(* A row without parsing_started_at is never stale.                          *)
Stale == {u \in Uploads : status[u] = "parsing" /\ startedAt[u] = "stale"}

(* _requeue_stale_parsing reads its rows ... *)
RequeueRead(w) ==
    /\ pc[w] = "poll" /\ ~paused
    /\ seen' = [seen EXCEPT ![w] = Stale]
    /\ pc' = [pc EXCEPT ![w] = IF Stale = {} THEN "throttle" ELSE "requeue"]
    /\ UNCHANGED <<table, handler, paused, job, budgets, ghosts>>

(* ... and writes them back as queued, whatever they have become since.     *)
RequeueWrite(w) ==
    /\ pc[w] = "requeue"
    /\ status' = [u \in Uploads |-> IF u \in seen[w] THEN "queued" ELSE status[u]]
    /\ epoch' = [u \in Uploads |-> IF u \in seen[w] /\ status[u] # "queued"
                                     THEN epoch[u] + 1 ELSE epoch[u]]
    /\ seen' = [seen EXCEPT ![w] = {}]
    /\ pc' = [pc EXCEPT ![w] = "throttle"]
    /\ UNCHANGED <<startedAt, handler, paused, job, budgets, gen, passes>>

(* Mutant: rows that wait are counted against the limit. *)
InProgress_WithQueued == {u \in Uploads : status[u] \in {"queued", "parsing"}}

(* The rows _count_parsing counts. *)
InProgress == {u \in Uploads : status[u] = "parsing"}

(* The global limit, tested before any claim of the cycle. *)
Throttle(w) ==
    /\ pc[w] = "throttle"
    /\ pc' = [pc EXCEPT ![w] =
                IF Cardinality(InProgress) >= MaxGlobal THEN "poll" ELSE "claim"]
    /\ UNCHANGED <<table, handler, paused, job, seen, budgets, ghosts>>

(* Mutant: the claim also takes a row that another worker is parsing. *)
Claimable_AlsoParsing == {"queued", "parsing"}

Claimable == {"queued"}

ClaimedStatus == "parsing"

(* _claim_one_job: the oldest queued row, locked with SKIP LOCKED.  The     *)
(* mutated extra_meta dictionary is the loaded one, so the ORM writes only  *)
(* the status: parsing_started_at keeps its persisted value.                *)
Claim(w, u) ==
    /\ pc[w] = "claim" /\ status[u] \in Claimable
    /\ \A v \in Uploads : v < u => status[v] \notin Claimable
    /\ status' = [status EXCEPT ![u] = ClaimedStatus]
    /\ pc' = [pc EXCEPT ![w] = "claimed"]
    /\ job' = [job EXCEPT ![w] = u]
    /\ gen' = [gen EXCEPT ![w] = epoch[u]]
    /\ UNCHANGED <<startedAt, handler, paused, seen, budgets, epoch, passes>>

NothingToClaim(w) ==
    /\ pc[w] = "claim"
    /\ \A u \in Uploads : status[u] \notin Claimable
    /\ pc' = [pc EXCEPT ![w] = "poll"]
    /\ UNCHANGED <<table, handler, paused, job, seen, budgets, ghosts>>

(* Mutant: _mark_error returns without its commit. *)
MarkedError_Uncommitted(u) == status[u]

(* What _mark_error leaves in the row. *)
MarkedError(u) == "error"

(* _mark_error of a claimed upload without a log_type. *)
RejectUntyped(w) ==
    /\ pc[w] = "claimed" /\ job[w] \in Untyped
    /\ status' = [status EXCEPT ![job[w]] = MarkedError(job[w])]
    /\ \E next \in NextJob : Drop(w, next)
    /\ UNCHANGED <<startedAt, handler, paused, budgets>>

(* parse_log_file on a row already parsed: nothing is done. *)
SkipParse(w) ==
    /\ pc[w] = "claimed" /\ job[w] \notin Untyped
    /\ status[job[w]] \in Done
    /\ pc' = [pc EXCEPT ![w] = "mark"]
    /\ UNCHANGED <<table, handler, paused, job, seen, budgets, ghosts>>

(* parse_log_file's first transaction: parsing, started now. *)
StartParse(w) ==
    /\ pc[w] = "claimed" /\ job[w] \notin Untyped
    /\ status[job[w]] \notin Done
    /\ status' = [status EXCEPT ![job[w]] = "parsing"]
    /\ startedAt' = [startedAt EXCEPT ![job[w]] = "fresh"]
    /\ pc' = [pc EXCEPT ![w] = "parsing"]
    /\ UNCHANGED <<handler, paused, job, seen, budgets, ghosts>>

(* parse_log_file's last transaction: the final status, over whatever the   *)
(* row holds.                                                               *)
FinishParse(w) ==
    /\ pc[w] = "parsing"
    /\ \E st \in {"processed", "parsed_with_errors"} :
        status' = [status EXCEPT ![job[w]] = st]
    /\ passes' = [passes EXCEPT ![job[w]] = @ + 1]
    /\ pc' = [pc EXCEPT ![w] = "mark"]
    /\ UNCHANGED <<startedAt, handler, paused, job, seen, budgets, epoch, gen>>

(* A fatal error: parse_log_file writes error and returns, or raises and    *)
(* the worker's _mark_error writes it.                                       *)
RecordFailure(w) ==
    /\ status' = [status EXCEPT ![job[w]] = MarkedError(job[w])]
    /\ \/ pc' = [pc EXCEPT ![w] = "mark"] /\ UNCHANGED <<job, seen, ghosts>>
       \/ \E next \in NextJob : Drop(w, next)
    /\ UNCHANGED <<startedAt, handler, paused>>

(* The file is gone, unreadable or of an unsupported type. *)
FailParse(w) ==
    /\ pc[w] = "parsing"
    /\ RecordFailure(w)
    /\ UNCHANGED budgets

(* The first transaction of parse_log_file fails: a fault of the database,  *)
(* counted with the process deaths.                                         *)
FailStart(w) ==
    /\ pc[w] = "claimed" /\ job[w] \notin Untyped /\ crashes < MaxCrashes
    /\ crashes' = crashes + 1
    /\ RecordFailure(w)
    /\ UNCHANGED <<ages, ui>>

(* Mutant: the mark repairs failed parses too. *)
Unfinished_AlsoError == {"parsing", "parsed", "error"}

Unfinished == {"parsing", "parsed"}

(* _mark_parsed_or_processed reads the row ... *)
MarkRead(w) ==
    /\ pc[w] = "mark"
    /\ \/ /\ status[job[w]] \in Unfinished
          /\ pc' = [pc EXCEPT ![w] = "write"]
          /\ UNCHANGED <<job, seen, ghosts>>
       \/ /\ status[job[w]] \notin Unfinished
          /\ \E next \in NextJob : Drop(w, next)
    /\ UNCHANGED <<table, handler, paused, budgets>>

(* ... and commits processed. *)
MarkWrite(w) ==
    /\ pc[w] = "write"
    /\ status' = [status EXCEPT ![job[w]] = "processed"]
    /\ \E next \in NextJob : Drop(w, next)
    /\ UNCHANGED <<startedAt, handler, paused, budgets>>

(* The worker process dies and is started again. *)
Crash(w) ==
    /\ crashes < MaxCrashes /\ pc[w] # "poll"
    /\ crashes' = crashes + 1
    /\ pc' = [pc EXCEPT ![w] = "poll"]
    /\ job' = [job EXCEPT ![w] = 0]
    /\ seen' = [seen EXCEPT ![w] = {}]
    /\ gen' = [gen EXCEPT ![w] = 0]
    /\ UNCHANGED <<table, handler, paused, ages, ui, epoch, passes>>

(* stale_seconds pass since the start of a parse.  The start of an orphan,  *)
(* a row left in parsing by a dead worker, always ages; any other ageing    *)
(* counts against the bound.                                                *)
Orphan(u) == status[u] = "parsing" /\ ~\E w \in Workers : Holds(w) /\ job[w] = u

Age(u) ==
    /\ startedAt[u] = "fresh"
    /\ \/ Orphan(u) /\ ages' = ages
       \/ ~Orphan(u) /\ ages < MaxAges /\ ages' = ages + 1
    /\ startedAt' = [startedAt EXCEPT ![u] = "stale"]
    /\ UNCHANGED <<status, handler, paused, worker, crashes, ui, ghosts>>

-------------------------------------------------------------------------------

Step(w) ==
    \/ RequeueRead(w) \/ RequeueWrite(w) \/ Throttle(w)
    \/ (\E u \in Uploads : Claim(w, u)) \/ NothingToClaim(w)
    \/ RejectUntyped(w) \/ SkipParse(w) \/ StartParse(w)
    \/ FinishParse(w) \/ FailParse(w) \/ FailStart(w) \/ MarkRead(w) \/ MarkWrite(w)

Next ==
    \/ \E u \in Uploads : \/ Receive(u) \/ Enqueue(u) \/ RequestDies(u)
                          \/ UiRequeue(u) \/ UiEngineRequeue(u) \/ Age(u)
    \/ UiPause
    \/ \E w \in Workers : Step(w) \/ Crash(w)

Spec == Init /\ [][Next]_vars

(* The workers are long-running loops supervised by the container runtime,  *)
(* a request handler runs to its end unless its process dies, and time      *)
(* passes.  Nothing obliges an operator to act or a process to die; a pause *)
(* is lifted eventually.                                                    *)
FairSpec ==
    /\ Spec
    /\ \A w \in Workers : WF_vars(Step(w))
    /\ \A u \in Uploads : WF_vars(Enqueue(u)) /\ WF_vars(Age(u))
    /\ WF_vars(paused /\ UiPause)

-------------------------------------------------------------------------------

TypeOK ==
    /\ status \in [Uploads -> Statuses]
    /\ handler \in [Uploads -> {"none", "open", "closed"}]
    /\ startedAt \in [Uploads -> {"none", "fresh", "stale"}]
    /\ paused \in BOOLEAN
    /\ pc \in [Workers -> PCs]
    /\ job \in [Workers -> Uploads \cup {0}]
    /\ seen \in [Workers -> SUBSET Uploads]
    /\ crashes \in Nat /\ ages \in Nat /\ ui \in Nat
    /\ epoch \in [Uploads -> Nat]
    /\ gen \in [Workers -> Nat]
    /\ passes \in [Uploads -> Nat]
    /\ \A w \in Workers : Holds(w) => job[w] \in Uploads

(* Two workers hold one upload only when it was put back in the queue       *)
(* between their claims: SKIP LOCKED and the status change of the claim     *)
(* give every queue entry to one worker.                                    *)
OneClaimPerQueueEntry ==
    \A w1, w2 \in Workers :
        (w1 # w2 /\ Holds(w1) /\ Holds(w2) /\ job[w1] = job[w2]) => gen[w1] # gen[w2]

(* The row of a request that died before it was queued: nothing but the     *)
(* operator queues it any more.                                              *)
Abandoned(u) == status[u] = "uploaded" /\ handler[u] = "closed"

(* A row is left in parsing with no worker on it, or in uploaded with no    *)
(* request on it, only by the death of that worker or of that request, one  *)
(* row a death: the operator's requeues, the stale requeues and the closing *)
(* marks of two workers on one row never strand it.                         *)
OrphansNeedCrashes ==
    Cardinality({u \in Uploads : Orphan(u) \/ Abandoned(u)}) <= crashes

(* An upload shown as finished has been read to its end by some parse.  The *)
(* worker's closing mark is commented as doing this "de forma segura".      *)
ProcessedMeansParsed ==
    \A u \in Uploads : status[u] \in Done => passes[u] > 0

(* A file goes downstream at most once for each time its row was put in the *)
(* queue: stale requeues, operator requeues and overlapping parses cost one  *)
(* more pass each and no more, and a claim that follows none costs nothing.  *)
OnePassPerQueueEntry ==
    \A u \in Uploads : passes[u] <= epoch[u]

(* A queued upload is claimed in the end, whatever older uploads, crashed   *)
(* workers and stale rows do, when the global limit is not reached by rows  *)
(* that nobody is parsing.                                                  *)
QueuedIsClaimed ==
    \A u \in Uploads : status[u] = "queued" ~> status[u] # "queued"

(* A parse that got as far as its first transaction does not stay in        *)
(* parsing: it ends, or it becomes stale and is queued again.               *)
StartedParseEnds ==
    \A u \in Uploads :
        (status[u] = "parsing" /\ startedAt[u] # "none") ~> status[u] # "parsing"
===============================================================================
