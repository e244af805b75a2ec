------------------------------- MODULE ParseRun -------------------------------
(***************************************************************************)
(* One execution of parse_log_file (app/services/log_pipeline.py) over one *)
(* uploaded file: the per-line loop, the batch commits and publications,   *)
(* the error threshold, the final status and the fatal path.               *)
(*                                                                         *)
(* A line is its number; what the parser does with it is a nondeterministic*)
(* outcome.  Two sinks receive an event: a row of Postgres, written in the *)
(* batch transaction when PERSIST_EVENTS_TO_POSTGRES=1, and a message of   *)
(* NATS JetStream, published after the commit.  The publication swallows   *)
(* every failure, so any subset of a batch may reach the stream.           *)
(***************************************************************************)
EXTENDS Naturals, FiniteSets

CONSTANTS
    NumLines,       \* lines of the uploaded file
    BatchEvents,    \* PIPELINE_BATCH_EVENTS
    MaxLineErrors,  \* PIPELINE_MAX_LINE_ERRORS
    MaxSamples,     \* error samples kept in extra_meta (100 in the code)
    PersistEvents   \* PERSIST_EVENTS_TO_POSTGRES

ASSUME ParseAssumption ==
    /\ NumLines \in Nat
    /\ BatchEvents \in Nat \ {0}
    /\ MaxLineErrors \in Nat \ {0}
    /\ MaxSamples \in Nat
    /\ PersistEvents \in BOOLEAN

VARIABLES
    pc,       \* where parse_log_file stands
    line,     \* lines_total: lines taken from the file so far
    outcome,  \* what became of each line
    pending,  \* rows flushed in the open transaction, not yet committed
    rows,     \* committed Event rows
    batch,    \* nats_batch_events
    offered,  \* ghost: lines whose event was handed to the publisher
    copies,   \* messages of the stream per line
    lapses,   \* ghost: publications that did not bring every event of their batch
    created,  \* events_created
    failed,   \* lines_failed
    samples,  \* lines recorded in extra_meta.parsing_errors
    status    \* LogUpload.status

vars == <<pc, line, outcome, pending, rows, batch, offered, copies, lapses,
          created, failed, samples, status>>

Lines == 1..NumLines

(* "event": parsed and canonical; "rowonly": parsed, but the conversion to  *)
(* NormalizedEvent raised and was swallowed; "skip": an empty line or one   *)
(* the parser ignores; "fail": the parser raised.                           *)
Outcomes == {"event", "rowonly", "skip", "fail"}

Created == {"event", "rowonly"}

Init ==
    /\ pc = "open"
    /\ line = 0
    /\ outcome = [l \in Lines |-> "unread"]
    /\ pending = {}
    /\ rows = {}
    /\ batch = {}
    /\ offered = {}
    /\ copies = [l \in Lines |-> 0]
    /\ lapses = 0
    /\ created = 0
    /\ failed = 0
    /\ samples = {}
    /\ status = "parsing"

-------------------------------------------------------------------------------

(* The parser class is found and the file opened. *)
Open ==
    /\ pc = "open"
    /\ pc' = "lines"
    /\ UNCHANGED <<line, outcome, pending, rows, batch, offered, copies, lapses,
                   created, failed, samples, status>>

(* An event was created: the batch is committed and published when the      *)
(* number of events reaches a multiple of BATCH_EVENTS.                      *)
ReadEvent(o) ==
    /\ pc = "lines" /\ line < NumLines
    /\ line' = line + 1
    /\ outcome' = [outcome EXCEPT ![line + 1] = o]
    /\ created' = created + 1
    /\ pending' = IF PersistEvents THEN pending \cup {line + 1} ELSE pending
    /\ batch' = IF o = "event" THEN batch \cup {line + 1} ELSE batch
    /\ pc' = IF (created + 1) % BatchEvents = 0 THEN "commit" ELSE "lines"
    /\ UNCHANGED <<rows, offered, copies, lapses, failed, samples, status>>

(* A skipped line continues the loop without the batch test. *)
ReadSkip ==
    /\ pc = "lines" /\ line < NumLines
    /\ line' = line + 1
    /\ outcome' = [outcome EXCEPT ![line + 1] = "skip"]
    /\ UNCHANGED <<pc, pending, rows, batch, offered, copies, lapses, created, failed,
                   samples, status>>

(* The parser raised: the savepoint is rolled back, a sample is kept while   *)
(* there is room, and the loop is left at the error threshold.  The batch    *)
(* test still follows a line that failed below it.                           *)
ReadFailure ==
    /\ pc = "lines" /\ line < NumLines
    /\ line' = line + 1
    /\ outcome' = [outcome EXCEPT ![line + 1] = "fail"]
    /\ failed' = failed + 1
    /\ samples' = IF Cardinality(samples) < MaxSamples
                    THEN samples \cup {line + 1} ELSE samples
    /\ pc' = IF failed + 1 >= MaxLineErrors THEN "final"
             ELSE IF created > 0 /\ created % BatchEvents = 0 THEN "commit"
             ELSE "lines"
    /\ UNCHANGED <<pending, rows, batch, offered, copies, lapses, created, status>>

AtEndOfFile == line = NumLines

EndOfFile ==
    /\ pc = "lines" /\ AtEndOfFile
    /\ pc' = "final"
    /\ UNCHANGED <<line, outcome, pending, rows, batch, offered, copies, lapses,
                   created, failed, samples, status>>

(* Mutant: the batch transaction is dropped instead of committed. *)
CommittedRows_Dropped == rows

CommittedRows == rows \cup pending

(* Mutant: the batch left over after the loop is not published. *)
AfterLoop_NoFlush == "finish"

AfterLoop == IF batch = {} THEN "finish" ELSE "flush"

(* db.commit(): at a full batch, and once more after the loop. *)
Commit ==
    /\ \/ pc = "commit" /\ pc' = IF batch = {} THEN "lines" ELSE "publish"
       \/ pc = "final"  /\ pc' = AfterLoop
    /\ rows' = CommittedRows
    /\ pending' = {}
    /\ UNCHANGED <<line, outcome, batch, offered, copies, lapses, created, failed,
                   samples, status>>

(* Mutant: the batch list is not emptied after its publication. *)
BatchAfterPublish_Kept == batch

BatchAfterPublish == {}

(* _publish_batch_to_nats_sync: per-event failures are logged, a broker that *)
(* is down is logged too, and the batch list is emptied in every case.       *)
Publish(sent) ==
    /\ pc \in {"publish", "flush"}
    /\ sent \subseteq batch
    /\ copies' = [l \in Lines |-> IF l \in sent THEN copies[l] + 1 ELSE copies[l]]
    /\ lapses' = IF sent = batch THEN lapses ELSE lapses + 1
    /\ offered' = offered \cup batch
    /\ batch' = BatchAfterPublish
    /\ pc' = IF pc = "publish" THEN "lines" ELSE "finish"
    /\ UNCHANGED <<line, outcome, pending, rows, created, failed, samples, status>>

(* Mutant: only the error threshold counts as errors. *)
FinalStatus_Threshold ==
    IF failed >= MaxLineErrors THEN "parsed_with_errors" ELSE "processed"

FinalStatus == IF failed > 0 THEN "parsed_with_errors" ELSE "processed"

(* The final status is written over whatever the row holds. *)
Finish ==
    /\ pc = "finish"
    /\ status' = FinalStatus
    /\ pc' = "done"
    /\ UNCHANGED <<line, outcome, pending, rows, batch, offered, copies, lapses,
                   created, failed, samples>>

(* An unsupported log_type, a file that is gone or unreadable, a database    *)
(* error: what is pending is committed, or rolled back when that fails, the  *)
(* unpublished batch is dropped and the row becomes error.                    *)
Fatal ==
    /\ pc \in {"open", "lines", "commit", "final", "finish"}
    /\ rows' \in {rows, rows \cup pending}
    /\ pending' = {}
    /\ status' = "error"
    /\ pc' = "done"
    /\ UNCHANGED <<line, outcome, batch, offered, copies, lapses, created, failed, samples>>

(* The worker process dies: the open transaction is rolled back. *)
Crash ==
    /\ pc # "done" /\ pc # "dead"
    /\ pending' = {}
    /\ pc' = "dead"
    /\ UNCHANGED <<line, outcome, rows, batch, offered, copies, lapses, created, failed,
                   samples, status>>

Terminated == pc \in {"done", "dead"} /\ UNCHANGED vars

Next ==
    \/ Open
    \/ \E o \in Created : ReadEvent(o)
    \/ ReadSkip
    \/ ReadFailure
    \/ EndOfFile
    \/ Commit
    \/ \E sent \in SUBSET batch : Publish(sent)
    \/ Finish
    \/ Fatal
    \/ Crash
    \/ Terminated

Spec == Init /\ [][Next]_vars

-------------------------------------------------------------------------------

TypeOK ==
    /\ pc \in {"open", "lines", "commit", "publish", "final", "flush", "finish",
               "done", "dead"}
    /\ line \in 0..NumLines
    /\ outcome \in [Lines -> Outcomes \cup {"unread"}]
    /\ pending \subseteq Lines
    /\ rows \subseteq Lines
    /\ batch \subseteq Lines
    /\ offered \subseteq Lines
    /\ copies \in [Lines -> Nat]
    /\ lapses \in Nat
    /\ created \in Nat
    /\ failed \in Nat
    /\ samples \subseteq Lines
    /\ status \in {"parsing", "processed", "parsed_with_errors", "error"}

(* One parse publishes the event of a line at most once, however batches,   *)
(* failing lines and the final flush interleave: consumers see duplicates   *)
(* only when a file is parsed again.                                        *)
PublishedAtMostOnce == \A l \in Lines : copies[l] <= 1

(* With rows in Postgres on, an event is in the stream only when its row is *)
(* committed: a consumer never refers to a row a rollback will take away.   *)
PublishedAfterCommit ==
    PersistEvents => \A l \in Lines : copies[l] > 0 => l \in rows

(* Events that were read and are not in the stream. *)
Missing == {l \in Lines : outcome[l] = "event" /\ copies[l] = 0}

(* A parse that ends without a fatal error has handed every event it made   *)
(* to the publisher and committed every row it made, the last partial batch *)
(* included, so that its events miss the stream only by publications that   *)
(* failed, a batch at most each.  An early end loses one batch more, never  *)
(* what earlier batches published.                                           *)
NothingLeftBehind ==
    /\ Cardinality(Missing) <= BatchEvents * (lapses + 1)
    /\ status \in {"processed", "parsed_with_errors"} =>
          /\ Cardinality(Missing) <= BatchEvents * lapses
          /\ \A l \in Lines :
                /\ outcome[l] = "event" => l \in offered
                /\ (PersistEvents /\ outcome[l] \in Created) => l \in rows

(* "processed" is claimed only of a file read to its last line with no      *)
(* failure; a file left early is parsed_with_errors and has as many failed  *)
(* lines as the threshold says.                                             *)
StatusTellsTheTruth ==
    /\ status = "processed" => \A l \in Lines : outcome[l] \notin {"unread", "fail"}
    /\ status = "parsed_with_errors" =>
           \/ \A l \in Lines : outcome[l] # "unread"
           \/ Cardinality({l \in Lines : outcome[l] = "fail"}) = MaxLineErrors

===============================================================================
