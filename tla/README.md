# SentinelX SIEM: specifications and proofs

TLA+ models of the SentinelX back end and its log agent, checked with TLC on
small instances and, where a property matters for every number of workers,
messages, requests and timestamps, proved with TLAPS. The models are written from
the Python code under `app/` and the shell agent under `agent/`; each definition
that stands for code is mapped to its lines in `PROJECT.json`.

Contents: 1 the system; 2 its components; 3 the modules and how they correspond
to the code; 4 the runs, their bounds and what they show; 5 fairness; 6 what is
proved and what is only model-checked; 7 where the code and its documents
disagree; 8 what is not modelled; 9 what is left.

## 1. The system

```
 agent (sh) --chunks--> logs.py --row--> log_uploads (Postgres)
    |                                        |  claim, parse
    |  events                                v
    +----> ingest_v1.py               parsing_worker_loop.py -> log_pipeline.py
                |                            |            |     (app/parsing, GeoIP,
                |   publish                  | publish    | rows  raw_policy)
                v                            v            v
        NATS JetStream: SENTINELX_EVENTS_NORMALIZED     events (Postgres)
          |                 |                  |              |
   opensearch_indexer  minio_evidence   correlation_worker   engine_worker_loop
          |                 |                  |              |
     OpenSearch          MinIO          rule_engine_v2 ------+   <- security lists,
                                               |                    rules_v2
      blacklistmaster_sync ------------> alerts (Postgres)
                                               |
                           incident_job / entity_job (cron)
                                               |
                          incidents, entity scores <--- console (alerts.py,
                                  |                     incidents_v2.py, entities.py)
                          retention_service (purge)
```

Everything after the agent runs as separate processes that share Postgres and
the broker and nothing else. A process may die between any two transactions and
the container runtime starts it again. The compose files run one parsing worker
(its container name is fixed) and let the correlation worker be scaled; the code
supports several of either (`SKIP LOCKED`, a durable consumer), so the models
take the number of workers as a parameter and say which properties need one.

## 2. Components

For each: state; operations; interactions; what is hard; what makes it correct.
`PROJECT.json` has the status of each and, under `hazards`, the lines where it bites.

**Log shipping agent** (`agent/sentinelx-agent.sh`). State: a file of inode and
offset per source, a spool of chunk directories, a lock. Operations: first run,
scan for a newline, write a job, advance the offset, send, discard what was
refused. The source is rotated or truncated under it, and it may die between any
two commands. Correct when no byte behind the offset is lost.

**Upload and chunk ingestion API** (`routers/logs.py`). State: a file on disk and
a row of `log_uploads`. Operations: save the file, insert the row as `uploaded`,
queue it. The insert and the queueing are two transactions, so a death between
them leaves a row no worker looks at; after queueing, two names that were never
imported (`timezone`, line 340, and `logger`, line 358) turn an accepted upload
into an error, and the agent sends the chunk again.

**Upload queue and parsing worker** (`workers/parsing_worker_loop.py`,
`routers/processes.py`). State: `status` and `extra_meta` of each row, the
settings of the pipeline. Operations: stale requeue, global throttle, claim with
row locks, `parse_log_file`, the closing mark, pause; the operator requeues rows
in any status. Two of the steps read in one statement and write unconditionally
in a later one. Correct when an entry of the queue goes to one worker, a row is
shown as finished only when its file was read to the end, rows stay in `parsing`
only for dead workers, and queued rows are claimed.

**Parsing of one file** (`services/log_pipeline.py`). State: counters, the open
transaction, the batch to publish, the status. Operations: one line, a batch
commit and its publication, the end, the error threshold, the fatal path. Two
sinks that cannot be committed together; publications fail silently. Correct when
nothing is published twice or before its row, nothing is left in a buffer at a
normal end, and the status tells what happened.

**Parsers and the two forms of an event** (`app/parsing`, `services/raw_policy.py`,
`schemas/normalized_event.py`, `services/detection_core.py`, `core/bootstrap_rules_v2.py`).
A line becomes a row (read by the engine worker) and a document (read by the
correlation workers), built by different code and read by rules through fields
that either may lack. Only ModSecurity's parser keeps state between lines.
Correct when a login is counted as what it was, its line is kept as evidence, and
an audit event is about one transaction.

**Event ingestion API and NATS client** (`routers/ingest_v1.py`,
`services/nats_service.py`). State: the connection, its `_connected` flag.
Operations: a single event, a batch published event by event, connecting, losing
the link, giving up after five reconnections. Clients send a batch again as a
whole. Correct when what was answered as accepted is in the stream, once.

**OpenSearch indexer** (`workers/opensearch_indexer_worker.py`,
`core/opensearch_client.py`). State: the consumer, a batch, the documents, the
dead-letter queue. Operations: fetch, dead-letter what does not decode, one bulk
request per batch, settle message by message. Partial failures, time-outs after
the request was carried out, redelivery to another worker. Correct when nothing
is acknowledged that neither the index nor the dead-letter queue holds, and only
documents that were refused miss the index.

**MinIO evidence worker** (`workers/minio_evidence_worker.py`,
`services/evidence_service.py`). As the indexer, with an object per event and an
offline branch that leaves messages to the broker.

**Correlation worker** (`workers/correlation_worker.py`,
`services/correlation_engine.py`). State: the consumer, a session of alerts to
add. Operations: fetch, evaluate an event in a transaction of the engine,
acknowledge it, save the alerts of the batch. Correct when a trigger alerts, once.

**Rule engine** (`services/rule_engine_v2.py`). State: in each process an index of
the rules and a deque of events per rule and group; in Postgres the cooldown row
of the group. Operations: reload, append and trim, count, cooldown test, commit or
rollback by the caller, restart. Memory and database disagree after a rollback;
events come late; processes count apart; rules change while they are evaluated.

**Rule catalogue and reprocessing** (`routers/rules_v2.py`,
`services/rule_reprocess.py`). Rows of rules and bindings of lists; creation,
edition, switching, deletion; an administrator may have a rule evaluate old events
again, which deletes its alerts and state rows first.

**Engine worker** (`workers/engine_worker_loop.py`). State: `events.engine_status`,
a local queue of fifty, the status of the uploads. Operations: rescue, claim,
evaluate, mark done or error, notify, mark uploads processed. Not in the compose
files. Hard: claimed events that go stale in the local queue, uploads marked
while the parser is adding to them, a notification that fails after the commit.

**Security lists** (`services/security_list_service.py`, `routers/lists.py`). Rows,
a cache of 60 s in each process with files to fall back on, and the decision
whether an event is trusted. An invalidation message is defined; nothing listens.

**Blocklist job** (`services/blacklistmaster_sync.py`). Fetches what a provider says
of each address and raises an alert when it differs from the last one. Runs may
overlap; mails leave before the commit.

**Incident engine, job and console** (`services/incident_engine.py`,
`services/incident_job.py`, `routers/alerts.py`, `routers/incidents_v2.py`,
`routers/entities.py`). State: alerts, incidents, links, a state row per rule and
group, JSON columns of notes and attributes. Operations: a run in realtime or a
slice of a backfill; closing and reopening alerts singly, by ids, or "all" of a
filter; closing incidents with or without a cascade; notes. Overlapping runs, late
alerts, rollbacks, filters evaluated again, columns written back as a whole.

**Entity scoring job** (`services/entity_job.py`). Scores of IPs, users and hosts, a
ledger, a checkpoint by alert id, decay, backfill. Ids commit out of order and
runs overlap. Correct when a score is its ledger and no alert is passed over.

**Retention** (`services/retention_service.py`, `routers/admin_maintenance.py`).
Purges by age and protects what open incidents need, in several statements; files
are removed before the commit.

**Accounts, keys and agents** (`routers/admin_users.py`, `auth.py`, `api_keys.py`,
`agents.py`, `services/agent_api_key_service.py`). Correct when a key that was
revoked never opens the door again, whatever requests were under way.

**Others**: notifications, GeoIP, reports, read-only pages, settings, incident
rules, the legacy workers, database models, the web front end (section 8).

## 3. The modules

| module | models | instances and proofs |
|---|---|---|
| `UploadPipeline` | `log_uploads` as a work queue: ingestion, parsing workers, operator | `MCUploadPipeline`, `UploadPipelineProofs` |
| `UploadFleet` | the pipeline as it is deployed: some of the workers run, one by default | `MCUploadPipeline`, `UploadPipelineProofs` |
| `ParseRun` | one execution of `parse_log_file` | `MCParseEngine`, `ParseEngineProofs` |
| `EngineWorker` | the rows of `events` as a work queue, next to the parser of their upload | `MCParseEngine`, `ParseEngineProofs` |
| `PullConsumer` | a durable pull consumer of JetStream, as the three consumers use it (external) | |
| `SinkContract` | what a hand-over of events promises: nothing is settled before it is kept | the three consumers; `IngestGate` towards its clients |
| `IndexerWorker` | the OpenSearch indexer; implements `SinkContract` | `MCIndexerWorker`, `IndexerWorkerProofs` |
| `EvidenceWorker` | the MinIO worker; implements `SinkContract` | `MCEvidenceWorker`, `EvidenceWorkerProofs` |
| `CorrelationWorker` | the correlation worker and its engine's transactions; implements `SinkContract` where no commit of the engine fails | `MCCorrelationWorker`, `CorrelationWorkerProofs` |
| `RuleWindow` | window and cooldown of one rule and group | `MCDetection`, `DetectionProofs` |
| `RuleBook` | rules, their copies in the engines, reprocessing | `MCDetection`, `DetectionProofs` |
| `LineParsers`, `EventForms` | every parser; raw policy, row, document, default rules | `MCDetection` |
| `AuditLog` | ModSecurity's audit log, read line by line | `MCDetection`, `ParseEngineProofs` |
| `SecurityLists` | the table, the caches, the trust decision | `MCDetection`, `DetectionProofs` |
| `EntityJob` | scores, ledger, checkpoint | `MCDetection`, `IncidentDeskProofs` |
| `BlocklistSync` | the block list job | `MCDetection`, `DetectionProofs` |
| `IncidentDesk` | incident engine, incident job and console | `MCCasework`, `IncidentDeskProofs` |
| `AlertDesk` | bulk actions over filtered alerts | `MCCasework`, `CaseworkProofs` |
| `JsonColumns` | notes and attributes with several writers | `MCCasework`, `CaseworkProofs` |
| `Retention` | the purge next to the incident job | `MCCasework`, `CaseworkProofs` |
| `AccessDesk` | users, keys, agents and requests that overlap | `MCCasework`, `CaseworkProofs` |
| `IngestGate` | the ingestion API and the NATS client; implements `SinkContract` | `MCCasework`, `CaseworkProofs` |
| `AgentSpool` | the log shipping agent over one source | `MCCasework`, `CaseworkProofs` |

The three consumers EXTEND `PullConsumer`, `EventForms` EXTENDS `LineParsers`.
Variables that are not state of the program are marked as ghosts where they are
declared; mutants of the code's definitions stand beside them
(`Cooling_OffByOne`, `Stale_Inverted`, ...).

**UploadPipeline.** `status` and `startedAt` are the row; `startedAt` is the age of
the *persisted* `parsing_started_at`. The claim sets that key in the dictionary
it loaded and assigns the same dictionary again, which the ORM does not see as a
change, so only `parse_log_file` persists it. `pc` is the place in the loop:
`poll` (requeue), `requeue` (rows read, not yet written), `throttle`, `claim`,
`claimed`, `parsing`, `mark`, `write` (row read, not yet written). A step is a
transaction, except that the stale requeue and the closing mark are split in the
read and the write the code has. `epoch`, `gen` and `passes` are ghosts that count
queue entries, the entry a claim took, and complete passes over the file.

**ParseRun.** A line has one of four outcomes the parser may produce (an event, a
row without an event, nothing, a failure). `pending` and `rows` are the open and
the committed transaction, `batch` what is collected for the broker, `copies`
what reached it: any subset of a batch, since failures are only logged. `lapses`
(ghost) counts the publications that did not bring all of theirs.

**EngineWorker.** `estate` is `engine_status` of each event, `overdue` the claims
older than the limit, `queue` and `cur` the local queue and the event under
evaluation. The transaction of an event reads the upload row early and writes it at
its commit, so `logread` keeps what it saw. A claim and the reconcile look at events
created within the lookback (48 hours by default); `lapsed` are those it has passed. The rescue of the code is left out
because it never runs: the settings read has begun a transaction, and the
`db.begin()` that follows refuses. The parser of the upload inserts events, ends or
dies and is retried; a retry takes away the engine's mark.

**IndexerWorker, EvidenceWorker, CorrelationWorker.** A message is absent,
waiting, in flight or settled. `Redeliver` may return any unacknowledged message
at any moment, which is `ack_wait` running out. Faults (outages, lost
acknowledgements, deaths, refused commits) draw on one budget, `MaxFaults`.
In the indexer a document belongs to a data stream and a message; that stream is
the one of the first event of the batch, as in the code, so an event redelivered
in another batch may get a second document. In the evidence worker `connected`
is the flag that `connect()` trusts and never clears.

**RuleWindow.** `arrivals` is every event a process got since its start, `lo` the
left end of the deque within it: the code trims only from the left, so the deque
is a suffix. Evaluate is one event, ending before the commit; then the commit or
the rollback; a restart forgets the window and keeps the cooldown row.

**RuleBook.** `status` and `form` are the rows of the rules with their bindings,
`index` and `loadedAt` the copy in each process, `work` the transaction an engine is
in: the alerts added, the state rows in hand, those it inserts. An insertion that
loses its race rolls back all the transaction has done. The reprocessing request
has an engine of its own, deletes alerts and state rows, and loads every enabled
rule on its first event, because a fresh engine reloads. What the window says of an event is
left open here; `RuleWindow` has it.

**LineParsers and EventForms.** A line is a record of what expressions may find in
it; each parser is the ordered list of its branches. `EventForms` follows one line
through the parser of its log type, the GeoIP lookup, the raw policy and the two
forms, and reads both with the canonical fields and the whole default rule set
(`Catalogue`).

**AuditLog.** Apache writes sections of transactions, may be cut anywhere and may
use an id again; the parser's `sessions` are a dict in insertion order, and a line
that is not a marker goes to the session opened last. The parser tests every line for
the form of a marker and takes any id, so a line of a body (section C, which says what
the client sent) may open or close a session (`ForgedLine`); `forged` (ghost) says that
the transaction being written has had one.

**SecurityLists.** Rows with expiry, and a cache per process with the time of its load,
which the threads of the process share without a lock. A load takes the time, reads
the table, stores the entries and stores the time; a look-up tests whether the cache is
young, loads it if it is not, and then reads the shared cache again. Each of these is a
step of its thread, and those of two threads interleave. `answer` is the last decision
with what it was based on, `source` (ghost) when the cached entries were read and
stored, `beside` (ghost) which loads another one overlapped.

**EntityJob.** `alert` says of each id whether it is free, in an open transaction,
committed or purged. A batch reads alerts and entities in one step and commits in
another. `late`, `jumped` and `stale` are ghosts: alerts that committed behind a
run, those an operator told a backfill to leave out, entities two runs wrote.

**BlocklistSync.** A run reads the inventory and the provider's answers, then goes
from address to address: last alert, decision, mails, commit. `raised` are the
committed alerts; `overlap` and `mails` are ghosts.

**IncidentDesk.** One rule with a count condition, one group, one entity. A run
goes `judge` (window read), `quiet` or `lookup` (state row read, condition
tested), `link` (incident found), `save` (about to commit). An absent state row is
inserted at `judge` and blocks the other inserters until it is committed or
rolled back. Evidence of an incident that is found is changed in place, which the
ORM does not write, so `evidence` keeps what the incident was opened with.
`opener`, `touches` and `base` are ghosts.

**AlertDesk.** The list is a query with a join, the bulk update one with a
sub-select; the severity filter of both is written out. The list comes in pages of
`PageRows` rows, and the console leaves the search text out of the filters it sends
with a bulk update (`BulkFilters`). `view` is what an analyst looks at: the filter, the
rows of the pages shown and, as a ghost (`whole`), all rows of the filters sent.
`stirred` (ghost) is what changed since.

**JsonColumns.** Notes of an incident and attributes of an entity. An analyst's
request holds a copy (`noting`, `held`) between its read and its commit. The scoring
job merges into the dict its session loaded (`dict`) and assigns that same dict again:
the session sees no change, so only the INSERT of a new entity (`inserted`) carries
attributes. Ghosts: `noteRisk`, notes committed while another request held a copy;
`chosen`, the state the last analyst was answered; `learnt`, what committed batches
found in alerts; `unsaid`, what of it was merged into the dict of a row already there.

**Retention.** A purge walks through its statements (`step`) with what it has read
(`known`, `safe`, `doomed`); the incident job opens incidents and links alerts in
between, and a link to an alert under deletion waits. `late` (ghost) are such links.

**AccessDesk.** A request loads rows and writes back what differs from what it
loaded (`seat`), so an attribute another request changed meanwhile survives unless
this one changes it too. `shut` (ghost) are the keys revoked or found expired.

**IngestGate.** `link` and `connected` are the client's connection and its flag,
`call` the coroutines, `recent` the duplicate window of the stream, `buffered` what
the client wrote while reconnecting. `promised` (ghost) is what was accepted.

**AgentSpool.** A byte is a generation of the file and a position. `saved` is the
state file, `spool` the job directories, `agent` the shell variables of the run.
Every command that writes is a step of its own, and a death may come after any; in the
move of a payload, which is a copy when `/tmp` and the spool are two filesystems, a
death or a full disk may also come in the middle (`MoveIsCut`), and `cut` (ghost) is
what it left behind.
`EndpointAnswers` contains `kept_error`: the answer of `logs.py` when it fails after
queueing.

## 4. The runs

Eight runs pass; four show where the repository disagrees with its own code
(section 7). Components that share no variable are checked side by side in one
run: the module `MC...` EXTENDS them, the first state picks a `part`, and the parts
that were not picked stay in an initial state. So the state space is the sum of
theirs and not the product, and each keeps its own constants.

| run | parts and instance | shows |
|---|---|---|
| `parse_engine` | *parse*: 5 lines, batches of 2, 2 errors allowed, 1 sample. *engine*: 2 events (one older than the lookback), 2 workers, claims of 2, 2 troubles (deaths, overdue claims, requeues, events the lookback passes) | no event published twice or before its row, nothing left in a buffer at a normal end, a batch at most lost for each failed publication, a true status; an engine event is repeated or stranded only after trouble; every event within the lookback settles, the upload is released |
| `upload_safety` | one worker (2 deaths, 2 operator actions) or two (1 each); 2 uploads, one untyped; 2 ageings | rows stranded in `parsing`, or before the queue, only by deaths; one pass at most per queue entry; a finished row was read to its end if one worker runs or it was queued once |
| `upload_liveness` | 2 workers, 2 uploads (one untyped), limit 2, 1 death, 1 ageing, 1 operator action | queued rows are claimed; a started parse does not stay in `parsing` |
| `indexer` | 2 workers, 3 messages of 2 tenants (1 corrupt, 1 refused), batches of 2, 2 faults | implements `SinkContract`; only refused documents are missing; every message is settled |
| `evidence` | 2 workers, 3 messages (1 corrupt), batches of 2, 2 faults | implements `SinkContract`; only a failed upload of its own costs a message its object |
| `correlation` | 2 workers, 2 triggers and 1 corrupt message, batches of 2, 2 faults | every trigger that is not refused for good alerts |
| `detection` | seven parts, below | windows, rules, lists, scores, block lists, parsers |
| `casework` | seven parts, below | incidents, alerts, notes, retention, keys, ingestion, agent |
| `evidence_offline` | as `evidence` | violated: an outage after the first connection |
| `correlation_twice` | 1 worker, no fault | violated: two rows for one alert |
| `incident_resolve` | 2 processes, 3 runs, 1 operator action | violated: a resolved incident leaves its alerts open |
| `login_documents` | the log type `secure`, no rows | violated: no default rule hears a failed login as a document |

`detection`, about 1.9 million states:

| part | instance | properties |
|---|---|---|
| window | 1 process, 5 events with 5 timestamps in any order, window = cooldown = threshold = 2 | `InOrderIsExact`, `AlertsAreSpaced`, `ThresholdAlerts` |
| rules | 2 rules (one installed), 2 forms, one list, an engine and the reprocessing console; 1 edit, 1 tick with a time to live of 1, 2 evaluations, 1 refused commit | `AlertsUseRecentRules`, `CooldownsHaveAlerts` |
| entities | 3 alerts of one entity (one without weight), 2 runs with batches of 2, 1 backfill, 2 decay steps | `OnlyLateAlertsAreSkipped`, `ScoreIsItsLedger` |
| blocklist | 2 addresses, 2 sets of lists, 2 runs at a time, 3 changes, 3 runs, 1 death | `SerialSyncsRepeatNothing` |
| lists | one exception of one rule, in the table or not at first, an address only the files trust, 1 process and another one for changes; 2 threads of it; time to live 1, clock to 2, 1 change, 3 loads or look-ups, 1 failing query | `DecisionIsRecent` |
| reading | every log type of the parser map, every line its parser can tell apart | `LoginsAreCounted` |
| audit | 3 transactions with 2 ids, cut anywhere, bodies with lines like markers | `AuditsAreWhole` |

`casework`, about 1.5 million states:

| part | instance | properties |
|---|---|---|
| incidents | 2 processes, 3 runs, 3 alerts, 3 times, window = cooldown = threshold = 2, 1 operator action | `NoProcessOpensTwo`, `IncidentsHaveBursts`, `SerialRunsAreSpaced` |
| alerts | 2 analysts, 2 alerts of neighbouring severities, 3 filters (one with a text), pages of a row, 2 requests | `OnlyNewcomersAreSwept` |
| columns | 2 analysts and the job, 2 notes, 2 facts | `ColumnsKeepWrites` |
| retention | 1 purge, 2 old alerts and a new one, 2 incidents, an entity, an old file and a new one | `OnlyLateLinksAreCut` |
| access | 2 users, a key of each kind, a host, 2 requests at a time, 4 in all | `ShutStaysShut` |
| ingest | 2 events, 2 coroutines, batches of none, both and too many, 3 requests, 1 break, 1 expiry | `AcceptedOnceStored` |
| agent | a file of up to 4 bytes with newlines at 1 and 3, chunks of 2, 2 generations; 2 troubles (deaths, cut moves, chunks kept but answered with an error) in the first, 1 with a rotation or truncation | `NothingIsSkipped`, `RepeatsHaveCauses` |

Why the bounds are enough. Every race in these components is between two actors
on one row, message or group: two workers are needed and show it, and the proofs
of section 6 take any number. Two uploads make the order of the queue and the
throttle matter; three messages with batches of two make a batch that is full,
one that is not, and a redelivered message in a batch with a stranger. Five lines
with batches of two give two full batches and a partial one, and an error
threshold reached in each of them. Five events with five timestamps and a window
of two give events on, inside and outside both boundaries and a window that
slides past a late one. Three alerts with a threshold of two make windows that
overlap; three runs of two processes make an overlapping pair and a serial one.
Three alerts with batches of two give the entity job a second batch and an id that
commits behind the first. Three transactions with two ids bring one back. A file of
four bytes has a chunk that ends at a newline, one that has to be cut back to it,
and an open line at its end. Budgets (deaths, ageings, operator actions, faults,
runs) bound counters that would make the state infinite; every one is large enough
for the mutant of each property of its run to break it.

Deadlock is checked in the two upload runs and in `login_documents`. The others
stop when a budget, the events or the messages are used up: nothing in the code
stops there, so the check is switched off. Symmetry of the workers is used in
`upload_safety`, that of the threads of a process and of the calls of the block
list endpoint in `detection`, and that of the processes of the incident job in
`casework`; none of them has a liveness property.

Each property is also run against a mutant of the code's definitions, defined
beside the original, and must fail there.

## 5. Fairness

- Workers (parsing, indexer, evidence, correlation, engine): weak fairness of the
  whole loop (`Step(w)`, `EngineStep(w)`), for loops that run for ever under a
  supervisor that restarts them. No action of a loop is preferred, so nothing is
  assumed about *which* branch is taken.
- Broker: weak fairness of redelivery. An unacknowledged message comes back; there
  is no limit on deliveries in the consumers' configuration.
- Requests: weak fairness of `Enqueue`, a handler ends unless its process dies.
- The parser next to the engine: weak fairness of its end and of its retry, which
  the liveness of `UploadPipeline` justifies.
- Time: weak fairness of `Age` and `Ages`; a start or a claim that is never renewed
  becomes stale.
- A pause is lifted, and MinIO comes back, at last.
- Nobody is obliged to publish, to act as an operator, to die or to fail. Faults
  are bounded by a budget, which stands for "eventually none".

One assumption is stronger than the code: after five failed reconnections the
NATS client gives up while `_connected` stays true (`nats_service.py:71`), and a
worker then loops without consuming. The liveness results hold for workers with
a live connection; `IngestGate` has the connection that ends.

## 6. What is proved

All proofs are checked by TLAPS to the last leaf, for any values of the constants
that satisfy the named assumptions (`UploadAssumption`, `ParseAssumption`,
`ConsumerAssumption`, ..., which TLC evaluates in every run).

| module | theorem | argument |
|---|---|---|
| `UploadPipelineProofs` | `TypeCorrect` | inductive as it stands, with `Holds(w) => job[w] \in Uploads` |
| | `ClaimsAreExclusive` | `ClaimInv`: the epoch of a held job is at most that of its row, and smaller when the row is queued; so a new claim gets a new epoch |
| | `PassesAreQueued` | `PassInv`: passes made, claims whose pass is still to come and the waiting entry together are at most the entries counted; a claim turns the waiting entry into a claim, a pass spends it |
| | `DeathsStrandOneEach` | `OrphanInv`: a worker lets go of its upload only when it is not in `parsing`, and a request of its row only when it queued it, except by dying; a death adds one row at most (`OneOrphanMore`) |
| | `FleetsArePipelines` | a fleet of any workers makes only steps of `UploadPipeline` |
| | `UndisturbedMarksAreTrue`, `FinishedUploadsStay` | `FleetInv` for one worker, `SingleInv` for rows queued once, see below |
| `ParseEngineProofs` | `TypeCorrect`, `PublicationsAreSingle`, `RowsPrecedeMessages`, `NormalEndIsComplete`, `StatusIsTrue` | one invariant, `RunInv`: an event that was read waits in the batch or was handed over, never both; a row is pending or committed; what waits to be published has its row; the counter of failures is the number of failing lines. For what is lost, `LossesAreBatches`, see below |
| | `TroubleRepeats` | `EvaluationsAreOwed`: the evaluations of an event made, and those still owed to a worker that holds it or to the next claim of its row, are one and as many more as its row was overdue or queued again |
| | `FaultsStrandABatch` | `AdriftNeedFaults`: a worker leaves events of its load in processing only by a death or a lost mark, and a load is a batch at most |
| | `EngineTypeCorrect` | `EngineInv`, with the loads of the workers |
| | `AuditEventsAreWhole` (`AuditLog`) | see below |
| `IndexerWorkerProofs` | `TypeCorrect`, `RefusalsOnly`, `ImplementsContract` | a message a worker's response calls failed is refused, was turned away, or is a conflict, hence indexed; at `settle` the others of the batch are indexed |
| `EvidenceWorkerProofs` | `TypeCorrect`, `FailedUploadsOnly`, `ImplementsContract` | the three ways to settle each keep the message first |
| `DetectionProofs` | `TypeCorrect`, `InOrderEventsAreCounted`, `OneProcessSpacesAlerts`, `FullWindowsAlert` (`RuleWindow`) | see below |
| | `BookTypeCorrect`, `AlertsRestOnRules`, `NoCooldownWithoutAlert` (`RuleBook`) | see below |
| | `ListTypeCorrect`, `DecisionsAreRecent` (`SecurityLists`) | see below |
| | `SyncTypeCorrect`, `SerialSyncs` (`BlocklistSync`) | see below |
| `CorrelationWorkerProofs` | `TypeCorrect`, `NoRowOfARollback`, `OnlyRollbacksSilence`, `ImplementsContract` | `SilentInv`: a message past its evaluation is detected or refused |
| `IncidentDeskProofs` | `TypeCorrect`, `OneIncidentPerProcess`, `CooldownHoldsForSerialRuns`, `EvidenceHasLinks`, `IncidentsAreBursts` | see below |
| | `EntityTypes`, `NoAlertIsLost`, `ScoresAreTheirLedgers` (`EntityJob`) | see below |
| `CaseworkProofs` | `SelectAllTouchesTheList`, `SerialWritesAreKept`, `ProtectionHasOneGap`, `RevokedKeysStayOut`, `AcceptedIsStored`, `AcceptanceKeepsContract` | see below |
| | `AgentTypeCorrect`, `NoByteIsSkipped`, `RepeatsAreCaused`, `RecordsNeverGoBack`, `QueuedBytesStay` (`AgentSpool`) | see below |

*Uploads.* `UndisturbedMarksAreTrue` has two halves. With one worker `MarkInv` is
enough: at the mark, a row in `parsing` or `parsed` has been passed over. With any
number of workers and a row queued once, `SingleInv` counts: every claim is of a
queue entry (`ClaimsAreCounted`), no two claims are of the same one
(`ClaimsAreExclusive`), so a row with one entry has one holder (`SoleHolder`), and
what that holder leaves behind is what it did (`SinglesAreTold`). The second entry is
needed for the false mark of section 7. `FinishedUploadsStay` is an action property
(`FinishedStays`) and adds `FreeInv` to the two: under either hypothesis no worker that
could put an error, or an earlier status, over a finished row is still on it
(`FreeWhenDone`), so only a new queue entry takes the row back. The bounds `MaxCrashes`, `MaxUi`,
`FleetCrashes`, `FleetUi` are constants, so they bound TLC and not the theorems.

*Losses of a parse.* `NormalEndIsComplete` also says how much a broker that fails may
cost. `LossesAreBatches` counts the events that were handed over and did not arrive
(`Unarrived`): a batch at most for each publication in `lapses`, since a publication hands over
what waits in the batch and the batch test keeps that within its size
(`LossesPreserved`). At a normal end everything that was read was handed over, so what
is missing is lost and nothing else; before it, and at any other end, the batch
that is still being collected is missing too.

*Audit log.* `AuditEventsAreWhole` rests on `AuditInv`: no id has two sessions
(`AuditShape`); unless the transaction Apache is writing had a line like a marker in
its body, its session is the last one until it is closed, stands in the section Apache
is in and knows nothing of another transaction, and once it is closed it has none
(`WritingIsLast`). Such a body may leave any sessions behind, one for each id, but the
A of the next transaction begins a session of its own behind them: the events of that
one are whole again. So a line without a marker goes where it belongs, although the
parser looks at nothing but the order. A transaction that was cut leaves its
session, and the next one with its id begins anew. `AuditAssumption` asks that "none"
is not an id.

*Rule window.* In order of arrival the deque is sorted, so trimming its head trims
all that is old; the cooldown row is the last alert. `FullWindowsAlert` rests on
`QuietInv`: a process that got its events in order, with nothing rolled back, in a
system that has not alerted, has seen no window with as many events as the threshold. The
event that would make one so finds all the others in the deque, which is exact by
`InOrderIsExact`, and no cooldown in its way, so it alerts. This holds for any number of
processes, but of each alone: two may each be given too few (section 7).

*Rules.* `AlertsRestOnRules` needs what an engine's copies were: `CopiesWereSo` says
that a copy is what its rule said when the copy was loaded or later, and
`EventsHaveCopies` that an event is begun with copies younger than the reload
period; an event that is begun with an older copy loads first. `NoCooldownWithoutAlert`
needs three facts at once. `RowsInHand`: a state row that an engine's draft marks is
its own new row, or is committed, or the engine has lost it and cannot commit.
`NumbersAreSingle`: the drafts a process holds bear numbers of evaluations that no
stored alert, no other process and no reprocessing has, so that what a reprocessing
takes away is not what an engine is about to add. `MarksHaveAlerts`
is the property for what is committed, and for what will be when the reprocessing
commits: its purge takes the mark with the last alert. It rests on `BookAssumption`: no
process has the name of a state of a row, and the keys of events are keys.

*Lists.* `DecisionsAreRecent` rests on `ListInv`, which has two halves. What a load
read at a time, and later what a cache holds since that time, is what the table says of
that time except for entries changed then or later (`IsSnapshot`, in
`ReadsAreSnapshots` and `CachesAreSnapshots`), or the files after a load that failed.
And the times are in order: the cache is dated no later than its entries were stored,
and no later than they were read unless another load overlapped theirs
(`CacheInOrder`); a look-up that is about to answer found, or made, a cache stored
within the time to live (`TaskInOrder`); of two loads under way each knows of the other, and
a load that knows of none is younger than the time to live to any look-up about to
answer (`PairInOrder`), so what it stores in between is recent, too.

*Block lists.* `SerialSyncs` rests on `SyncInv`: the alerts have an order, and the
one a run has mailed and not yet committed differs from the last of its group, since
only that run could have added another. With `overlap` nothing is claimed.
`SyncTypeCorrect` needs `SyncHands`: what a run compares and mails is what it read of an
address that is on a list, so no committed alert is about one that is on none.

*Engine.* `TroubleRepeats` and `FaultsStrandABatch` count. `EvaluationsAreOwed` cannot say that a row is
evaluated once: a claim that outlived the limit is owed an evaluation by the worker that
still holds it and by the next to claim it, and that is the allowance.

*Incidents.* `NoProcessOpensTwo` is not inductive: a step that opens an incident must
know that its process has opened none. `OpenersAreOthers` says so of every run that
found none and is about to commit; it holds when the run looks, because it found
the table empty, and later steps of other processes only add incidents of their
own. `SerialRunsAreSpaced` needs `TouchesAreKept`: the state row holds the time of
the last touch, and a run past the cooldown test that has seen the last touch is a
cooldown away from it. `IncidentsHaveBursts` needs `RunsHoldWindows`: what a run
holds is raised, in its window and, once past the condition, enough; and an
alert's time never changes once it is set, so what the evidence says stays true.

*Scores.* `EntityInv` has two parts. `NothingIsPassed`: every alert up to the
checkpoint that is owed a score has one, or committed behind a run (`late`), or was
left out by the operator (`jumped`); the same of the run of every process and of the
batch it has read (`RunPassed`), because any of them may become the checkpoint.
`ScoresAddUp`: the score of an entity that no two runs wrote at once is the fold of
its ledger from zero. A batch folds its alerts over a copy of scores and ledger, and
a score and a ledger row are added together or not at all, so the fact is carried through the
folds, position by position.

*Contract.* `ImplementsContract` is refinement: under
`kept <- Indexed \cup DeadLettered, settled <- ...` initial states map to initial
states and every step to a step of `SinkContract` or a stutter, provided the
dead-letter publication does not fail (`~DlqMayFail`). The correlation worker
implements the same contract under `kept <- detected, settled <- Settled \cap
Triggers`, provided no commit of the engine fails (`~CommitMayFail`): `RowsAndAcksStay`
says that neither side ever shrinks, and `SilentInv` that what is settled is
detected. Each hypothesis is needed, and section 7 says what the code does without it. The
ingestion API stands on the other side of the stream and keeps the same contract
towards its clients, without a hypothesis (`AcceptanceKeepsContract`, `kept` <- the events
that are in the stream, `settled <- promised`): whatever the link does in the middle of a
batch, an answer names as accepted only what was acknowledged (`PromisesAreOfEvents`,
`AcksAreStored`), and the stream takes nothing back (`StreamKeeps`).

*Casework.* Six parts, six inductive invariants. `ListsAreCurrent`: what the
filters that are sent select now and did not list then has changed since the list was
made, so a bulk update finds nothing else. `CopiesAreWhole`: a copy of the notes lacks
only what was committed while it was held; a copy of the attributes lacks no fact of
the row, since facts come with the INSERT and never again; and what the job's dict
has more than the row is in `unsaid`. `LinksAreCovered`: for a purge that protects, every link is late or has been
read by it: its incident is known, then its alert is safe, then it is not doomed,
whichever statement the purge stands at. `ShutKeysAreDead`: a key that was
shut is dead in the table and stays dead whatever row a request still holds; with `NobodyIsLate`, no request that began afterwards gets past the door.
`WindowsBoundCopies` and `AcksAreStored`: an event has been stored at most as often
as its id left the duplicate window, and once more while the id is in it; and what a
request counts as acknowledged is in the stream.

*Agent.* `NoByteIsSkipped` rests on `SpoolInv`: not only the offset on record, also
the end of every job with a payload and the cursor of a run have nothing unaccounted
before them, because each may become the offset. A job that is being made is the
exception: until its payload is moved into place, its bytes are in the temporary
directory only (`RunIsSafe`), and a death there leaves a hollow job and the old offset.
A move that is cut leaves a job with some of its bytes, which the next flush sends and
accounts as the whole chunk: the rest is in `cut` (`CutMoves`), and nothing else is lost.
A job is removed only when its bytes were kept (`AckedIsKept`). Jobs of a rotated
file name an older inode (`InodesAreOld`), so that what they write down is no
offset of the new one. `AlignedCursor` and `ChunkEnds` say what the scans for
newlines return: never a cursor past the offset, never an end past the target.

How often a byte is sent (`RepeatsAreCaused`) rests on `RepeatInv`. `SpoolOrder` and
`RunOrder`: a byte is in one job at most, jobs end behind newlines and at or
before the cursor, and a run that has something in the spool stands at the offset
on record. `AllBounded` is the count: a byte was kept at most as often as there were
troubles and generations of the file; one less when it may be sent once more, because it
waits in the spool or a scan may come by it again; two less when both can happen, as
after a rotation with jobs of the old file in the spool, whose answers write an old
inode over the record. `ScansGoOn` says that a scan from behind a newline does not
go back.

`RecordsNeverGoBack` is an action property (`OffsetsGoOn`): as long as the record is about
the same inode, its offset only grows. `OffsetsAreInFile` gives what a step needs:
what may be written down lies in the file, so that a scan begins at the record
(`ScansBeginAtTheOffset`) and a run never writes an offset before it.

`QueuedBytesStay` is the other one (`NothingQueuedIsDropped`). `NoByteIsSkipped` speaks of
the file that is there now; once it has been rotated away, its bytes cannot be read
again, and what is left of them is the spool. The property says of every generation
that a byte once in the spool is, at every later step, still there, kept or refused.
Only three kinds of step touch the spool: an answer removes a job after its bytes were
counted, a new chunk gets a directory of its own (`NewJobsAreLast`), and a payload moved
into place fills a job that had none (`PayloadsFillGaps`).

Only model-checked:

- liveness (`QueuedIsClaimed`, `StartedParseEnds`, `EveryMessageSettles`,
  `EveryTriggerAlerts`, `EventsSettle`, `UploadIsReleased`), which needs fairness and
  ENABLED and is out of the prover's reach;
- `LoginsAreCounted`. It is about finite tables, the parsers and the default rules,
  written as functions from strings with `:>` and `@@` of the module TLC, of which the
  provers have no definition. Its parameters are the set of log types, of which the
  run takes every one of the parser map with every line a parser can tell apart, and the
  flag `PERSIST_EVENTS`, which does not touch logins, since no domain is inferred for
  their log types.

Induction over data in general is out of reach, since the library's theorems about
it take an operator as a parameter. Where a proof here needs it (the folds of
`EntityJob`), the fold is a recursive function over positions and the induction is the
lemma `UpTo`: a least position at which the claim fails cannot exist. No module
uses RECURSIVE.

## 7. Where the code and its documents disagree

Checked by a run each:

- `evidence_offline`: `connect()` answers from the flag of an earlier connection
  (`evidence_service.py:73`), so an outage takes the error path: the message is
  dead-lettered and acknowledged. `docs/ADR/003-minio-evidence-storage.md:35` says
  it is not acknowledged.
- `correlation_twice`: the engine commits an alert and the worker adds a second row
  for it (`correlation_worker.py:87`).
- `incident_resolve`: `patch_incident_status` never commits on the path that is not
  blocked (`incidents_v2.py:587-606`, `db.py:59-64`).
  `docs/DATA_CONSISTENCY_REPORT.md:18` says the linked alerts are closed.
- `login_documents`: the document of a login carries `event.action` "fail" or
  "success" and never the value the rules of SSH, and of the other logins, look for,
  so no rule hears it in the correlation worker; only the row is heard, in a worker
  the compose files do not start. `tests/unit/test_detection_engine_canonical_ecs.py:114`
  and :139 feed "auth_login" and expect the alert, and
  `docs/RULES_AND_NORMALIZED_EVENTS_COMPATIBILITY_AUDIT.md:17` calls AUTH-001 on it
  compatible.

Seen while modelling, in the models or left out of them, and not kept as runs.

*Uploads and ingestion*

- Two parsing workers on one row (after a stale or an operator's requeue): the
  closing mark of one turns the unfinished row of the other `processed`
  (`parsing_worker_loop.py:182`, against the comment at :243). It takes a second
  queue entry: `FinishedWereRead` is what does hold.
- The stale requeue goes by the start of a parse, not by its progress, so a long
  parse is queued again while it runs (:101).
- `/logs/ingest` queues the chunk and then answers with an error (`logs.py:340`,
  `:358`), so the agent sends it again: the repeats `RepeatsHaveCauses` allows.
- Only the first hundred samples of failing lines are kept (`log_pipeline.py:466`).
- `docs/INGESTION.md:10` answers 202 only after the broker's acknowledgement; a
  batch of which a part failed answers 202 with "partial_error"
  (`ingest_v1.py:157-176`), and `_connected` stays true after the client gave up
  (`nats_service.py:67-71`, :133). What does hold is `AcceptedOnceStored`.
- Two chunks of a source in one second share a job directory; a file truncated in
  place and grown past the old offset loses bytes; a line longer than the scan
  window blocks its file. The move of a payload from `/tmp` to `/var/spool`
  (`sentinelx-agent.sh:58-59`, :586) is a copy across filesystems, so a death or a full
  disk in it leaves a partial chunk that is sent and accounted as whole, against :9 "sin
  perder bytes" and :588 "ATOMICIDAD ESTRICTA". These are the exceptions of
  `NothingIsSkipped`.

*Consumers*

- The dead-letter publication's result is unread (`opensearch_indexer_worker.py:114`,
  `nats_service.py:233`): with `DlqMayFail` the contract fails.
- Version conflicts and overload (409, 429) are dead-lettered as mapping rejections
  (:112), though the first are in the index and the second could be retried.
- The data stream of a batch is that of its first event (:86), so a redelivered
  event may be indexed under another tenant, and twice.
- `process_event_async` swallows a failed commit (`correlation_engine.py:164`) and
  the worker acknowledges the event. ADR 001:68 asks for at-least-once. What does
  hold is `OnlyRefusedAreSilent`.

*Rules*

- The deque of a rule is trimmed only while its head is old
  (`rule_engine_v2.py:632`): a late event behind a younger head is counted after it
  left the window. `docs/ADR/005-correlation-engine.md:26` speaks of automatic
  expulsion. `InOrderIsExact` is what does hold.
- Two processes count apart and read the cooldown row without a lock (:385, :337):
  `AlertsAreSpaced` holds for one process and fails for two, and `ThresholdAlerts`
  speaks of what one process was given: the same events dealt out to two may raise
  nothing. `docs/DETECTION_ENGINE_ARCHITECTURE_AUDIT.md:70` says they share the windows.
- The reprocessing of one rule evaluates all enabled rules: the fresh engine reloads
  its index on the first event. The loser of a race for a state row rolls back what
  the reprocessing deleted.
- The console's invalidation reaches the engine of the API process, which evaluates
  nothing; each start of the application writes the default rules over what an
  operator edited.
- Of the 57 default rules, 25 match neither form of any event the parsers make, for
  they name fields that exist in none (`panel.*`, `file.*`, `waf.rule_id`,
  `event.kind_detail`, `email.direction`, `event.signature`, ...): AUTH-007,
  WEB-010, WEB-011, FILE-001, both FILE-002, the file manager's FILE-003, the SMTP
  forms of MAIL-001 and MAIL-002, both MAIL-003, both MAIL-005, MAIL-006, MAIL-007,
  SYS-002, SYS-003 and LFD-001 to LFD-008. Rows are deaf to RES-001 to RES-003,
  documents to every login rule.
- Row and document differ: the country of a private address is "PRV" in one and
  absent in the other, a blocked address of lfd is "blocked" in one and "success"
  in the other, paths and text have no field in a document.
- The lazy `.*?` before the optional groups of `exim_mainlog.py:50-56` never lets
  them match Exim's delivery lines, so no outcome is set; an authenticated arrival
  in Exim's own order (`H=` before `A=`) is no event.
- The raw policy goes by the log type of the upload: the raw line of `ssh`, `csf`,
  `nginx_access`, `nginx_error`, `messages`, `syslog`, `wp_error` and `sar_stats`
  uploads is never kept.
- A line of a request body that has the form of a section marker is taken for one, with
  any id (`modsec_audit.py:161`): the events made while that transaction is written may
  mix it with others. `AuditsAreWhole` excepts them and no later one.
- A status of three digits outside 100 to 599 fails the validation of the document:
  the event is stored and not published. A failed GeoIP lookup is cached for a day.

*Engine worker*

- A claim and the reconcile look only at events created within the lookback, 48 hours
  by default (`engine_worker_loop.py:172-178`, :187, :245), and a requeue does not renew
  `created_at`: what is pending when it passes, after an outage or because an operator
  put it back, stays pending for ever. It is the exception of `EventsSettle`.
- The rescue of claimed events never runs (`db.begin()` inside the transaction the
  settings read began). An upload whose parser died after the engine had set
  `processing_engine` is not retried by the parsing worker.

*Incidents, alerts, accounts*

- The cooldown of an incident rule compares with the last incident whatever the
  time of the run (`incident_engine.py:245`), so a backfill behind it finds nothing.
- Two overlapping runs of the incident job open an incident each when the state row
  exists; `NoProcessOpensTwo` is the bound that holds.
- The evidence of an incident that grows is changed in place and never written
  (`incident_engine.py:364-371`); its links are.
- An alert of severity above 30 falls out of the filter "high"; `GET
  /alerts/servers` is declared after `/{alert_id}` and is never reached.
- A bulk update with `select_all` changes rows of pages nobody opened, and the console
  leaves the search text out of the filters it sends (`alertas.astro:882-891`, against
  :723), so it may change rows the list on the screen does not hold, while the hint
  beside it counts those of the list (:851). `OnlyNewcomersAreSwept` is what does hold.
- Two overlapping notes lose the first one. What alerts tell of an entity that exists
  already is merged in place and never written (`entity_job.py:156-166`, :340,
  `models/entity.py:27`); to write the job's dict whole would put an old state over
  an analyst's. `ColumnsKeepWrites` is what does hold.
- The forced purge and the backup that wipes use `current_user.username`, which
  `User` has not: they roll back with the files already removed. Entities of open
  incidents are purged by age. An export job stays "running" when its process dies.
- Nothing starts the control listener (`nats_service.py:348`), and toggling a list
  entry sends no message: another process sees it after its time to live, which is
  what `DecisionIsRecent` promises. Two loads of one process that overlap may put older
  entries over newer ones, or a newer time to older ones
  (`security_list_service.py:126-127`, :144): its exception. The `except` of `import_json` names a `logger`
  that is undefined.
- Audit rows of deleted list entries go with them (`ON DELETE CASCADE`).

## 8. What is not modelled

Per component in `PROJECT.json`. Not modelled at all: incident rules (sequential
edition of single rows), reports and exports and the read-only console (queries
and rendering), the legacy workers (one imports a module that does not exist and no
service starts them), database models (declarations; their constraints and the
session options are used by the models of the components above) and the web front
end.

Left out of the modules that exist: contents of lines, events and alerts beyond
what the rules read; regular expressions, timestamps and numbers of the parsers;
baselines and distinct counts of rules; conditions of incident rules other than a
count, and their dynamic severity; the key-value window of the correlation engine,
which only registered rules reach and none is; file names and sizes; the agent's
metrics job and installer, its limits of the spool and the two reset options; backups
and exports of the maintenance pages; searches and pages that change nothing;
logging. Clocks (stale, cooldown, time to live) are ages and small numbers. Postgres
is taken to be READ COMMITTED with its row locks and unique constraints; JetStream
to redeliver what is not acknowledged and to keep what it stored. Side by side is
not composition: parts of an umbrella run meet only through the constants of their
environment (the kept-but-answered-with-an-error of the endpoint in the agent, the
parser next to the engine, the incident job next to the purge).

Two hazards have a property that bounds the damage, because the code does not prevent
it: a death between the insertion of an upload and its queueing (`logs.py:321`) leaves a
row `uploaded` that only the operator queues (`OrphansNeedCrashes`: one row a death,
and nothing else does), and a failed publication of a finished upload
(`log_pipeline.py:72`) is never made up for (`NothingLeftBehind`: a batch each, and no
other events).

## 9. What is left

In order of weight:

1. Composition of the detection parts: `RuleBook` with `RuleWindow` instead of an
   open verdict, and the correlation worker on top of both.
2. An abstract specification of the agent: every byte upstream, in order.
3. The contract for the correlation worker up to refused evaluations, instead of
   without them.
4. Conditions of rules with distinct counts and baselines, and of incident rules
   with more than a count.
5. Spool limits and the metrics job of the agent.
