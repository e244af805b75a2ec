------------------------------- MODULE EntityJob -------------------------------
(***************************************************************************)
(* The entity scoring job (app/services/entity_job.py): a run reads alerts *)
(* in the order of their id from a checkpoint on, adds their severity to   *)
(* the score of an entity and writes a ledger row for each change, one     *)
(* transaction per batch.  Runs may overlap (a timer and the command line  *)
(* start them), backfills start where the operator says.                   *)
(*                                                                         *)
(* A batch reads its alerts and entities in one step and commits in        *)
(* another.  Alert ids are given out before the alert commits.             *)
(***************************************************************************)
EXTENDS Integers, FiniteSets, Sequences, SequencesExt

CONSTANTS
    AlertCount,   \* ids are 1 .. AlertCount
    Entities,     \* entities an alert may be about
    NoEntity,     \* an alert in which _pick_primary_entity finds nothing
    EntityOf,     \* [1 .. AlertCount -> Entities \cup {NoEntity}]
    Severity,     \* severity of the rule behind each alert
    TriggeredAt,  \* triggered_at of each alert
    Jobs,         \* processes that may run the job
    BatchSize,    \* batch_size
    MaxScore,     \* the score is kept between 0 and this (100)
    DecaySteps,   \* sequence of <<age, delta>>, as _DECAY_STEPS
    MaxTime,      \* bound on the clock
    MaxBackfills  \* bound on backfills

AlertIds == 1 .. AlertCount

ASSUME EntityAssumption ==
    /\ AlertCount \in Nat /\ BatchSize \in Nat \ {0} /\ MaxScore \in Nat
    /\ NoEntity \notin Entities
    /\ EntityOf \in [AlertIds -> Entities \cup {NoEntity}]
    /\ Severity \in [AlertIds -> Nat] /\ TriggeredAt \in [AlertIds -> Nat]
    /\ DecaySteps \in Seq(Nat \X Int)
    /\ MaxTime \in Nat /\ MaxBackfills \in Nat

VARIABLES
    alert,       \* of each id: free, open (its transaction runs), there, gone
    score,       \* Entity.score_current, Absent before the row exists
    updated,     \* Entity.score_updated_at
    ledger,      \* rows of entity_score_events: <<entity, delta, id or 0>>
    checkpoint,  \* meta.last_alert_id
    job,         \* of each process: its run
    clock,
    backfills,
    late,        \* ghost: alerts committed after some run had passed their id
    jumped,      \* ghost: unscored alerts that a backfill started behind
    stale        \* ghost: entities written from a row read before another write

entityRows == <<score, updated, ledger>>
EntityVars == <<alert, entityRows, checkpoint, job, clock, backfills, late, jumped, stale>>

Absent == -1
Idle == [phase |-> "idle"]
ScoresSaved == {a \in AlertIds : alert[a] = "there"}
Scored(rows) == {rows[i][3] : i \in DOMAIN rows} \ {0}

EntityInit ==
    /\ alert = [a \in AlertIds |-> "free"]
    /\ score = [e \in Entities |-> Absent]
    /\ updated = [e \in Entities |-> 0]
    /\ ledger = <<>>
    /\ checkpoint = 0
    /\ job = [j \in Jobs |-> Idle]
    /\ clock = 0 /\ backfills = 0
    /\ late = {} /\ jumped = {} /\ stale = {}

-------------------------------------------------------------------------------
(* Alerts *)

TakeAlertId(a) ==
    /\ alert[a] = "free" /\ \A b \in 1 .. (a - 1) : alert[b] # "free"
    /\ alert' = [alert EXCEPT ![a] = "open"]
    /\ UNCHANGED <<entityRows, checkpoint, job, clock, backfills, late, jumped, stale>>

(* The highest id a run has read. *)
Reach(j) ==
    CASE job[j].phase = "idle"  -> 0
      [] job[j].phase = "run"   -> job[j].last
      [] job[j].phase = "batch" -> Last(job[j].batch)

CommitAlert(a) ==
    /\ alert[a] = "open"
    /\ alert' = [alert EXCEPT ![a] = "there"]
    /\ late' = IF checkpoint >= a \/ \E j \in Jobs : Reach(j) >= a
                 THEN late \cup {a} ELSE late
    /\ UNCHANGED <<entityRows, checkpoint, job, clock, backfills, jumped, stale>>

RollbackAlert(a) ==
    /\ alert[a] = "open"
    /\ alert' = [alert EXCEPT ![a] = "gone"]
    /\ UNCHANGED <<entityRows, checkpoint, job, clock, backfills, late, jumped, stale>>

EntityTick ==
    /\ clock < MaxTime
    /\ clock' = clock + 1
    /\ UNCHANGED <<alert, entityRows, checkpoint, job, backfills, late, jumped, stale>>

-------------------------------------------------------------------------------
(* What a batch makes of the entities: rows = [score, updated, ledger, news], *)
(* where news are the entities the batch inserted.                             *)

Clamp(n) == IF n < 0 THEN 0 ELSE IF n > MaxScore THEN MaxScore ELSE n

(* _apply_decay_if_needed: the last step whose age is reached. *)
DecayOf(age) ==
    LET reached == {i \in DOMAIN DecaySteps : age >= DecaySteps[i][1]}
    IN  IF reached = {} THEN 0 ELSE DecaySteps[Max(reached)][2]

Touch(rows, e, a) ==
    IF rows.score[e] # Absent THEN rows
    ELSE [rows EXCEPT !.score[e] = 0, !.updated[e] = TriggeredAt[a],
                      !.news = @ \cup {e}]

Bump(rows, e, delta, reason, now) ==
    IF delta = 0 THEN rows
    ELSE [rows EXCEPT !.score[e] = Clamp(@ + delta), !.updated[e] = now,
                      !.ledger = Append(@, <<e, delta, reason>>)]

(* Mutant: the decay leaves no row in the ledger. *)
ScoreAlert_SilentDecay(rows, a, now) ==
    LET e == EntityOf[a]
        seen == Touch(rows, e, a)
        decayed == Bump(seen, e, DecayOf(now - seen.updated[e]), 0, now)
    IN  IF e = NoEntity THEN rows
        ELSE Bump([decayed EXCEPT !.ledger = rows.ledger], e, Severity[a], a, now)

(* The body of the loop over the alerts of a batch. *)
ScoreAlert(rows, a, now) ==
    LET e == EntityOf[a]
        seen == Touch(rows, e, a)
        decayed == Bump(seen, e, DecayOf(now - seen.updated[e]), 0, now)
    IN  IF e = NoEntity THEN rows ELSE Bump(decayed, e, Severity[a], a, now)

(* The loop: what the first i alerts of a batch make of the rows.           *)
ScoreBatch(rows, batch, now) ==
    LET after[i \in 0 .. Len(batch)] ==
          IF i = 0 THEN rows ELSE ScoreAlert(after[i - 1], batch[i], now)
    IN  after[Len(batch)]

-------------------------------------------------------------------------------
(* Runs *)

StartRealtime(j) ==
    /\ job[j].phase = "idle"
    /\ job' = [job EXCEPT ![j] = [phase |-> "run", mode |-> "realtime",
                                  last |-> checkpoint, now |-> clock]]
    /\ UNCHANGED <<alert, entityRows, checkpoint, clock, backfills, late, jumped, stale>>

(* --from-alert-id, and --from-triggered-at once its first id is found. *)
StartBackfill(j, from) ==
    /\ job[j].phase = "idle"
    /\ backfills < MaxBackfills /\ backfills' = backfills + 1
    /\ job' = [job EXCEPT ![j] = [phase |-> "run", mode |-> "backfill",
                                  last |-> from, now |-> clock]]
    /\ jumped' = jumped \cup {a \in ScoresSaved \ Scored(ledger) : a <= from}
    /\ UNCHANGED <<alert, entityRows, checkpoint, clock, late, stale>>

(* Mutant: the query has lost its order. *)
NextBatches_Unordered(j) ==
    LET found == {a \in ScoresSaved : a > job[j].last}
    IN  UNION {[1 .. n -> found] : n \in 1 .. BatchSize}

(* id > processed_last_id, by id, up to the batch size.                     *)
NextBatches(j) ==
    LET found == {a \in ScoresSaved : a > job[j].last}
    IN  {batch \in UNION {[1 .. n -> found] : n \in 1 .. BatchSize} :
            /\ \A i, k \in DOMAIN batch : i < k => batch[i] < batch[k]
            /\ \A a \in found \ Range(batch) : Len(batch) = BatchSize /\ a > Last(batch)}

ReadBatch(j) ==
    /\ job[j].phase = "run"
    /\ \E batch \in NextBatches(j) :
        job' = [job EXCEPT ![j] = [phase |-> "batch", mode |-> @.mode, now |-> @.now,
                                   batch |-> batch,
                                   read |-> [score |-> score, updated |-> updated,
                                             ledger |-> <<>>, news |-> {}]]]
    /\ UNCHANGED <<alert, entityRows, checkpoint, clock, backfills, late, jumped, stale>>

(* The transaction breaks a unique index: one alert scored twice, one       *)
(* entity inserted twice.                                                    *)
Clash(rows) ==
    \/ Scored(rows.ledger) \cap Scored(ledger) # {}
    \/ \E e \in rows.news : score[e] # Absent

Writes(rows) == rows.news \cup {rows.ledger[i][1] : i \in DOMAIN rows.ledger}

(* The batch and the checkpoint, in one transaction: values computed from   *)
(* what was read are written over what is there now.                         *)
CommitBatch(j) ==
    /\ job[j].phase = "batch"
    /\ LET rows == ScoreBatch(job[j].read, job[j].batch, job[j].now)
       IN  /\ ~Clash(rows)
           /\ score' = [e \in Entities |-> IF e \in Writes(rows) THEN rows.score[e] ELSE score[e]]
           /\ updated' = [e \in Entities |->
                            IF e \in Writes(rows) THEN rows.updated[e] ELSE updated[e]]
           /\ ledger' = ledger \o rows.ledger
           /\ stale' = stale \cup {e \in Writes(rows) : job[j].read.score[e] # score[e]}
    /\ checkpoint' = Last(job[j].batch)
    /\ job' = [job EXCEPT ![j] = [phase |-> "run", mode |-> @.mode, now |-> @.now,
                                  last |-> Last(@.batch)]]
    /\ UNCHANGED <<alert, clock, backfills, late, jumped>>

(* IntegrityError, or the process dies: the batch is rolled back, the run   *)
(* is over.                                                                  *)
AbortRun(j) ==
    /\ job[j].phase # "idle"
    /\ job' = [job EXCEPT ![j] = Idle]
    /\ UNCHANGED <<alert, entityRows, checkpoint, clock, backfills, late, jumped, stale>>

(* No alerts are left, or --max-batches is reached: a backfill writes the   *)
(* checkpoint once more.                                                     *)
EndRun(j) ==
    /\ job[j].phase = "run"
    /\ checkpoint' = IF job[j].mode = "backfill" THEN job[j].last ELSE checkpoint
    /\ job' = [job EXCEPT ![j] = Idle]
    /\ UNCHANGED <<alert, entityRows, clock, backfills, late, jumped, stale>>

EntityNext ==
    \/ \E a \in AlertIds : TakeAlertId(a) \/ CommitAlert(a) \/ RollbackAlert(a)
    \/ EntityTick
    \/ \E j \in Jobs : \/ StartRealtime(j)
                       \/ \E from \in 0 .. AlertCount : StartBackfill(j, from)
                       \/ ReadBatch(j) \/ CommitBatch(j) \/ AbortRun(j) \/ EndRun(j)

EntitySpec == EntityInit /\ [][EntityNext]_EntityVars

-------------------------------------------------------------------------------

EntityTypeOK ==
    /\ alert \in [AlertIds -> {"free", "open", "there", "gone"}]
    /\ score \in [Entities -> {Absent} \cup 0 .. MaxScore]
    /\ updated \in [Entities -> Nat]
    /\ \A i \in DOMAIN ledger : ledger[i] \in Entities \X Int \X (AlertIds \cup {0})
    /\ checkpoint \in 0 .. AlertCount
    /\ \A j \in Jobs : job[j].phase \in {"idle", "run", "batch"}
    /\ clock \in 0 .. MaxTime

(* The rows of an entity, added up in range from a score on.                *)
Total(e, from, rows) ==
    LET sum[i \in 0 .. Len(rows)] ==
          IF i = 0 THEN from
          ELSE IF rows[i][1] = e THEN Clamp(sum[i - 1] + rows[i][2]) ELSE sum[i - 1]
    IN  sum[Len(rows)]

(* What the score of an entity should be: its ledger.                       *)
LedgerScore(e) == Total(e, 0, ledger)

(* The alerts behind the checkpoint that have no ledger row are those whose *)
(* transaction committed after a run had passed their id, and those an      *)
(* operator told a backfill to leave out: no crash, abort or overlap of      *)
(* runs loses another.                                                       *)
OnlyLateAlertsAreSkipped ==
    \A a \in ScoresSaved \ Scored(ledger) :
        (a <= checkpoint /\ EntityOf[a] # NoEntity /\ Severity[a] # 0)
            => a \in late \cup jumped

(* The score of an entity is what its ledger adds up to, unless two         *)
(* overlapping runs wrote it.                                                *)
ScoreIsItsLedger ==
    \A e \in Entities \ stale : score[e] # Absent => score[e] = LedgerScore(e)
===============================================================================
