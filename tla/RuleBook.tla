------------------------------- MODULE RuleBook -------------------------------
(***************************************************************************)
(* The rules of rules_v2 between the console that edits them               *)
(* (app/routers/rules_v2.py), the engines that evaluate events with a copy *)
(* of them (RuleEngineV2 of app/services/rule_engine_v2.py, in a           *)
(* transaction of CorrelationEngine) and the reprocessing an administrator *)
(* orders (app/services/rule_reprocess.py).                                *)
(*                                                                         *)
(* Every engine reloads its copy when it is empty or old.  The console     *)
(* invalidates the engine of its own process only, which evaluates         *)
(* nothing.  One group per rule: its row in rule_states_v2 is inserted by  *)
(* the first event that matches, and whoever loses the race to insert it   *)
(* rolls back what its event has done so far.                              *)
(* What the window of a rule says of an event is left open; RuleWindow     *)
(* models it.                                                              *)
(***************************************************************************)
EXTENDS Integers, FiniteSets

CONSTANTS
    RuleIds,      \* 1 .. n, in the order of their creation
    RuleForms,    \* what a rule may say, see Shape
    Installed,    \* rules that were installed at the first start
    InstalledForm,
    Lists,        \* security lists
    BookEvents,   \* what an event may be: [key, lists, trusted]
    Engines,      \* processes that evaluate events as they come
    Reprocessor,  \* the console's request that evaluates them again
    Ttl,          \* RULE_ENGINE_RELOAD_TTL_SECONDS
    MaxBookTime, MaxEdits, MaxEvaluations, MaxRefusals   \* bounds

Shape(keys) ==
    [key: keys, exclusions: SUBSET Lists, detections: SUBSET Lists,
     operator: {"AND", "OR"}, legacy: BOOLEAN, ignoreTrust: BOOLEAN]

ASSUME BookAssumption ==
    /\ RuleIds \subseteq Nat \ {0}
    /\ RuleForms \subseteq Shape({f.key : f \in RuleForms})
    /\ Installed \subseteq RuleIds /\ InstalledForm \in RuleForms
    /\ \A e \in BookEvents : e.key # "none"
    /\ Reprocessor \notin Engines
    /\ {"absent", "there"} \cap (Engines \cup {Reprocessor}) = {}
    /\ Ttl \in Nat \ {0}
    /\ MaxBookTime \in Nat /\ MaxEdits \in Nat /\ MaxEvaluations \in Nat /\ MaxRefusals \in Nat

VARIABLES
    bookTime,
    status,       \* of each rule: free (no row yet), on, off, gone
    form,         \* what its row and its bindings say
    lastSaid,     \* ghost: when a rule last said something it says no more
    index,        \* _index: rules and forms as loaded
    loadedAt,     \* _last_reload_at
    work,         \* of each process: its event and its transaction
    rowOf,        \* row of rule_states_v2: absent, there, or who is inserting it
    marked,       \* its last_alert_at is set
    stored,       \* rows of alerts
    bookUses      \* bounds used up: edits, evaluations, refusals

book == <<status, form, lastSaid>>
rowVars == <<rowOf, marked, stored>>
BookVars == <<bookTime, book, index, loadedAt, work, rowVars, bookUses>>

Unread == -1
NoRule == 0
Bookers == Engines \cup {Reprocessor}
NoEvent == [key |-> "none", lists |-> {}, trusted |-> FALSE]

(* An engine's transaction: drafts are the Alert objects added, touched the *)
(* rules whose state row it has in hand, sent those whose changes it has    *)
(* flushed, fresh those whose row it inserts, purged those whose rows and   *)
(* removed the alerts it deletes; it is stale if a row it has in hand was    *)
(* deleted, and dead once a failed flush was not rolled back.                 *)
Empty == [drafts |-> {}, touched |-> {}, sent |-> {}, fresh |-> {}, purged |-> {},
          removed |-> {}, stale |-> FALSE, dead |-> FALSE]
AtRest == [open |-> FALSE, event |-> NoEvent, at |-> 0, n |-> 0, todo |-> {}, missed |-> FALSE, tx |-> Empty]

BookInit ==
    /\ bookTime = 0
    /\ status = [r \in RuleIds |-> IF r \in Installed THEN "on" ELSE "free"]
    /\ form = [r \in RuleIds |-> InstalledForm]
    /\ lastSaid = [r \in RuleIds |-> [f \in RuleForms |-> Unread]]
    /\ index = [p \in Bookers |-> {}]
    /\ loadedAt = [p \in Bookers |-> Unread]
    /\ work = [p \in Bookers |-> AtRest]
    /\ rowOf = [r \in RuleIds |-> "absent"]
    /\ marked = [r \in RuleIds |-> FALSE]
    /\ stored = {}
    /\ bookUses = [edits |-> 0, evaluations |-> 0, refusals |-> 0]

Use(what, bound) == bookUses[what] < bound /\ bookUses' = [bookUses EXCEPT ![what] = @ + 1]

BookTick ==
    /\ bookTime < MaxBookTime /\ bookTime' = bookTime + 1
    /\ UNCHANGED <<book, index, loadedAt, work, rowVars, bookUses>>

-------------------------------------------------------------------------------
(* The console *)

(* The rule stops saying what it said. *)
Unsaid(r) ==
    IF status[r] = "on" THEN [lastSaid EXCEPT ![r][form[r]] = bookTime] ELSE lastSaid

CreateRule(r) ==
    /\ status[r] = "free" /\ \A q \in RuleIds : q < r => status[q] # "free"
    /\ Use("edits", MaxEdits)
    /\ \E s \in {"on", "off"}, f \in RuleForms :
         /\ status' = [status EXCEPT ![r] = s]
         /\ form' = [form EXCEPT ![r] = f]
    /\ UNCHANGED <<bookTime, lastSaid, index, loadedAt, work, rowVars>>

(* update_rule, and the routes that add, change and remove a binding. *)
UpdateRule(r) ==
    /\ status[r] \in {"on", "off"} /\ Use("edits", MaxEdits)
    /\ \E f \in RuleForms \ {form[r]} : form' = [form EXCEPT ![r] = f]
    /\ lastSaid' = Unsaid(r)
    /\ UNCHANGED <<bookTime, status, index, loadedAt, work, rowVars>>

(* enable_rule, disable_rule. *)
SwitchRule(r) ==
    /\ status[r] \in {"on", "off"} /\ Use("edits", MaxEdits)
    /\ status' = [status EXCEPT ![r] = IF @ = "on" THEN "off" ELSE "on"]
    /\ lastSaid' = Unsaid(r)
    /\ UNCHANGED <<bookTime, form, index, loadedAt, work, rowVars>>

(* Rows that refer to the rule and are not committed make the delete wait;  *)
(* committed state rows go with it, and alerts lose their rule.              *)
DeleteRule(r) ==
    /\ status[r] \in {"on", "off"} /\ Use("edits", MaxEdits)
    /\ \A p \in Bookers : r \notin work[p].tx.sent \cup work[p].tx.purged
    /\ status' = [status EXCEPT ![r] = "gone"]
    /\ lastSaid' = Unsaid(r)
    /\ rowOf' = [rowOf EXCEPT ![r] = "absent"]
    /\ marked' = [marked EXCEPT ![r] = FALSE]
    /\ stored' = {IF a.rule = r THEN [a EXCEPT !.rule = NoRule] ELSE a : a \in stored}
    /\ UNCHANGED <<bookTime, form, index, loadedAt, work>>

-------------------------------------------------------------------------------
(* An event is evaluated: on_event *)

Enabled == {<<r, form[r]>> : r \in {q \in RuleIds : status[q] = "on"}}

(* Mutant: only an empty copy is reloaded. *)
Reloads_Never(p) == index[p] = {} \/ loadedAt[p] = Unread

(* _maybe_reload *)
Reloads(p) ==
    index[p] = {} \/ loadedAt[p] = Unread \/ bookTime - loadedAt[p] >= Ttl

(* One copy of each rule, those of the event's source and type. *)
Candidates(idx, e) == {entry \in idx : entry[2].key = e.key}

FormOf(idx, r) == (CHOOSE entry \in idx : entry[1] = r)[2]

BeginEvent(p) ==
    LET copy == IF Reloads(p) THEN Enabled ELSE index[p]
    IN  /\ work[p].event = NoEvent
        /\ p = Reprocessor <=> work[p].open
        /\ Use("evaluations", MaxEvaluations)
        /\ \E e \in BookEvents :
             work' = [work EXCEPT ![p].event = e, ![p].open = TRUE, ![p].at = bookTime,
                                  ![p].n = bookUses.evaluations,
                                  ![p].todo = {entry[1] : entry \in Candidates(copy, e)}]
        /\ index' = [index EXCEPT ![p] = copy]
        /\ loadedAt' = IF Reloads(p) THEN [loadedAt EXCEPT ![p] = bookTime] ELSE loadedAt
        /\ UNCHANGED <<bookTime, book, rowVars>>

(* Parts A, B and D of the evaluation: exclusions, trust, detections. *)
Excluded(f, e) == f.exclusions \cap e.lists # {}
Trusting(f, e) == f.legacy /\ e.trusted
Detects(f, e) ==
    \/ f.detections = {}
    \/ IF f.operator = "AND" THEN f.detections \subseteq e.lists
                             ELSE f.detections \cap e.lists # {}

Concerns(f, e) ==
    /\ f.ignoreTrust \/ ~(Excluded(f, e) \/ Trusting(f, e))
    /\ Detects(f, e)

Now1(p) == CHOOSE r \in work[p].todo : \A q \in work[p].todo : r <= q

Busy(p) == work[p].todo # {}

(* How long before the event was begun the rule last said what the copy says. *)
Age(p, r) ==
    LET f == FormOf(index[p], r)
    IN  IF status[r] = "on" /\ form[r] = f THEN 0 ELSE work[p].at - lastSaid[r][f]

(* The rule does not concern the event, its match fails, or the transaction *)
(* is dead and every query raises.                                           *)
PassRule(p) ==
    /\ Busy(p) /\ ~work[p].missed
    /\ work' = [work EXCEPT ![p].todo = @ \ {Now1(p)}]
    /\ UNCHANGED <<bookTime, book, index, loadedAt, rowVars, bookUses>>

(* A row the process sees: committed and not deleted by itself, or its own. *)
Visible(p, r) ==
    r \in work[p].tx.fresh \/ (rowOf[r] = "there" /\ r \notin work[p].tx.purged)

(* The event matches and the state row is in hand; the cooldown and the     *)
(* condition say whether an alert is added.                                   *)
MatchRule(p) ==
    LET r == Now1(p)
    IN  /\ Busy(p) /\ ~work[p].missed /\ ~work[p].tx.dead
        /\ Concerns(FormOf(index[p], r), work[p].event)
        /\ Visible(p, r)
        /\ \E alert \in {{}, {[rule |-> r, age |-> Age(p, r), n |-> work[p].n]}} :
             work' = [work EXCEPT ![p].todo = @ \ {r}, ![p].tx.touched = @ \cup {r},
                                  ![p].tx.drafts = @ \cup alert]
        /\ UNCHANGED <<bookTime, book, index, loadedAt, rowVars, bookUses>>

(* The query for the state row finds none. *)
MissRow(p) ==
    LET r == Now1(p)
    IN  /\ Busy(p) /\ ~work[p].missed /\ ~work[p].tx.dead
        /\ Concerns(FormOf(index[p], r), work[p].event)
        /\ ~Visible(p, r)
        /\ work' = [work EXCEPT ![p].missed = TRUE]
        /\ UNCHANGED <<bookTime, book, index, loadedAt, rowVars, bookUses>>

Unsent(p) == work[p].tx.touched \ work[p].tx.sent

(* A flush waits for whoever deletes a row it updates, and fails if a rule  *)
(* or a state row it refers to is gone.                                       *)
FlushWaits(p) == \E q \in Bookers \ {p} : work[q].tx.purged \cap Unsent(p) # {}
FlushFails(p) == work[p].tx.stale \/ \E r \in Unsent(p) : status[r] = "gone"

(* Everything in the session is flushed with the new row. *)
InsertRow(p) ==
    LET r == Now1(p)
    IN  /\ work[p].missed /\ ~FlushWaits(p) /\ ~FlushFails(p)
        /\ status[r] # "gone"
        /\ rowOf[r] = "absent" \/ r \in work[p].tx.purged
        /\ rowOf' = IF rowOf[r] = "absent" THEN [rowOf EXCEPT ![r] = p] ELSE rowOf
        /\ work' = [work EXCEPT ![p].missed = FALSE, ![p].tx.fresh = @ \cup {r},
                                ![p].tx.sent = @ \cup {r} \cup work[p].tx.touched]
        /\ UNCHANGED <<bookTime, book, index, loadedAt, marked, stored, bookUses>>

RowsAfterRollback(p) == [r \in RuleIds |-> IF rowOf[r] = p THEN "absent" ELSE rowOf[r]]

(* The insert fails: another process has committed the row, or the flush    *)
(* found something gone.  The transaction is rolled back, the rule tried     *)
(* again; if it is gone itself the second insert fails as well.               *)
LoseRow(p) ==
    LET r == Now1(p)
        lost == status[r] = "gone"
    IN  /\ work[p].missed /\ ~FlushWaits(p)
        /\ \/ FlushFails(p) \/ lost
           \/ rowOf[r] = "there" /\ r \notin work[p].tx.purged
        /\ rowOf' = RowsAfterRollback(p)
        /\ work' = [work EXCEPT ![p].missed = FALSE, ![p].tx = [Empty EXCEPT !.dead = lost],
                                ![p].todo = IF lost THEN @ \ {r} ELSE @]
        /\ UNCHANGED <<bookTime, book, index, loadedAt, marked, stored, bookUses>>

-------------------------------------------------------------------------------
(* A transaction ends *)

(* Mutant: last_alert_at is set wherever the state row is. *)
Marks_All(tx) == tx.touched

(* Rules whose last_alert_at the transaction sets. *)
Marks(tx) == {d.rule : d \in tx.drafts}

(* Who has in hand a row that the transaction of p deletes. *)
Outdated(p, q) == q # p /\ work[p].tx.purged \cap work[q].tx.touched # {}

Committed(p) ==
    LET tx == work[p].tx
    IN  /\ stored' = (stored \ tx.removed) \cup tx.drafts
        /\ rowOf' = [r \in RuleIds |->
                       IF r \in tx.fresh THEN "there"
                       ELSE IF r \in tx.purged THEN "absent" ELSE rowOf[r]]
        /\ marked' = [r \in RuleIds |->
                       r \in Marks(tx) \/ (marked[r] /\ r \notin tx.purged)]
        /\ work' = [q \in Bookers |->
                       IF q = p THEN AtRest
                       ELSE IF Outdated(p, q) THEN [work[q] EXCEPT !.tx.stale = TRUE]
                       ELSE work[q]]

RolledBack(p) ==
    /\ rowOf' = RowsAfterRollback(p)
    /\ work' = [work EXCEPT ![p] = AtRest]
    /\ UNCHANGED <<marked, stored>>

Evaluated(p) == work[p].open /\ ~Busy(p) /\ (p = Reprocessor <=> work[p].event = NoEvent)

(* CorrelationEngine commits after every event, reprocess_events at the end.*)
Finish(p) ==
    /\ Evaluated(p) /\ ~FlushWaits(p)
    /\ IF work[p].tx.dead \/ FlushFails(p) THEN RolledBack(p) ELSE Committed(p)
    /\ UNCHANGED <<bookTime, book, index, loadedAt, bookUses>>

(* The commit is refused, the process dies, a deadlock is broken. *)
Abandon(p) ==
    /\ work[p].open /\ Use("refusals", MaxRefusals)
    /\ RolledBack(p)
    /\ UNCHANGED <<bookTime, book, index, loadedAt>>

-------------------------------------------------------------------------------
(* reprocess_events *)

(* One rule or all: the alerts of the time range are deleted, the state     *)
(* rows are, and the copy starts with these rules, to be reloaded at once.   *)
BeginReprocess ==
    LET on == {r \in RuleIds : status[r] = "on"}
    IN  /\ work[Reprocessor] = AtRest
        /\ \E chosen \in ({{r} : r \in on} \cup {on}) \ {{}} :
           \E removed \in SUBSET {a \in stored : a.rule \in chosen} :
             LET rows == {r \in chosen : rowOf[r] = "there"}
             IN  /\ \A q \in Engines : work[q].tx.sent \cap rows = {}
                 /\ work' = [work EXCEPT ![Reprocessor].open = TRUE,
                                ![Reprocessor].tx.purged = rows,
                                ![Reprocessor].tx.removed = removed]
                 /\ index' = [index EXCEPT ![Reprocessor] = {<<r, form[r]>> : r \in chosen}]
        /\ loadedAt' = [loadedAt EXCEPT ![Reprocessor] = Unread]
        /\ UNCHANGED <<bookTime, book, rowVars, bookUses>>

(* The next event is taken from the scan. *)
NextEvent ==
    /\ work[Reprocessor].event # NoEvent /\ ~Busy(Reprocessor)
    /\ work' = [work EXCEPT ![Reprocessor].event = NoEvent]
    /\ UNCHANGED <<bookTime, book, index, loadedAt, rowVars, bookUses>>

-------------------------------------------------------------------------------

Evaluate1(p) == BeginEvent(p) \/ PassRule(p) \/ MatchRule(p) \/ MissRow(p) \/ InsertRow(p) \/ LoseRow(p)

BookNext ==
    \/ BookTick \/ BeginReprocess \/ NextEvent
    \/ \E r \in RuleIds : CreateRule(r) \/ UpdateRule(r) \/ SwitchRule(r) \/ DeleteRule(r)
    \/ \E p \in Bookers : Evaluate1(p) \/ Finish(p) \/ Abandon(p)

BookSpec == BookInit /\ [][BookNext]_BookVars

-------------------------------------------------------------------------------

Drafts == [rule: RuleIds \cup {NoRule}, age: Int, n: Nat]

BookTypeOK ==
    /\ bookTime \in Nat
    /\ status \in [RuleIds -> {"free", "on", "off", "gone"}]
    /\ form \in [RuleIds -> RuleForms]
    /\ \A p \in Bookers : /\ index[p] \subseteq RuleIds \X RuleForms
                          /\ work[p].todo \subseteq RuleIds
                          /\ work[p].tx.drafts \subseteq Drafts
                          /\ work[p].tx.sent \subseteq RuleIds
    /\ rowOf \in [RuleIds -> {"absent", "there"} \cup Bookers]
    /\ marked \in [RuleIds -> BOOLEAN]
    /\ stored \subseteq Drafts

(* An edit reaches every engine: no alert rests on what its rule had not    *)
(* said for RULE_ENGINE_RELOAD_TTL_SECONDS or more when its event was begun, *)
(* although no invalidation reaches the engines.                              *)
AlertsUseRecentRules == \A a \in stored : a.age < Ttl

(* A cooldown is never started by an alert that does not exist: what a lost *)
(* race, a deleted rule, a refused commit or a reprocessing takes back, it    *)
(* takes back with the mark in the state row.                                 *)
CooldownsHaveAlerts ==
    \A r \in RuleIds : marked[r] => \E a \in stored : a.rule = r

===============================================================================
