------------------------------ MODULE IncidentDesk ------------------------------
(***************************************************************************)
(* IncidentEngine.run (app/services/incident_engine.py) as the incident    *)
(* job runs it (app/services/incident_job.py), for one rule whose          *)
(* condition is "count >= N" and one group of alerts, together with the    *)
(* console that changes alerts (app/routers/alerts.py) and incidents       *)
(* (app/routers/incidents_v2.py).                                          *)
(*                                                                         *)
(* A run is one transaction with several statements: the alerts of the     *)
(* window, the state row of the group, the open incident of the entity,    *)
(* its links, and the commit.  Cron starts runs in realtime and operators  *)
(* start backfills over earlier times, whose slices are runs like any      *)
(* other; runs of several processes may overlap.                           *)
(***************************************************************************)
EXTENDS Integers, Sequences, FiniteSets

CONSTANTS
    Procs,       \* processes that run the job
    Alerts,      \* alerts of the group
    Incidents,   \* ids of incidents of the entity, numbered as they are opened
    Times,       \* timestamps
    Window,      \* window_seconds
    Cooldown,    \* cooldown_seconds
    Threshold,   \* N of the condition
    MaxRuns,     \* bound: runs of the job in a behaviour
    MaxUi        \* bound: operator actions in a behaviour

ASSUME IncidentAssumption ==
    /\ IsFiniteSet(Alerts)
    /\ Incidents \subseteq Nat \ {0}
    /\ Times \subseteq Nat
    /\ Window \in Nat /\ Cooldown \in Nat \ {0}
    /\ Threshold \in Nat \ {0}
    /\ MaxRuns \in Nat /\ MaxUi \in Nat

VARIABLES
    raised,      \* triggered_at of each alert, Never before the row exists
    closed,      \* alerts an operator closed
    row,         \* the state row: absent, there, or the process inserting it
    lastInc,     \* its last_incident_at
    open,        \* incidents in the table, all of status open
    evidence,    \* alert_ids in the evidence of each incident
    links,       \* the table incident_alerts
    told,        \* incidents the console said are closed
    pc,          \* where the run of each process stands
    now,         \* the time it runs for
    got,         \* alerts of its window
    target,      \* the open incident it found, 0 when none
    linked,      \* links it found to the incident
    runs, ui,    \* runs and operator actions so far
    opener,      \* ghost: the process that opened each incident
    touches,     \* ghost: [at, base] of each run that opened or updated one
    base         \* ghost: Len(touches) when the process read the state row

alertTab == <<raised, closed>>
incTab   == <<row, lastInc, open, evidence, links, opener, touches>>
run      == <<pc, now, got, target, linked, base>>
vars     == <<alertTab, incTab, told, run, runs, ui>>

Never == -1

Init ==
    /\ raised = [a \in Alerts |-> Never] /\ closed = {}
    /\ row = "absent" /\ lastInc = Never
    /\ open = {} /\ links = {} /\ told = {}
    /\ evidence = [i \in Incidents |-> {}]
    /\ pc = [p \in Procs |-> "idle"]
    /\ now = [p \in Procs |-> Never]
    /\ got = [p \in Procs |-> {}]
    /\ target = [p \in Procs |-> 0]
    /\ linked = [p \in Procs |-> {}]
    /\ runs = 0 /\ ui = 0
    /\ opener = [i \in Incidents |-> {}]
    /\ touches = <<>>
    /\ base = [p \in Procs |-> 0]

-------------------------------------------------------------------------------
(* The rules and the console *)

(* A rule alerts.  The timestamp is that of an event, which may be late. *)
Raise(a) ==
    /\ raised[a] = Never
    /\ \E t \in Times : raised' = [raised EXCEPT ![a] = t]
    /\ UNCHANGED <<closed, incTab, told, run, runs, ui>>

(* One alert or a selection of them is closed or opened again. *)
BulkUpdate(some) ==
    /\ ui < MaxUi /\ some # {}
    /\ \A a \in some : raised[a] # Never
    /\ ui' = ui + 1
    /\ closed' \in {closed \cup some, closed \ some}
    /\ UNCHANGED <<raised, incTab, told, run, runs>>

(* Alerts of the incident that count as open. *)
OpenAlerts(i) == {a \in Alerts : <<i, a>> \in links} \ closed

(* patch_incident_status to closed.  With open alerts and no cascade the    *)
(* row is written back as open; otherwise the incident and, in cascade, its  *)
(* alerts are changed in a session that is closed without a commit.          *)
PatchStatus(i, cascade) ==
    /\ ui < MaxUi /\ i \in open
    /\ ui' = ui + 1
    /\ told' = IF OpenAlerts(i) # {} /\ ~cascade THEN told ELSE told \cup {i}
    /\ UNCHANGED <<alertTab, incTab, run, runs>>

-------------------------------------------------------------------------------
(* A run of the job *)

(* Mutant: the window has no younger end. *)
InWindow_Ahead(t, n) == n - Window <= t

InWindow(t, n) == n - Window <= t /\ t <= n

(* The alerts of the window.  Without any the group does not come up.       *)
Scan(p, n) ==
    /\ pc[p] = "idle" /\ runs < MaxRuns
    /\ runs' = runs + 1
    /\ now' = [now EXCEPT ![p] = n]
    /\ got' = [got EXCEPT ![p] =
                {a \in Alerts : raised[a] # Never /\ InWindow(raised[a], n)}]
    /\ got'[p] # {}
    /\ pc' = [pc EXCEPT ![p] = "judge"]
    /\ UNCHANGED <<alertTab, incTab, told, target, linked, base, ui>>

(* Mutant: the cooldown ends one unit early. *)
Cooling_OffByOne(n) == lastInc # Never /\ n < lastInc + Cooldown - 1

Cooling(n) == lastInc # Never /\ n < lastInc + Cooldown

Met(some) == Cardinality(some) >= Threshold

(* The state row is read, or inserted if it is absent; the insert of        *)
(* another process that has not committed blocks this one.                   *)
Judge(p) ==
    /\ pc[p] = "judge"
    /\ row \in {"absent", "there"}
    /\ row' = IF row = "absent" THEN p ELSE row
    /\ base' = [base EXCEPT ![p] = Len(touches)]
    /\ pc' = [pc EXCEPT ![p] =
                IF ~Cooling(now[p]) /\ Met(got[p]) THEN "lookup" ELSE "quiet"]
    /\ UNCHANGED <<alertTab, lastInc, open, evidence, links, opener, touches,
                   told, now, got, target, linked, runs, ui>>

(* opened_at of an incident: the oldest alert it was opened with. *)
OpenedBefore(i, k) ==
    \E a \in evidence[i] : \A b \in evidence[k] : raised[a] <= raised[b]

(* Mutant: the open incident of the entity is not looked for. *)
Known_None(p) == {}

Known(p) == open

(* The open incident of the entity, the one opened last. *)
Lookup(p) ==
    /\ pc[p] = "lookup"
    /\ \E i \in Known(p) \cup {0} :
        /\ i = 0 => Known(p) = {}
        /\ i # 0 => \A k \in Known(p) : OpenedBefore(k, i)
        /\ target' = [target EXCEPT ![p] = i]
        /\ linked' = [linked EXCEPT ![p] = {}]
        /\ pc' = [pc EXCEPT ![p] = IF i = 0 THEN "save" ELSE "link"]
    /\ UNCHANGED <<alertTab, incTab, told, now, got, base, runs, ui>>

(* The links the incident has already. *)
Link(p) ==
    /\ pc[p] = "link"
    /\ linked' = [linked EXCEPT ![p] = {a \in got[p] : <<target[p], a>> \in links}]
    /\ pc' = [pc EXCEPT ![p] = "save"]
    /\ UNCHANGED <<alertTab, incTab, told, now, got, target, base, runs, ui>>

Ended(p) ==
    /\ pc' = [pc EXCEPT ![p] = "idle"]
    /\ now' = [now EXCEPT ![p] = Never]
    /\ got' = [got EXCEPT ![p] = {}]
    /\ target' = [target EXCEPT ![p] = 0]
    /\ linked' = [linked EXCEPT ![p] = {}]
    /\ base' = [base EXCEPT ![p] = 0]
    /\ UNCHANGED <<alertTab, told, runs, ui>>

Fresh(i) == i \in Incidents \ open /\ \A k \in Incidents \ open : i <= k

FirstLinks(i, p) == {i} \X got[p]

(* The commit of a run that found no incident. *)
Open(p) ==
    /\ pc[p] = "save" /\ target[p] = 0
    /\ \E i \in Incidents :
        /\ Fresh(i)
        /\ open' = open \cup {i}
        /\ evidence' = [evidence EXCEPT ![i] = got[p]]
        /\ links' = links \cup FirstLinks(i, p)
        /\ opener' = [opener EXCEPT ![i] = {p}]
    /\ row' = "there" /\ lastInc' = now[p]
    /\ touches' = Append(touches, [at |-> now[p], base |-> base[p]])
    /\ Ended(p)

(* The commit of a run that found one.  Its evidence is changed in place,   *)
(* which the ORM does not write.  A link that another run committed since   *)
(* violates the unique constraint, and the run is rolled back.               *)
Update(p) ==
    /\ pc[p] = "save" /\ target[p] # 0
    /\ \A a \in got[p] \ linked[p] : <<target[p], a>> \notin links
    /\ links' = links \cup ({target[p]} \X (got[p] \ linked[p]))
    /\ row' = "there" /\ lastInc' = now[p]
    /\ touches' = Append(touches, [at |-> now[p], base |-> base[p]])
    /\ UNCHANGED <<open, evidence, opener>>
    /\ Ended(p)

(* The commit of a run in the cooldown or below the threshold. *)
Quiet(p) ==
    /\ pc[p] = "quiet"
    /\ row' = "there"
    /\ UNCHANGED <<lastInc, open, evidence, links, opener, touches>>
    /\ Ended(p)

(* The run is rolled back: a constraint, a fault, a death or --dry-run. *)
Abort(p) ==
    /\ pc[p] # "idle"
    /\ row' = IF row = p THEN "absent" ELSE row
    /\ UNCHANGED <<lastInc, open, evidence, links, opener, touches>>
    /\ Ended(p)

-------------------------------------------------------------------------------

Step(p) ==
    \/ (\E n \in Times : Scan(p, n))
    \/ Judge(p) \/ Lookup(p) \/ Link(p) \/ Open(p) \/ Update(p) \/ Quiet(p) \/ Abort(p)

Next ==
    \/ \E a \in Alerts : Raise(a)
    \/ \E some \in SUBSET Alerts : BulkUpdate(some)
    \/ \E i \in Incidents, cascade \in BOOLEAN : PatchStatus(i, cascade)
    \/ \E p \in Procs : Step(p)

Spec == Init /\ [][Next]_vars

-------------------------------------------------------------------------------

TypeOK ==
    /\ raised \in [Alerts -> Times \cup {Never}]
    /\ closed \subseteq Alerts
    /\ row \in {"absent", "there"} \cup Procs
    /\ lastInc \in Times \cup {Never}
    /\ open \subseteq Incidents /\ told \subseteq open
    /\ evidence \in [Incidents -> SUBSET Alerts]
    /\ links \subseteq Incidents \X Alerts
    /\ pc \in [Procs -> {"idle", "judge", "quiet", "lookup", "link", "save"}]
    /\ now \in [Procs -> Times \cup {Never}]
    /\ got \in [Procs -> SUBSET Alerts]
    /\ target \in [Procs -> Incidents \cup {0}]
    /\ linked \in [Procs -> SUBSET Alerts]
    /\ runs \in Nat /\ ui \in Nat
    /\ opener \in [Incidents -> SUBSET Procs]
    /\ touches \in Seq([at : Times, base : Nat])
    /\ base \in [Procs -> Nat]

(* However runs, backfills and rollbacks overlap, no process opens a second *)
(* incident for an entity: there are never more of them than processes, and *)
(* with runs that do not overlap there is one.                               *)
NoProcessOpensTwo ==
    \A i, k \in open : i # k => opener[i] \cap opener[k] = {}

(* An incident is opened for a burst: enough alerts, all of one window.     *)
IncidentsHaveBursts ==
    \A i \in open :
        /\ Cardinality(evidence[i]) >= Threshold
        /\ \A a, b \in evidence[i] : raised[a] <= raised[b] + Window

(* What the evidence of an incident names is linked to it. *)
EvidenceIsLinked == \A i \in open : {i} \X evidence[i] \subseteq links

(* A run that read the state row after the last touch of an incident was    *)
(* committed is a cooldown away from it: closer touches need an overlap.    *)
SerialRunsAreSpaced ==
    \A k \in DOMAIN touches :
        (k > 1 /\ touches[k].base = k - 1) =>
            touches[k].at >= touches[k - 1].at + Cooldown

(* docs/DATA_CONSISTENCY_REPORT.md: when an incident is resolved its linked *)
(* alerts become closed_by_incident.                                         *)
ResolvedIncidentsCloseAlerts ==
    [][\A i \in told' \ told : \A a \in Alerts : <<i, a>> \in links => a \in closed']_vars
===============================================================================
