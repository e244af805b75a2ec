------------------------------- MODULE Retention ------------------------------
(***************************************************************************)
(* The purge by age (app/services/retention_service.py), started by        *)
(* administrators (app/routers/settings.py), and the clean-ups of          *)
(* app/routers/admin_maintenance.py, next to the incident job that opens   *)
(* incidents and links alerts and entities to them.                        *)
(*                                                                         *)
(* A purge is one transaction of several statements, each of which sees    *)
(* what was committed when it started.  Deleting an alert or an entity     *)
(* deletes its links with it.  A link whose alert another transaction has  *)
(* deleted waits for that transaction.  Files are removed for good, before *)
(* the commit.                                                             *)
(*                                                                         *)
(* The console's change of an incident's status is never committed and the *)
(* job only opens incidents, so none is ever closed and the statements     *)
(* that delete closed incidents find nothing.                              *)
(***************************************************************************)
EXTENDS FiniteSets

CONSTANTS
    Purgers,     \* requests that may purge at the same time
    OldAlerts,   \* alerts whose triggered_at is before the cutoff
    NewAlerts,   \* alerts within the retention
    Cases,       \* incidents
    OldEntities, \* entities not updated since the cutoff
    OldFiles,    \* uploaded files from before the cutoff
    NewFiles     \* younger uploaded files

VARIABLES
    rows,       \* rows of alerts
    opened,     \* incidents, all open
    caseLinks,  \* incident_alerts
    kept,       \* rows of entities
    tied,       \* incident_entities
    files,      \* uploaded files
    step,       \* where a purge stands
    protect,    \* its protect_open_incidents
    known,      \* open incidents it read
    safe,       \* alerts it protects
    doomed,     \* alerts it deletes
    late        \* ghost: links made since it started

tables    == <<rows, opened, caseLinks, kept, tied, files>>
purge     == <<step, protect, known, safe, doomed>>
purgeVars == <<tables, purge, late>>

RetentionInit ==
    /\ rows = {} /\ opened = {} /\ caseLinks = {} /\ tied = {}
    /\ kept = OldEntities /\ files = OldFiles \cup NewFiles
    /\ step = [p \in Purgers |-> "none"]
    /\ protect = [p \in Purgers |-> TRUE]
    /\ known = [p \in Purgers |-> {}]
    /\ safe = [p \in Purgers |-> {}]
    /\ doomed = [p \in Purgers |-> {}]
    /\ late = [p \in Purgers |-> {}]

-------------------------------------------------------------------------------
(* Rules and the incident job *)

(* Alerts of old events are as old as the events. *)
StoreAlert(a) ==
    /\ a \notin rows
    /\ rows' = rows \cup {a}
    /\ UNCHANGED <<opened, caseLinks, kept, tied, files, purge, late>>

Deleting(p) == step[p] \in {"deleted", "swept"}

(* Rows deleted by transactions that are not over. *)
Locked == UNION {doomed[p] : p \in {q \in Purgers : Deleting(q)}}

Noted(c, some) == late' = [p \in Purgers |-> late[p] \cup ({c} \X some)]

(* A run of the job commits: a new incident, or more links of one. *)
SaveIncident(c, some, entities) ==
    /\ some # {} /\ some \subseteq rows \ Locked
    /\ ({c} \X some) \cap caseLinks = {}
    /\ entities \subseteq kept
    /\ \A p \in Purgers : Deleting(p) => entities = {}
    /\ opened' = opened \cup {c}
    /\ caseLinks' = caseLinks \cup ({c} \X some)
    /\ tied' = tied \cup ({c} \X entities)
    /\ Noted(c, some)
    /\ UNCHANGED <<rows, kept, files, purge>>

-------------------------------------------------------------------------------
(* execute_retention_purge *)

To(p, to) == step[p] # to /\ step' = [step EXCEPT ![p] = to]

(* The incidents that are open. *)
BeginPurge(p, guarded) ==
    /\ step[p] = "none"
    /\ To(p, IF guarded THEN "incidents" ELSE "links")
    /\ protect' = [protect EXCEPT ![p] = guarded]
    /\ known' = [known EXCEPT ![p] = IF guarded THEN opened ELSE {}]
    /\ late' = [late EXCEPT ![p] = {}]
    /\ UNCHANGED <<tables, safe, doomed>>

(* Mutant: one incident's alerts are protected. *)
Protected_One(p) ==
    IF known[p] = {} THEN {}
    ELSE LET c == CHOOSE c \in known[p] : TRUE IN {a \in rows : <<c, a>> \in caseLinks}

Protected(p) == {a \in rows : \E c \in known[p] : <<c, a>> \in caseLinks}

(* Their alerts. *)
ReadLinks(p) ==
    /\ step[p] = "incidents"
    /\ To(p, "links")
    /\ safe' = [safe EXCEPT ![p] = Protected(p)]
    /\ UNCHANGED <<tables, protect, known, doomed, late>>

(* The old alerts among the others. *)
ReadOld(p) ==
    /\ step[p] = "links"
    /\ To(p, "old")
    /\ doomed' = [doomed EXCEPT ![p] = (OldAlerts \cap rows) \ safe[p]]
    /\ UNCHANGED <<tables, protect, known, safe, late>>

DeleteOld(p) ==
    /\ step[p] = "old"
    /\ \A q \in Purgers \ {p} : ~Deleting(q)
    /\ To(p, "deleted")
    /\ UNCHANGED <<tables, protect, known, safe, doomed, late>>

(* Files go by their age, whatever became of their upload. *)
SweepFiles(p) ==
    /\ step[p] = "deleted"
    /\ To(p, "swept")
    /\ files' = files \ OldFiles
    /\ UNCHANGED <<rows, opened, caseLinks, kept, tied, protect, known, safe, doomed, late>>

Cleared(p) ==
    /\ To(p, "none")
    /\ protect' = [protect EXCEPT ![p] = TRUE]
    /\ known' = [known EXCEPT ![p] = {}]
    /\ safe' = [safe EXCEPT ![p] = {}]
    /\ doomed' = [doomed EXCEPT ![p] = {}]
    /\ late' = [late EXCEPT ![p] = {}]

(* The links of what was deleted go with it; entities go by their age,      *)
(* whatever they are linked to.                                                 *)
CommitPurge(p) ==
    /\ step[p] = "swept"
    /\ rows' = rows \ doomed[p]
    /\ caseLinks' = {l \in caseLinks : l[2] \notin doomed[p]}
    /\ kept' = kept \ OldEntities
    /\ tied' = {t \in tied : t[2] \notin OldEntities}
    /\ Cleared(p)
    /\ UNCHANGED <<opened, files>>

(* A statement fails or the process dies: the rows are back, not the files. *)
AbortPurge(p) == step[p] # "none" /\ Cleared(p) /\ UNCHANGED tables

-------------------------------------------------------------------------------
(* Clean-ups *)

(* clean_uploaded_logs; and the forced purge, which deletes the rows,       *)
(* removes the files, fails at the audit entry (a User has no username) and *)
(* rolls back.                                                               *)
CleanFiles ==
    /\ files # {}
    /\ files' = {}
    /\ UNCHANGED <<rows, opened, caseLinks, kept, tied, purge, late>>

PurgeStep(p) ==
    \/ \E guarded \in BOOLEAN : BeginPurge(p, guarded)
    \/ ReadLinks(p) \/ ReadOld(p) \/ DeleteOld(p)
    \/ SweepFiles(p) \/ CommitPurge(p) \/ AbortPurge(p)

RetentionNext ==
    \/ \E a \in OldAlerts \cup NewAlerts : StoreAlert(a)
    \/ \E c \in Cases, some \in SUBSET rows, entities \in SUBSET kept :
        SaveIncident(c, some, entities)
    \/ \E p \in Purgers : PurgeStep(p)
    \/ CleanFiles

RetentionSpec == RetentionInit /\ [][RetentionNext]_purgeVars

-------------------------------------------------------------------------------

(* A purge that protects open incidents takes an alert from one only if the *)
(* alert was linked after the purge had started, between its statements.       *)
OnlyLateLinksAreCut ==
    [][\A p \in Purgers :
        (protect[p] /\ step[p] = "swept" /\ step'[p] = "none")
            => caseLinks \ caseLinks' \subseteq late[p]]_purgeVars
===============================================================================
