------------------------------ MODULE RuleWindow ------------------------------
(***************************************************************************)
(* RuleEngineV2.on_event (app/services/rule_engine_v2.py) for one rule     *)
(* whose condition is "count >= N" and one group key, in the processes     *)
(* that run it (correlation workers, each for the events it fetched).      *)
(*                                                                         *)
(* Each process keeps the window in memory: a deque to which a matching    *)
(* event is appended and from whose left end expired events are removed.   *)
(* So the deque is always a suffix of the events the process was given,    *)
(* and the model keeps where it starts.  The time of the last alert is in  *)
(* the table rule_states_v2, which the processes share; it is read while   *)
(* the event is evaluated and written when the transaction commits.        *)
(***************************************************************************)
EXTENDS Integers, Sequences, FiniteSets

CONSTANTS
    Procs,
    Times,       \* timestamps of events
    Window,      \* window_seconds
    Cooldown,    \* cooldown_seconds
    Threshold,   \* N of the condition
    MaxEvents    \* bound: events per process

ASSUME RuleAssumption ==
    /\ Times \subseteq Nat
    /\ Window \in Nat /\ Cooldown \in Nat
    /\ Threshold \in Nat \ {0}
    /\ MaxEvents \in Nat

VARIABLES
    arrivals,    \* timestamps of the matching events each process was given
    lo,          \* where the deque starts in them
    since,       \* ghost: the first event since the process started
    pc,          \* idle, or evaluated: quiet (no alert) or fire
    row,         \* the state row: absent, there, or the process inserting it
    lastAlert,   \* its last_alert_at
    alerts,      \* ghost: timestamps of the alerts, in the order of the commits
    aborted      \* ghost: a transaction was rolled back

window == <<arrivals, lo, since>>
vars   == <<window, pc, row, lastAlert, alerts, aborted>>

Never == -1

Size(p) == Len(arrivals[p])

Init ==
    /\ arrivals = [p \in Procs |-> <<>>]
    /\ lo = [p \in Procs |-> 1]
    /\ since = [p \in Procs |-> 1]
    /\ pc = [p \in Procs |-> "idle"]
    /\ row = "absent"
    /\ lastAlert = Never
    /\ alerts = <<>>
    /\ aborted = FALSE

-------------------------------------------------------------------------------

(* Mutant: an event as old as the cutoff is expired. *)
Expired_Closed(s, i, t) == s[i] <= t - Window

Expired(s, i, t) == s[i] < t - Window

(* Mutant: the alert before the cooldown's last second is let through. *)
Cooling_OffByOne(t) == t < lastAlert + Cooldown - 1

(* The last alert is too recent. *)
Cooling(t) == t < lastAlert + Cooldown

(* Mutant: the count is compared before the event is appended. *)
Count_Before(s, i) == Len(s) - i

(* The size of the deque that starts at i. *)
Count(s, i) == Len(s) - i + 1

Verdict(s, i, t) ==
    IF Cooldown > 0 /\ lastAlert # Never /\ Cooling(t) THEN "quiet"
    ELSE IF Count(s, i) >= Threshold THEN "fire" ELSE "quiet"

(* A matching event is appended, the head of the deque is trimmed and the   *)
(* state row read, or inserted if it is absent.  An insert another process  *)
(* has not committed blocks this one's; when that commits, the unique       *)
(* constraint makes this one read the other's row.                           *)
Evaluate(p, t) ==
    /\ pc[p] = "idle"
    /\ row \in {"absent", "there"}
    /\ Size(p) < MaxEvents
    /\ LET s == Append(arrivals[p], t)
       IN \E i \in lo[p]..Len(s) :
            /\ ~Expired(s, i, t)
            /\ \A j \in lo[p]..(i - 1) : Expired(s, j, t)
            /\ arrivals' = [arrivals EXCEPT ![p] = s]
            /\ lo' = [lo EXCEPT ![p] = i]
            /\ pc' = [pc EXCEPT ![p] = Verdict(s, i, t)]
    /\ row' = IF row = "absent" THEN p ELSE row
    /\ UNCHANGED <<since, lastAlert, alerts, aborted>>

NewLastAlert(t) == t

(* The caller commits: the alert and the state row are written. *)
Commit(p) ==
    /\ pc[p] # "idle"
    /\ pc' = [pc EXCEPT ![p] = "idle"]
    /\ row' = "there"
    /\ IF pc[p] = "fire"
         THEN /\ alerts' = Append(alerts, arrivals[p][Size(p)])
              /\ lastAlert' = NewLastAlert(arrivals[p][Size(p)])
         ELSE UNCHANGED <<alerts, lastAlert>>
    /\ UNCHANGED <<window, aborted>>

RowAfterRollback(p) == IF row = p THEN "absent" ELSE row

(* The database refuses: the rows are as before, the deque is not. *)
Rollback(p) ==
    /\ pc[p] # "idle"
    /\ pc' = [pc EXCEPT ![p] = "idle"]
    /\ row' = RowAfterRollback(p)
    /\ aborted' = TRUE
    /\ UNCHANGED <<window, lastAlert, alerts>>

Forgotten(p) == Size(p) + 1

(* The process starts again with an empty deque. *)
Restart(p) ==
    /\ lo[p] <= Size(p)
    /\ lo' = [lo EXCEPT ![p] = Forgotten(p)]
    /\ since' = [since EXCEPT ![p] = Size(p) + 1]
    /\ pc' = [pc EXCEPT ![p] = "idle"]
    /\ row' = IF pc[p] = "idle" THEN row ELSE RowAfterRollback(p)
    /\ UNCHANGED <<arrivals, lastAlert, alerts, aborted>>

Next ==
    \E p \in Procs :
        \/ \E t \in Times : Evaluate(p, t)
        \/ Commit(p) \/ Rollback(p) \/ Restart(p)

Spec == Init /\ [][Next]_vars

-------------------------------------------------------------------------------

TypeOK ==
    /\ arrivals \in [Procs -> Seq(Times)]
    /\ lo \in [Procs -> Nat \ {0}]
    /\ since \in [Procs -> Nat \ {0}]
    /\ \A p \in Procs :
        /\ since[p] <= lo[p] /\ lo[p] <= Size(p) + 1
        /\ pc[p] # "idle" => lo[p] <= Size(p)
    /\ pc \in [Procs -> {"idle", "quiet", "fire"}]
    /\ row \in {"absent", "there"} \cup Procs
    /\ lastAlert \in Times \cup {Never}
    /\ alerts \in Seq(Times)
    /\ aborted \in BOOLEAN

(* The process was given its events in the order of their timestamps. *)
InOrder(p) ==
    \A i, j \in since[p]..Size(p) : i <= j => arrivals[p][i] <= arrivals[p][j]

(* Events that come in order are counted exactly: the deque holds those of  *)
(* the last window_seconds, no more and no fewer.                            *)
InOrderIsExact ==
    \A p \in Procs : InOrder(p) =>
        \A i \in since[p]..Size(p) :
            i >= lo[p] <=> arrivals[p][i] >= arrivals[p][Size(p)] - Window

(* No two alerts of a group are closer than the cooldown, in whatever order *)
(* the events come and whatever is rolled back or restarted in between.      *)
AlertsAreSpaced ==
    Cooldown > 0 =>
        \A i \in DOMAIN alerts, j \in DOMAIN alerts :
            i < j => alerts[j] >= alerts[i] + Cooldown

(* The events a process was given up to the k-th, in the window that ends   *)
(* with it.                                                                  *)
Within(p, k) == {j \in since[p]..k : arrivals[p][j] >= arrivals[p][k] - Window}

(* A process that was given as many events in one window as the threshold   *)
(* asks for, in order, has led to an alert, its own or another's.  It is of  *)
(* each process alone: what several were given between them adds up nowhere, *)
(* docs/DETECTION_ENGINE_ARCHITECTURE_AUDIT.md:70 notwithstanding.           *)
ThresholdAlerts ==
    \A p \in Procs :
        (/\ pc[p] = "idle" /\ InOrder(p) /\ ~aborted
         /\ \E k \in since[p]..Size(p) : Cardinality(Within(p, k)) >= Threshold)
            => alerts # <<>>

===============================================================================
