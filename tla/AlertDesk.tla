------------------------------- MODULE AlertDesk ------------------------------
(***************************************************************************)
(* Analysts at the alert list of the console (app/routers/alerts.py).      *)
(*                                                                         *)
(* The list comes page by page.  A bulk update with select_all is given    *)
(* the filters of the list, all but the search text, and evaluates them    *)
(* anew over every page: the list is a query with a join, the update one   *)
(* with a sub-select, and between the two alerts are raised, linked to     *)
(* incidents, grow old and are changed by other analysts.                  *)
(***************************************************************************)
EXTENDS Integers, FiniteSets

CONSTANTS
    Seats,        \* analysts
    DeskAlerts,   \* alerts, in the table or yet to come
    DeskScores,   \* their severity, 0 to 30
    DeskFilters,  \* filters the analysts use
    Worded,       \* alerts the search text, q, matches
    PageRows,     \* the limit of a page
    MaxDesk       \* bound: requests that change alerts

ASSUME DeskAssumption ==
    /\ DeskScores \in [DeskAlerts -> 0 .. 30]
    /\ DeskFilters \subseteq [status : {"all", "open", "closed", "false_positive"},
                              severity : {"all", "high", "medium", "low", "info"},
                              incident : BOOLEAN, text : BOOLEAN]
    /\ Worded \subseteq DeskAlerts
    /\ PageRows \in Nat \ {0}
    /\ MaxDesk \in Nat

VARIABLES
    state,       \* status of each alert, "none" before its row exists
    aged,        \* alerts older than the days of the filters
    member,      \* alerts linked to the incident a filter may name
    view,        \* the list each analyst looks at: its filter, the rows of the
                 \* pages shown, and (ghost) all its rows, the text left aside
    stirred,     \* ghost: alerts that changed since that list was made
    swept,       \* ghost: pairs of analyst and alert of the last select_all
    desk         \* requests that changed alerts

deskVars == <<state, aged, member, view, stirred, swept, desk>>

NoFilter == [status |-> "none", severity |-> "none", incident |-> FALSE, text |-> FALSE]
NoView == [filter |-> NoFilter, rows |-> {}, whole |-> {}]

DeskInit ==
    /\ state = [a \in DeskAlerts |-> "none"] /\ aged = {} /\ member = {}
    /\ view = [s \in Seats |-> NoView]
    /\ stirred = [s \in Seats |-> {}] /\ swept = {} /\ desk = 0

-------------------------------------------------------------------------------
(* The filters *)

(* parse_severity_filter: the scores of a bucket. *)
Bucketed(severity) ==
    CASE severity = "high"   -> 18 .. 30
      [] severity = "medium" -> 10 .. 17
      [] severity = "low"    -> 4 .. 9
      [] severity = "info"   -> 0 .. 3
      [] OTHER               -> 0 .. 30

(* build_filters, of the days, the status, the severity and the text. *)
Built(f) ==
    {a \in DeskAlerts :
        /\ state[a] # "none" /\ a \notin aged
        /\ f.status \in {"all", state[a]}
        /\ DeskScores[a] \in Bucketed(f.severity)
        /\ f.text => a \in Worded}

(* The list joins the links of the incident. *)
Listed(f) == IF f.incident THEN Built(f) \cap member ELSE Built(f)

(* collectCurrentFiltersForBulk: what the console sends of them, no text. *)
BulkFilters(f) == [f EXCEPT !.text = FALSE]

(* Mutant: the update forgets the incident the list was made for. *)
Selected_Wide(f) == Built(f)

(* The update of all takes the ids of those links. *)
Selected(f) == {a \in Built(f) : f.incident => a \in member}

-------------------------------------------------------------------------------
(* The rest of the system *)

Stir(some) == stirred' = [s \in Seats |-> stirred[s] \cup some]

RaiseAlert(a) ==
    /\ state[a] = "none"
    /\ state' = [state EXCEPT ![a] = "open"]
    /\ Stir({a}) /\ swept' = {}
    /\ UNCHANGED <<aged, member, view, desk>>

AgeAlert(a) ==
    /\ state[a] # "none" /\ a \notin aged
    /\ aged' = aged \cup {a} /\ swept' = {}
    /\ UNCHANGED <<state, member, view, stirred, desk>>

LinkAlert(a) ==
    /\ state[a] # "none" /\ a \notin member
    /\ member' = member \cup {a}
    /\ Stir({a}) /\ swept' = {}
    /\ UNCHANGED <<state, aged, view, desk>>

-------------------------------------------------------------------------------
(* Requests *)

(* A page of the list; which rows share one, their order by time decides.  *)
(* The rows picked on earlier pages stay picked until the filter changes.   *)
ListAlerts(s, f) ==
    /\ \E page \in SUBSET Listed(f) :
        /\ Cardinality(page) <= PageRows
        /\ view' = [view EXCEPT ![s] =
                [filter |-> f,
                 rows |-> page \cup (IF view[s].filter = f THEN view[s].rows ELSE {}),
                 whole |-> Listed(BulkFilters(f))]]
    /\ stirred' = [stirred EXCEPT ![s] = {}]
    /\ swept' = {}
    /\ UNCHANGED <<state, aged, member, desk>>

SetState(some, status) ==
    /\ desk < MaxDesk
    /\ desk' = desk + 1
    /\ state' = [a \in DeskAlerts |-> IF a \in some THEN status ELSE state[a]]
    /\ Stir({a \in some : state[a] # status})
    /\ UNCHANGED <<aged, member, view>>

(* update_alert and the bulk update of rows picked on the pages. *)
UpdateIds(some, status) == some # {} /\ SetState(some, status) /\ swept' = {}

(* The bulk update with select_all and the filters of the list. *)
UpdateAll(s, status) ==
    /\ view[s].filter # NoFilter
    /\ SetState(Selected(BulkFilters(view[s].filter)), status)
    /\ swept' = {s} \X Selected(BulkFilters(view[s].filter))

DeskNext ==
    \/ \E a \in DeskAlerts : RaiseAlert(a) \/ AgeAlert(a) \/ LinkAlert(a)
    \/ \E s \in Seats, f \in DeskFilters : ListAlerts(s, f)
    \/ \E s \in Seats, st \in {"open", "closed", "false_positive"} :
        \/ \E some \in SUBSET view[s].rows : UpdateIds(some, st)
        \/ UpdateAll(s, st)

DeskSpec == DeskInit /\ [][DeskNext]_deskVars

-------------------------------------------------------------------------------

(* A "select all" changes what the analyst's filters, the search text left  *)
(* aside, listed over all pages when the last page was asked for, or what   *)
(* has changed since: the update's own query selects nothing the list's     *)
(* query would not have.                                                     *)
OnlyNewcomersAreSwept ==
    \A s \in Seats, a \in DeskAlerts :
        <<s, a>> \in swept => a \in view[s].whole \cup stirred[s]
===============================================================================
