------------------------------ MODULE MCCasework ------------------------------
(***************************************************************************)
(* What surrounds the alerts: the incidents, the console over alerts and   *)
(* incidents, retention, keys and agents, the ingestion API and the log    *)
(* shipping agent. They share no variable here, so they are checked side   *)
(* by side: the first state says which part a behaviour is about, and the  *)
(* others stay in an initial state.                                        *)
(***************************************************************************)
EXTENDS TLC, IncidentDesk, AlertDesk, JsonColumns, Retention, AccessDesk, IngestGate, AgentSpool

VARIABLE part

(* An alert of either severity, three views of the console, one of them     *)
(* with a text that one alert matches, in pages of a row.                    *)
MCDeskScores == [a1 |-> 18, a2 |-> 17]
MCDeskFilters == {[status |-> "open", severity |-> "high", incident |-> FALSE, text |-> FALSE],
                  [status |-> "all", severity |-> "medium", incident |-> TRUE, text |-> FALSE],
                  [status |-> "closed", severity |-> "all", incident |-> FALSE, text |-> TRUE]}

(* Batches with none, both and too many of two events. *)
MCBatches == {<<>>, <<1, 2>>, <<2, 1>>, <<1, 2, 1>>}

(* What goes wrong with the agent and what happens to its file draw on one *)
(* bound: two deaths or bad answers, or one of them and a rotation.          *)
MCAgentBound == trouble + file.gen <= 3

MCProcSymmetry == Permutations(Procs)

CaseworkInit ==
    /\ part \in {"incidents", "alerts", "columns", "retention", "access", "ingest", "agent"}
    /\ Init
    /\ DeskInit
    /\ ColumnInit
    /\ RetentionInit
    /\ AccessInit
    /\ part = "access" \/ key = [k \in Keys |-> NewKey(TRUE, First)]
    /\ IngestInit
    /\ part = "ingest" \/ broker
    /\ AgentInit

CaseworkNext ==
    \/ part = "incidents" /\ Next
        /\ UNCHANGED <<deskVars, columnVars, purgeVars, AccessVars, IngestVars, AgentVars, part>>
    \/ part = "alerts" /\ DeskNext
        /\ UNCHANGED <<vars, columnVars, purgeVars, AccessVars, IngestVars, AgentVars, part>>
    \/ part = "columns" /\ ColumnNext
        /\ UNCHANGED <<vars, deskVars, purgeVars, AccessVars, IngestVars, AgentVars, part>>
    \/ part = "retention" /\ RetentionNext
        /\ UNCHANGED <<vars, deskVars, columnVars, AccessVars, IngestVars, AgentVars, part>>
    \/ part = "access" /\ AccessNext
        /\ UNCHANGED <<vars, deskVars, columnVars, purgeVars, IngestVars, AgentVars, part>>
    \/ part = "ingest" /\ IngestNext
        /\ UNCHANGED <<vars, deskVars, columnVars, purgeVars, AccessVars, AgentVars, part>>
    \/ part = "agent" /\ AgentNext /\ MCAgentBound'
        /\ UNCHANGED <<vars, deskVars, columnVars, purgeVars, AccessVars, IngestVars, part>>

CaseworkSpec == CaseworkInit /\ [][CaseworkNext]_<<vars, deskVars, columnVars, purgeVars, AccessVars, IngestVars, AgentVars, part>>
===============================================================================
