------------------------------ MODULE JsonColumns -----------------------------
(***************************************************************************)
(* The two JSON columns that several writers keep: the notes in the        *)
(* evidence of an incident (add_incident_note of                           *)
(* app/routers/incidents_v2.py) and the attributes of an entity, changed   *)
(* by analysts (patch_entity_state of app/routers/entities.py) and by the  *)
(* scoring job (app/services/entity_job.py).                               *)
(*                                                                         *)
(* An analyst's request reads the whole value in one statement and writes  *)
(* it back in a later one; no row is locked and no version is compared.    *)
(* The job merges what an alert tells into the very dict the session       *)
(* loaded and assigns that dict again: the session finds the column equal  *)
(* to what it loaded and leaves it out of the UPDATE, so that only the     *)
(* INSERT of a new entity carries attributes.                              *)
(***************************************************************************)
EXTENDS Naturals

CONSTANTS
    Analysts,    \* analysts who change the state of the entity
    Notes,       \* notes that may be written
    Facts        \* attributes the scoring job may find in alerts

VARIABLES
    notes,       \* notes in the evidence of the incident
    noting,      \* note requests between read and commit: [note, seen]
    noted,       \* ghost: notes whose request was answered
    noteRisk,    \* ghost: those committed while another request held a copy
    attrs,       \* attributes of the entity: [state, facts], NoRow before its row
    held,        \* the copy of attrs an analyst's request works on, NoRow without one
    dict,        \* the dict the job's session holds for the entity, NoRow without one
    inserted,    \* the row the session has inserted and not committed, or NoRow
    chosen,      \* ghost: the state the last analyst was answered
    learnt,      \* ghost: facts of the alerts of committed batches
    unsaid       \* ghost: facts merged into the dict of a row that was there

noteVars   == <<notes, noting, noted, noteRisk>>
attrVars   == <<attrs, held, dict, inserted, chosen, learnt, unsaid>>
columnVars == <<noteVars, attrVars>>

NoRow == [state |-> "none", facts |-> {}]

(* A stored value without the key "state" reads as open (_entity_state).    *)
NewRow(some) == [state |-> "open", facts |-> some]

ColumnInit ==
    /\ notes = {} /\ noting = {} /\ noted = {} /\ noteRisk = {}
    /\ attrs = NoRow /\ held = [s \in Analysts |-> NoRow]
    /\ dict = NoRow /\ inserted = NoRow
    /\ chosen = "open" /\ learnt = {} /\ unsaid = {}

-------------------------------------------------------------------------------
(* Notes *)

BeginNote(n) ==
    /\ n \notin noted /\ \A r \in noting : r.note # n
    /\ noting' = noting \cup {[note |-> n, seen |-> notes]}
    /\ UNCHANGED <<notes, noted, noteRisk, attrVars>>

(* The list the request read, with its note at the end. *)
Appended(r) == r.seen \cup {r.note}

EndNote(r) ==
    /\ notes' = Appended(r)
    /\ noting' = noting \ {r}
    /\ noted' = noted \cup {r.note}
    /\ noteRisk' = IF noting' = {} THEN noteRisk ELSE noteRisk \cup {r.note}
    /\ UNCHANGED attrVars

-------------------------------------------------------------------------------
(* Attributes *)

BeginPatch(s) ==
    /\ attrs # NoRow /\ held[s] = NoRow
    /\ held' = [held EXCEPT ![s] = attrs]
    /\ UNCHANGED <<attrs, dict, inserted, chosen, learnt, unsaid, noteVars>>

(* The state is put into the copy and the whole copy is written. *)
PatchState(s, state) ==
    /\ held[s] # NoRow
    /\ attrs' = [held[s] EXCEPT !.state = state]
    /\ held' = [held EXCEPT ![s] = NoRow]
    /\ chosen' = state
    /\ UNCHANGED <<dict, inserted, learnt, unsaid, noteVars>>

(* _merge_attrs: what the alert tells is put into the dict. *)
Merged(row, some) == [row EXCEPT !.facts = @ \cup some]

(* An alert of the batch: its entity is created, with what the alert tells, *)
(* or loaded once, and what the alert tells is merged into its dict.        *)
ScoreEntity(some) ==
    /\ IF attrs = NoRow /\ dict = NoRow
       THEN /\ dict' = NewRow(some)
            /\ inserted' = NewRow(some)
            /\ UNCHANGED unsaid
       ELSE /\ dict' = Merged(IF dict = NoRow THEN attrs ELSE dict, some)
            /\ unsaid' = unsaid \cup some
            /\ UNCHANGED inserted
    /\ UNCHANGED <<attrs, held, chosen, learnt, noteVars>>

(* Mutant: the changed dict is taken for a changed column.                  *)
Flushed_Whole == dict

(* The column after the commit: a new row keeps what it was inserted with,  *)
(* one that was there what it has by now.                                    *)
Flushed == IF attrs = NoRow THEN inserted ELSE attrs

CommitBatch ==
    /\ dict # NoRow
    /\ attrs' = Flushed
    /\ dict' = NoRow /\ inserted' = NoRow
    /\ learnt' = learnt \cup dict.facts
    /\ UNCHANGED <<held, chosen, unsaid, noteVars>>

ColumnNext ==
    \/ \E n \in Notes : BeginNote(n)
    \/ \E r \in noting : EndNote(r)
    \/ \E s \in Analysts : BeginPatch(s)
    \/ \E s \in Analysts, state \in {"open", "closed"} : PatchState(s, state)
    \/ \E some \in SUBSET Facts : ScoreEntity(some)
    \/ CommitBatch

ColumnSpec == ColumnInit /\ [][ColumnNext]_columnVars

-------------------------------------------------------------------------------

(* What the columns keep.  Of two notes whose requests overlap one may be   *)
(* lost, and no other note is.  The state the last analyst was answered is  *)
(* the entity's, whatever the job scores meanwhile; and the facts of an     *)
(* alert that created the entity stay through every later write, while      *)
(* those of alerts that found it there may be missing.                       *)
ColumnsKeepWrites ==
    /\ noted \ notes \subseteq noteRisk
    /\ attrs # NoRow => attrs.state = chosen
    /\ learnt \ attrs.facts \subseteq unsaid
===============================================================================
