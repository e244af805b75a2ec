---------------------------- MODULE CaseworkProofs ----------------------------
(***************************************************************************)
(* Proofs about the desks and doors around the alerts: the alert list, the *)
(* JSON columns several writers keep, retention, keys, the ingestion API   *)
(* and the agent.  Each part has its own invariant and its own theorem.    *)
(***************************************************************************)
EXTENDS AlertDesk, JsonColumns, Retention, AccessDesk, IngestGate, AgentSpool,
        FiniteSetTheorems, WellFoundedInduction, TLAPS

-------------------------------------------------------------------------------
(* The alert list *)

DeskTypeOK ==
    /\ state \in [DeskAlerts -> {"none", "open", "closed", "false_positive"}]
    /\ member \subseteq DeskAlerts
    /\ view \in [Seats -> [filter : DeskFilters \cup {NoFilter},
                        rows : SUBSET DeskAlerts, whole : SUBSET DeskAlerts]]
    /\ stirred \in [Seats -> SUBSET DeskAlerts]

(* What the filters sent select now and did not list then was stirred. *)
ListsAreCurrent ==
    \A s \in Seats :
        Selected(BulkFilters(view[s].filter)) \subseteq view[s].whole \cup stirred[s]

DeskInv == DeskTypeOK /\ ListsAreCurrent /\ OnlyNewcomersAreSwept

LEMMA DeskInitOK == DeskInit => DeskInv
BY DEF DeskInit, DeskInv, DeskTypeOK, ListsAreCurrent, OnlyNewcomersAreSwept,
       NoView, NoFilter, BulkFilters, Selected, Built

(* A step that stirs what it changes of an alert keeps the lists current. *)
LEMMA StirringIsEnough ==
    ASSUME DeskInv, UNCHANGED view, stirred' \in [Seats -> SUBSET DeskAlerts],
           aged \subseteq aged',
           \A s \in Seats : stirred[s] \subseteq stirred'[s],
           \A a \in DeskAlerts :
               \/ \A s \in Seats : a \in stirred'[s]
               \/ state'[a] = state[a] /\ (a \in member' <=> a \in member)
    PROVE  ListsAreCurrent'
<1> SUFFICES ASSUME NEW s \in Seats, NEW a \in Selected(BulkFilters(view[s].filter))', a \notin stirred'[s]
             PROVE  a \in view[s].whole
    BY DEF DeskInv, ListsAreCurrent
<1>1. a \in DeskAlerts /\ state'[a] = state[a] /\ (a \in member' <=> a \in member)
    BY DEF Selected, Built
<1>2. a \in Selected(BulkFilters(view[s].filter))
    BY <1>1 DEF Selected, Built
<1> QED BY <1>2 DEF DeskInv, ListsAreCurrent

LEMMA DeskStep == DeskInv /\ [DeskNext]_deskVars => DeskInv'
<1> SUFFICES ASSUME DeskInv, [DeskNext]_deskVars PROVE DeskInv'
    OBVIOUS
<1> USE DEF DeskInv
<1>1. ASSUME NEW a \in DeskAlerts, RaiseAlert(a) PROVE DeskInv'
    <2>1. DeskTypeOK'
        BY <1>1 DEF RaiseAlert, Stir, DeskTypeOK
    <2>2. ListsAreCurrent'
        BY <1>1, <2>1, StirringIsEnough DEF RaiseAlert, Stir, DeskTypeOK
    <2> QED BY <1>1, <2>1, <2>2 DEF RaiseAlert, OnlyNewcomersAreSwept
<1>2. ASSUME NEW a \in DeskAlerts, AgeAlert(a) PROVE DeskInv'
    <2>1. DeskTypeOK'
        BY <1>2 DEF AgeAlert, DeskTypeOK
    <2>2. ListsAreCurrent'
        BY <1>2, <2>1, StirringIsEnough DEF AgeAlert, DeskTypeOK
    <2> QED BY <1>2, <2>1, <2>2 DEF AgeAlert, OnlyNewcomersAreSwept
<1>3. ASSUME NEW a \in DeskAlerts, LinkAlert(a) PROVE DeskInv'
    <2>1. DeskTypeOK'
        BY <1>3 DEF LinkAlert, Stir, DeskTypeOK
    <2>2. ListsAreCurrent'
        BY <1>3, <2>1, StirringIsEnough DEF LinkAlert, Stir, DeskTypeOK
    <2> QED BY <1>3, <2>1, <2>2 DEF LinkAlert, OnlyNewcomersAreSwept
<1>4. ASSUME NEW t \in Seats, NEW f \in DeskFilters, ListAlerts(t, f) PROVE DeskInv'
    <2>1. Listed(f) \subseteq DeskAlerts /\ Listed(BulkFilters(f)) \subseteq DeskAlerts
        BY DEF Listed, Built
    <2>0. PICK page \in SUBSET Listed(f) :
            view' = [view EXCEPT ![t] =
                [filter |-> f,
                 rows |-> page \cup (IF view[t].filter = f THEN view[t].rows ELSE {}),
                 whole |-> Listed(BulkFilters(f))]]
        BY <1>4 DEF ListAlerts
    <2>2. DeskTypeOK'
        BY <1>4, <2>0, <2>1 DEF ListAlerts, DeskTypeOK
    <2>3. Selected(BulkFilters(f)) \subseteq Listed(BulkFilters(f))
        BY DEF Selected, Listed
    <2>4. ASSUME NEW g PROVE Selected(g)' = Selected(g)
        BY <1>4 DEF ListAlerts, Selected, Built
    <2>5. ListsAreCurrent'
        <3> SUFFICES ASSUME NEW s \in Seats
                     PROVE  (Selected(BulkFilters(view[s].filter)) \subseteq view[s].whole \cup stirred[s])'
            BY DEF ListsAreCurrent
        <3>1. CASE s = t
            BY <1>4, <2>0, <2>3, <2>4, <3>1 DEF ListAlerts, DeskTypeOK, BulkFilters
        <3>2. CASE s # t
            BY <1>4, <2>0, <2>4, <3>2 DEF ListAlerts, DeskTypeOK, ListsAreCurrent, BulkFilters
        <3> QED BY <3>1, <3>2
    <2> QED BY <1>4, <2>2, <2>5 DEF ListAlerts, OnlyNewcomersAreSwept
<1>5. ASSUME NEW some \in SUBSET DeskAlerts, NEW st \in {"open", "closed", "false_positive"},
             SetState(some, st)
      PROVE  DeskTypeOK' /\ ListsAreCurrent' /\ view' = view
             /\ \A s \in Seats : stirred[s] \subseteq stirred'[s]
    <2>1. DeskTypeOK'
        BY <1>5 DEF SetState, Stir, DeskTypeOK
    <2>2. \A s \in Seats : stirred[s] \subseteq stirred'[s]
        BY <1>5 DEF SetState, Stir, DeskTypeOK
    <2>3. \A a \in DeskAlerts : (\A s \in Seats : a \in stirred'[s]) \/ state'[a] = state[a]
        BY <1>5 DEF SetState, Stir, DeskTypeOK
    <2>4. ListsAreCurrent'
        BY <1>5, <2>1, <2>2, <2>3, StirringIsEnough DEF SetState, DeskTypeOK
    <2> QED BY <1>5, <2>1, <2>2, <2>4 DEF SetState
<1>6. ASSUME NEW s \in Seats, NEW st \in {"open", "closed", "false_positive"},
             NEW some \in SUBSET view[s].rows, UpdateIds(some, st)
      PROVE  DeskInv'
    <2>1. some \in SUBSET DeskAlerts
        BY DEF DeskTypeOK
    <2> QED BY <1>5, <1>6, <2>1 DEF UpdateIds, OnlyNewcomersAreSwept
<1>7. ASSUME NEW s \in Seats, NEW st \in {"open", "closed", "false_positive"}, UpdateAll(s, st)
      PROVE  DeskInv'
    <2>1. Selected(BulkFilters(view[s].filter)) \in SUBSET DeskAlerts
        BY DEF Selected, Built
    <2>2. DeskTypeOK' /\ ListsAreCurrent' /\ view' = view
          /\ \A t \in Seats : stirred[t] \subseteq stirred'[t]
        BY <1>5, <1>7, <2>1 DEF UpdateAll
    <2>3. OnlyNewcomersAreSwept'
        BY <1>7, <2>2 DEF UpdateAll, ListsAreCurrent, OnlyNewcomersAreSwept
    <2> QED BY <2>2, <2>3
<1>8. CASE UNCHANGED deskVars
    <2>1. DeskTypeOK' /\ OnlyNewcomersAreSwept'
        BY <1>8 DEF deskVars, DeskTypeOK, OnlyNewcomersAreSwept
    <2>2. ListsAreCurrent'
        BY <1>8, <2>1, StirringIsEnough DEF deskVars, DeskTypeOK
    <2> QED BY <2>1, <2>2
<1> QED BY <1>1, <1>2, <1>3, <1>4, <1>6, <1>7, <1>8 DEF DeskNext

(* Whatever the analysts, filters, pages and alerts: a "select all" changes  *)
(* what the filters sent listed over all pages, or what changed since.       *)
THEOREM SelectAllTouchesTheList == DeskSpec => []OnlyNewcomersAreSwept
<1>1. DeskInv => OnlyNewcomersAreSwept
    BY DEF DeskInv
<1> QED BY <1>1, DeskInitOK, DeskStep, PTL DEF DeskSpec

-------------------------------------------------------------------------------
(* The JSON columns *)

Rows == [state : {"open", "closed"}, facts : SUBSET Facts]

ColumnTypeOK ==
    /\ attrs \in Rows \cup {NoRow}
    /\ held \in [Analysts -> Rows \cup {NoRow}]
    /\ dict \in Rows \cup {NoRow}
    /\ inserted \in Rows \cup {NoRow}

(* The facts a new row has, as soon as its INSERT is sent. *)
FirstFacts == IF attrs = NoRow THEN inserted.facts ELSE attrs.facts

(* What a copy lacks of the notes was committed while it was held, and no   *)
(* copy of the attributes lacks a fact of the row.                           *)
CopiesAreWhole ==
    /\ \A r \in noting : noted \ r.seen \subseteq noteRisk
    /\ \A s \in Analysts : held[s] # NoRow => attrs # NoRow /\ held[s].facts = attrs.facts
    /\ attrs = NoRow => chosen = "open" /\ learnt = {}
    /\ attrs = NoRow /\ dict # NoRow => inserted \in Rows /\ inserted.state = "open"
    /\ dict # NoRow => dict.facts \ FirstFacts \subseteq unsaid

ColumnInv == ColumnTypeOK /\ CopiesAreWhole /\ ColumnsKeepWrites

LEMMA NoRowIsNone == NoRow \notin Rows /\ NoRow.facts = {}
BY DEF NoRow, Rows

LEMMA ColumnInitOK == ColumnInit => ColumnInv
BY DEF ColumnInit, ColumnInv, ColumnTypeOK, CopiesAreWhole, ColumnsKeepWrites

LEMMA ColumnStep == ColumnInv /\ [ColumnNext]_columnVars => ColumnInv'
<1> SUFFICES ASSUME ColumnInv, [ColumnNext]_columnVars PROVE ColumnInv'
    OBVIOUS
<1> USE DEF ColumnInv
<1>1. ASSUME NEW n \in Notes, BeginNote(n) PROVE ColumnInv'
    BY <1>1 DEF BeginNote, attrVars, ColumnTypeOK, CopiesAreWhole, FirstFacts, ColumnsKeepWrites
<1>2. ASSUME NEW r \in noting, EndNote(r) PROVE ColumnInv'
    <2>1. ASSUME NEW o \in noting' PROVE noted' \ o.seen \subseteq noteRisk'
        BY <1>2, <2>1 DEF EndNote, CopiesAreWhole
    <2>2. noted \ r.seen \subseteq noteRisk
        BY DEF CopiesAreWhole
    <2>3. noted' \ notes' \subseteq noteRisk'
        BY <1>2, <2>2 DEF EndNote, Appended
    <2> QED
        BY <1>2, <2>1, <2>3
        DEF EndNote, attrVars, ColumnTypeOK, CopiesAreWhole, FirstFacts, ColumnsKeepWrites
<1>3. ASSUME NEW s \in Analysts, BeginPatch(s) PROVE ColumnInv'
    <2>1. ColumnTypeOK'
        BY <1>3 DEF BeginPatch, ColumnTypeOK
    <2>2. CopiesAreWhole'
        BY <1>3 DEF BeginPatch, noteVars, ColumnTypeOK, CopiesAreWhole, FirstFacts
    <2> QED BY <1>3, <2>1, <2>2 DEF BeginPatch, noteVars, ColumnsKeepWrites
<1>4. ASSUME NEW s \in Analysts, NEW to \in {"open", "closed"}, PatchState(s, to)
      PROVE  ColumnInv'
    <2>1. held[s] \in Rows /\ attrs # NoRow /\ held[s].facts = attrs.facts
        BY <1>4 DEF PatchState, ColumnTypeOK, CopiesAreWhole
    <2>2. attrs' \in Rows /\ attrs'.state = chosen' /\ attrs'.facts = attrs.facts
        BY <1>4, <2>1 DEF PatchState, Rows
    <2>3. ColumnTypeOK'
        BY <1>4, <2>2 DEF PatchState, ColumnTypeOK
    <2>4. CopiesAreWhole'
        BY <1>4, <2>1, <2>2, NoRowIsNone
        DEF PatchState, noteVars, ColumnTypeOK, CopiesAreWhole, FirstFacts
    <2>5. ColumnsKeepWrites'
        BY <1>4, <2>2 DEF PatchState, noteVars, ColumnsKeepWrites
    <2> QED BY <2>3, <2>4, <2>5
<1>5. ASSUME NEW some \in SUBSET Facts, ScoreEntity(some) PROVE ColumnInv'
    <2>1. CASE attrs = NoRow /\ dict = NoRow
        <3>1. /\ dict' = NewRow(some) /\ inserted' = NewRow(some) /\ NewRow(some) \in Rows
              /\ NewRow(some).state = "open" /\ attrs' = NoRow
            BY <1>5, <2>1 DEF ScoreEntity, NewRow, Rows
        <3>2. ColumnTypeOK'
            BY <1>5, <3>1 DEF ScoreEntity, ColumnTypeOK
        <3>3. CopiesAreWhole'
            BY <1>5, <2>1, <3>1 DEF ScoreEntity, noteVars, CopiesAreWhole, FirstFacts
        <3> QED BY <1>5, <2>1, <3>2, <3>3 DEF ScoreEntity, noteVars, ColumnsKeepWrites
    <2>2. CASE ~(attrs = NoRow /\ dict = NoRow)
        <3> DEFINE had == IF dict = NoRow THEN attrs ELSE dict
        <3>1. /\ dict' = Merged(had, some) /\ inserted' = inserted /\ attrs' = attrs
              /\ unsaid' = unsaid \cup some /\ held' = held
            BY <1>5, <2>2 DEF ScoreEntity
        <3>2. had \in Rows
            BY <2>2 DEF ColumnTypeOK
        <3>3. dict' \in Rows /\ dict'.facts = had.facts \cup some
            BY <3>1, <3>2 DEF Merged, Rows
        <3>4. had.facts \ FirstFacts \subseteq unsaid
            BY <2>2 DEF CopiesAreWhole, FirstFacts
        <3>5. FirstFacts' = FirstFacts
            BY <3>1 DEF FirstFacts
        <3>6. ColumnTypeOK'
            BY <3>1, <3>3 DEF ColumnTypeOK
        <3>7. CopiesAreWhole'
            BY <1>5, <2>2, <3>1, <3>3, <3>4, <3>5 DEF ScoreEntity, noteVars, CopiesAreWhole
        <3>8. ColumnsKeepWrites'
            BY <1>5, <3>1 DEF ScoreEntity, noteVars, ColumnsKeepWrites
        <3> QED BY <3>6, <3>7, <3>8
    <2> QED BY <2>1, <2>2
<1>6. CASE CommitBatch
    <2>1. attrs' \in Rows /\ attrs'.facts = FirstFacts /\ attrs'.state = chosen
        <3>1. CASE attrs = NoRow
            BY <1>6, <3>1 DEF CommitBatch, Flushed, CopiesAreWhole, FirstFacts
        <3>2. CASE attrs # NoRow
            BY <1>6, <3>2 DEF CommitBatch, Flushed, ColumnTypeOK, ColumnsKeepWrites, FirstFacts
        <3> QED BY <3>1, <3>2
    <2>2. attrs # NoRow => attrs' = attrs
        BY <1>6 DEF CommitBatch, Flushed
    <2>3. ColumnTypeOK'
        BY <1>6, <2>1 DEF CommitBatch, ColumnTypeOK
    <2>4. CopiesAreWhole'
        BY <1>6, <2>1, <2>2, NoRowIsNone DEF CommitBatch, noteVars, CopiesAreWhole
    <2>5. learnt' \ attrs'.facts \subseteq unsaid'
        <3>1. dict.facts \ FirstFacts \subseteq unsaid
            BY <1>6 DEF CommitBatch, CopiesAreWhole
        <3>2. learnt \ FirstFacts \subseteq unsaid
            BY DEF CopiesAreWhole, ColumnsKeepWrites, FirstFacts
        <3> QED BY <1>6, <2>1, <3>1, <3>2 DEF CommitBatch
    <2> QED BY <1>6, <2>1, <2>3, <2>4, <2>5 DEF CommitBatch, noteVars, ColumnsKeepWrites
<1>7. CASE UNCHANGED columnVars
    BY <1>7 DEF columnVars, noteVars, attrVars, ColumnTypeOK, CopiesAreWhole, FirstFacts, ColumnsKeepWrites
<1> QED BY <1>1, <1>2, <1>3, <1>4, <1>5, <1>6, <1>7 DEF ColumnNext

(* However many analysts write next to each other and to the scoring job: a *)
(* note that overlaps no other is kept, the last answered state is the       *)
(* entity's, and the facts it was created with stay.                         *)
THEOREM SerialWritesAreKept == ColumnSpec => []ColumnsKeepWrites
<1>1. ColumnInv => ColumnsKeepWrites
    BY DEF ColumnInv
<1> QED BY <1>1, ColumnInitOK, ColumnStep, PTL DEF ColumnSpec

-------------------------------------------------------------------------------
(* Retention *)

PurgeTypeOK ==
    /\ step \in [Purgers -> {"none", "incidents", "links", "old", "deleted", "swept"}]
    /\ protect \in [Purgers -> BOOLEAN]
    /\ DOMAIN known = Purgers /\ DOMAIN safe = Purgers
    /\ DOMAIN doomed = Purgers /\ DOMAIN late = Purgers

(* A link is of an incident that was opened and of an alert that is there. *)
LinksAreWhole ==
    \A l \in caseLinks : \E c \in opened, a \in rows : l = <<c, a>>

(* What a protecting purge has read covers every link but the late ones. *)
Covered(p, l) ==
    \/ l \in late[p]
    \/ CASE step[p] = "incidents" -> l[1] \in known[p]
         [] step[p] = "links" -> l[2] \in safe[p]
         [] step[p] \in {"old", "deleted", "swept"} -> l[2] \notin doomed[p]
         [] OTHER -> TRUE

LinksAreCovered == \A p \in Purgers : protect[p] => \A l \in caseLinks : Covered(p, l)

PurgeInv == PurgeTypeOK /\ LinksAreWhole /\ LinksAreCovered

LEMMA RetentionInitOK == RetentionInit => PurgeInv
BY DEF RetentionInit, PurgeInv, PurgeTypeOK, LinksAreWhole, LinksAreCovered

LEMMA ClearedKeeps ==
    ASSUME PurgeInv, NEW p \in Purgers, Cleared(p), caseLinks' \subseteq caseLinks
    PROVE  PurgeTypeOK' /\ LinksAreCovered'
<1>1. PurgeTypeOK'
    BY DEF PurgeInv, PurgeTypeOK, Cleared, To
<1>2. ASSUME NEW q \in Purgers, protect'[q], NEW l \in caseLinks' PROVE Covered(q, l)'
    <2>1. CASE q = p
        BY <2>1 DEF PurgeInv, PurgeTypeOK, Cleared, To, Covered
    <2>2. CASE q # p
        BY <1>2, <2>2 DEF PurgeInv, PurgeTypeOK, LinksAreCovered, Cleared, To, Covered
    <2> QED BY <2>1, <2>2
<1> QED BY <1>1, <1>2 DEF LinksAreCovered

LEMMA RetentionStep == PurgeInv /\ [RetentionNext]_purgeVars => PurgeInv'
<1> SUFFICES ASSUME PurgeInv, [RetentionNext]_purgeVars PROVE PurgeInv'
    OBVIOUS
<1> USE DEF PurgeInv
<1>1. ASSUME NEW a \in OldAlerts \cup NewAlerts, StoreAlert(a) PROVE PurgeInv'
    <2>1. PurgeTypeOK'
        BY <1>1 DEF StoreAlert, purge, PurgeTypeOK
    <2>2. LinksAreWhole'
        BY <1>1 DEF StoreAlert, LinksAreWhole
    <2>3. LinksAreCovered'
        BY <1>1 DEF StoreAlert, purge, LinksAreCovered, Covered
    <2> QED BY <2>1, <2>2, <2>3
<1>2. ASSUME NEW c \in Cases, NEW some \in SUBSET rows, NEW entities \in SUBSET kept,
             SaveIncident(c, some, entities)
      PROVE  PurgeInv'
    <2>1. PurgeTypeOK'
        BY <1>2 DEF SaveIncident, Noted, purge, PurgeTypeOK
    <2>2. LinksAreWhole'
        BY <1>2 DEF SaveIncident, LinksAreWhole
    <2>3. ASSUME NEW p \in Purgers, protect'[p], NEW l \in caseLinks' PROVE Covered(p, l)'
        <3>1. CASE l \in {c} \X some
            BY <1>2, <3>1 DEF SaveIncident, Noted, Covered
        <3>2. CASE l \in caseLinks
            BY <1>2, <2>3, <3>2 DEF SaveIncident, Noted, purge, LinksAreCovered, Covered
        <3> QED BY <1>2, <3>1, <3>2 DEF SaveIncident
    <2> QED BY <2>1, <2>2, <2>3 DEF LinksAreCovered
<1>3. ASSUME NEW p \in Purgers, NEW guarded \in BOOLEAN, BeginPurge(p, guarded) PROVE PurgeInv'
    <2>1. PurgeTypeOK'
        BY <1>3 DEF BeginPurge, To, PurgeTypeOK
    <2>2. LinksAreWhole'
        BY <1>3 DEF BeginPurge, tables, LinksAreWhole
    <2>3. ASSUME NEW q \in Purgers, protect'[q], NEW l \in caseLinks' PROVE Covered(q, l)'
        <3>1. l \in caseLinks /\ l[1] \in opened
            BY <1>3, <2>3 DEF BeginPurge, tables, LinksAreWhole
        <3>2. CASE q = p
            BY <1>3, <2>3, <3>1, <3>2 DEF BeginPurge, To, PurgeTypeOK, Covered
        <3>3. CASE q # p
            BY <1>3, <2>3, <3>1, <3>3 DEF BeginPurge, To, PurgeTypeOK, LinksAreCovered, Covered
        <3> QED BY <3>2, <3>3
    <2> QED BY <2>1, <2>2, <2>3 DEF LinksAreCovered
<1>4. ASSUME NEW p \in Purgers, ReadLinks(p) PROVE PurgeInv'
    <2>1. PurgeTypeOK'
        BY <1>4 DEF ReadLinks, To, PurgeTypeOK
    <2>2. LinksAreWhole'
        BY <1>4 DEF ReadLinks, tables, LinksAreWhole
    <2>3. ASSUME NEW q \in Purgers, protect'[q], NEW l \in caseLinks' PROVE Covered(q, l)'
        <3>1. l \in caseLinks /\ Covered(q, l)
            BY <1>4, <2>3 DEF ReadLinks, tables, LinksAreCovered
        <3>2. CASE q = p
            <4>1. PICK c \in opened, a \in rows : l = <<c, a>>
                BY <3>1 DEF LinksAreWhole
            <4>2. l[1] \in known[p] => l[2] \in Protected(p)
                BY <3>1, <4>1 DEF Protected
            <4>3. step'[p] = "links" /\ safe'[p] = Protected(p) /\ late' = late /\ step[p] = "incidents"
                BY <1>4 DEF ReadLinks, To, PurgeTypeOK
            <4> QED BY <3>1, <3>2, <4>2, <4>3 DEF Covered
        <3>3. CASE q # p
            BY <1>4, <3>1, <3>3 DEF ReadLinks, To, PurgeTypeOK, Covered
        <3> QED BY <3>2, <3>3
    <2> QED BY <2>1, <2>2, <2>3 DEF LinksAreCovered
<1>5. ASSUME NEW p \in Purgers, ReadOld(p) PROVE PurgeInv'
    <2>1. PurgeTypeOK'
        BY <1>5 DEF ReadOld, To, PurgeTypeOK
    <2>2. LinksAreWhole'
        BY <1>5 DEF ReadOld, tables, LinksAreWhole
    <2>3. ASSUME NEW q \in Purgers, protect'[q], NEW l \in caseLinks' PROVE Covered(q, l)'
        <3>1. l \in caseLinks /\ Covered(q, l)
            BY <1>5, <2>3 DEF ReadOld, tables, LinksAreCovered
        <3>2. CASE q = p
            BY <1>5, <3>1, <3>2 DEF ReadOld, To, PurgeTypeOK, Covered
        <3>3. CASE q # p
            BY <1>5, <3>1, <3>3 DEF ReadOld, To, PurgeTypeOK, Covered
        <3> QED BY <3>2, <3>3
    <2> QED BY <2>1, <2>2, <2>3 DEF LinksAreCovered
<1>6. ASSUME NEW p \in Purgers, DeleteOld(p) \/ SweepFiles(p) PROVE PurgeInv'
    <2>1. /\ caseLinks' = caseLinks /\ opened' = opened /\ rows' = rows
          /\ UNCHANGED <<protect, known, safe, doomed, late>>
          /\ step[p] \in {"old", "deleted"}
          /\ \E to \in {"deleted", "swept"} : step' = [step EXCEPT ![p] = to]
        BY <1>6 DEF DeleteOld, SweepFiles, To, tables
    <2>2. PurgeTypeOK'
        BY <2>1 DEF PurgeTypeOK
    <2>3. LinksAreWhole'
        BY <2>1 DEF LinksAreWhole
    <2>4. LinksAreCovered'
        BY <2>1 DEF PurgeTypeOK, LinksAreCovered, Covered
    <2> QED BY <2>2, <2>3, <2>4
<1>7. ASSUME NEW p \in Purgers, CommitPurge(p) PROVE PurgeInv'
    <2>1. LinksAreWhole'
        BY <1>7 DEF CommitPurge, LinksAreWhole
    <2> QED BY <1>7, <2>1, ClearedKeeps DEF CommitPurge
<1>8. ASSUME NEW p \in Purgers, AbortPurge(p) PROVE PurgeInv'
    <2>1. LinksAreWhole'
        BY <1>8 DEF AbortPurge, tables, LinksAreWhole
    <2> QED BY <1>8, <2>1, ClearedKeeps DEF AbortPurge, tables
<1>9. CASE CleanFiles
    BY <1>9 DEF CleanFiles, purge, PurgeTypeOK, LinksAreWhole, LinksAreCovered, Covered
<1>10. CASE UNCHANGED purgeVars
    BY <1>10 DEF purgeVars, tables, purge, PurgeTypeOK, LinksAreWhole, LinksAreCovered, Covered
<1> QED BY <1>1, <1>2, <1>3, <1>4, <1>5, <1>6, <1>7, <1>8, <1>9, <1>10
        DEF RetentionNext, PurgeStep

LEMMA PurgeEnds ==
    ASSUME PurgeInv, [RetentionNext]_purgeVars, NEW p \in Purgers,
           protect[p], step[p] = "swept", step'[p] = "none"
    PROVE  caseLinks \ caseLinks' \subseteq late[p]
<1>1. CASE caseLinks \subseteq caseLinks'
    BY <1>1
<1>2. ASSUME NEW q \in Purgers, CommitPurge(q) PROVE caseLinks \ caseLinks' \subseteq late[p]
    <2>1. q = p
        BY <1>2 DEF CommitPurge, Cleared, To, PurgeInv, PurgeTypeOK
    <2> QED BY <1>2, <2>1 DEF CommitPurge, PurgeInv, LinksAreCovered, Covered
<1>3. ASSUME ~(\E q \in Purgers : CommitPurge(q)) PROVE caseLinks \subseteq caseLinks'
    BY <1>3 DEF RetentionNext, PurgeStep, StoreAlert, SaveIncident, CleanFiles, BeginPurge,
       ReadLinks, ReadOld, DeleteOld, SweepFiles, AbortPurge, tables, purgeVars
<1> QED BY <1>1, <1>2, <1>3

(* However many purges run next to the incident job: a protecting purge      *)
(* takes only links made after it had started.                               *)
THEOREM ProtectionHasOneGap == RetentionSpec => OnlyLateLinksAreCut
<1>1. PurgeInv /\ [RetentionNext]_purgeVars =>
        [\A p \in Purgers :
            (protect[p] /\ step[p] = "swept" /\ step'[p] = "none")
                => caseLinks \ caseLinks' \subseteq late[p]]_purgeVars
    BY PurgeEnds
<1> QED BY <1>1, RetentionInitOK, RetentionStep, PTL DEF RetentionSpec, OnlyLateLinksAreCut

-------------------------------------------------------------------------------
(* Accounts and keys *)

KeyOps == {"create", "disable", "enable", "revoke", "delete"}
KeyRows == [here : BOOLEAN, active : BOOLEAN, revoked : BOOLEAN,
            secret : {"none", "issued", "junk"}, by : Users \cup {0, First}]

AccessTypeOK ==
    /\ key \in [Keys -> KeyRows]
    /\ agentKey \in [AgentKeys -> [status : {"none", "active", "revoked", "expired"},
                                   overdue : BOOLEAN]]
    /\ DOMAIN seat = Sessions
    /\ \A s \in Sessions : seat[s].op = "create" => seat[s].by \in Users

(* A key that was shut cannot be accepted, whatever row a request holds.     *)
ShutKeysAreDead ==
    /\ \A k \in Keys : /\ key[k].revoked => key[k].secret = "junk"
                       /\ <<"key", k>> \in shut => key[k].secret # "issued"
    /\ \A a \in AgentKeys :
         <<"agent", a>> \in shut => agentKey[a].status \in {"revoked", "expired"}

NobodyIsLate == \A s \in Sessions : seat[s].op \in {"post", "validate"} => ~seat[s].late

AccessInv == AccessTypeOK /\ ShutKeysAreDead /\ NobodyIsLate /\ ShutStaysShut

LEMMA AccessInitOK == AccessInit => AccessInv
<1> SUFFICES ASSUME AccessInit PROVE AccessInv
    OBVIOUS
<1>1. \A active \in BOOLEAN : NewKey(active, First) \in KeyRows
    BY DEF NewKey, KeyRows
<1>2. AccessTypeOK
    BY <1>1 DEF AccessInit, AccessTypeOK, Nobody
<1>3. ShutKeysAreDead
    BY DEF AccessInit, ShutKeysAreDead, NewKey
<1> QED BY <1>2, <1>3 DEF AccessInit, AccessInv, NobodyIsLate, ShutStaysShut, Nobody

LEMMA TakeKeeps ==
    ASSUME AccessInv, NEW s \in Sessions, NEW record, Take(s, record),
           record.op = "create" => record.by \in Users,
           record.op \in {"post", "validate"} => ~record.late
    PROVE  AccessInv'
<1>1. AccessTypeOK'
    BY DEF AccessInv, AccessTypeOK, Take
<1>2. ShutKeysAreDead'
    BY DEF AccessInv, ShutKeysAreDead, Take
<1>3. NobodyIsLate'
    BY DEF AccessInv, AccessTypeOK, NobodyIsLate, Take
<1> QED BY <1>1, <1>2, <1>3 DEF AccessInv, ShutStaysShut, Take

LEMMA LeaveKeeps ==
    ASSUME AccessInv, NEW s \in Sessions, Leave(s)
    PROVE  /\ NobodyIsLate'
           /\ DOMAIN seat' = Sessions
           /\ \A t \in Sessions : seat'[t].op = "create" => seat'[t].by \in Users
BY DEF AccessInv, AccessTypeOK, NobodyIsLate, Leave, Nobody

(* What an operation on a key leaves of its row. *)
LEMMA KeyAfterOK ==
    ASSUME AccessInv, NEW s \in Sessions, seat[s].op \in KeyOps, seat[s].id \in Keys,
           seat[s].op = "create" => <<"key", seat[s].id>> \notin shut
    PROVE  /\ KeyAfter(seat[s]) \in KeyRows
           /\ KeyAfter(seat[s]).revoked => KeyAfter(seat[s]).secret = "junk"
           /\ <<"key", seat[s].id>> \in shut => KeyAfter(seat[s]).secret # "issued"
<1> DEFINE r == seat[s]
           now == key[seat[s].id]
<1>1. /\ now \in KeyRows
      /\ now.revoked => now.secret = "junk"
      /\ <<"key", r.id>> \in shut => now.secret # "issued"
    BY DEF AccessInv, AccessTypeOK, ShutKeysAreDead
<1>2. CASE KeyAfter(r) = now
    BY <1>1, <1>2
<1>3. CASE r.op = "create" /\ KeyAfter(r) = NewKey(TRUE, r.by)
    <2>1. r.by \in Users
        BY <1>3 DEF AccessInv, AccessTypeOK
    <2> QED BY <1>3, <2>1 DEF NewKey, KeyRows
<1>4. CASE KeyAfter(r) = NoKey
    BY <1>4 DEF NoKey, KeyRows
<1>5. CASE KeyAfter(r) = Enabled1(r.row, now) \/ KeyAfter(r) = Disabled1(r.row, now)
    <2>1. ASSUME NEW on \in BOOLEAN, KeyAfter(r) = [now EXCEPT !.active = on]
          PROVE  /\ KeyAfter(r) \in KeyRows
                 /\ KeyAfter(r).revoked = now.revoked /\ KeyAfter(r).secret = now.secret
        BY <1>1, <2>1 DEF KeyRows
    <2>2. \/ KeyAfter(r) = now
          \/ KeyAfter(r) = [now EXCEPT !.active = TRUE]
          \/ KeyAfter(r) = [now EXCEPT !.active = FALSE]
        BY <1>5 DEF Enabled1, Disabled1
    <2> QED BY <1>1, <2>1, <2>2
<1>6. CASE KeyAfter(r) = Revoked1(r.row, now)
    <2> DEFINE off == Disabled1(r.row, now)
    <2>1. off \in KeyRows
        <3>1. [now EXCEPT !.active = FALSE] \in KeyRows
            BY <1>1 DEF KeyRows
        <3> QED BY <1>1, <3>1 DEF Disabled1
    <2>2. KeyAfter(r) = [off EXCEPT !.revoked = TRUE, !.secret = "junk"]
        BY <1>6 DEF Revoked1
    <2> HIDE DEF off
    <2>3. KeyAfter(r) \in KeyRows /\ KeyAfter(r).secret = "junk"
        BY <2>1, <2>2 DEF KeyRows
    <2> QED BY <2>3
<1>7. r.op \in {"create", "delete", "enable", "disable", "revoke"}
    BY DEF KeyOps
<1>8. r.op = "create" => KeyAfter(r) = now \/ KeyAfter(r) = NewKey(TRUE, r.by)
    BY DEF KeyAfter
<1>9. r.op # "create" =>
        \/ KeyAfter(r) = now \/ KeyAfter(r) = NoKey
        \/ KeyAfter(r) = Enabled1(r.row, now) \/ KeyAfter(r) = Disabled1(r.row, now)
        \/ KeyAfter(r) = Revoked1(r.row, now)
    BY <1>7 DEF KeyAfter
<1> QED BY <1>2, <1>3, <1>4, <1>5, <1>6, <1>8, <1>9

LEMMA AccessStep == AccessInv /\ [AccessNext]_AccessVars => AccessInv'
<1> SUFFICES ASSUME AccessInv, [AccessNext]_AccessVars PROVE AccessInv'
    OBVIOUS
<1> USE DEF AccessInv
<1>1. ASSUME NEW s \in Sessions, BeginKeyOp(s) \/ BeginUserOp(s) \/ BeginRegister(s) \/ BeginBeat(s)
      PROVE  AccessInv'
    <2>1. CASE BeginKeyOp(s)
        <3>1. PICK op \in KeyOps, u \in Users, k \in Keys :
                  Take(s, [op |-> op, by |-> u, id |-> k, row |-> key[k]])
            BY <2>1 DEF BeginKeyOp, KeyOps
        <3> QED BY <3>1, TakeKeeps DEF KeyOps
    <2>2. CASE BeginUserOp(s)
        <3>1. PICK op \in {"new", "update", "password", "remove"}, u \in Users, v \in Users :
                  Take(s, [op |-> op, by |-> u, id |-> v, row |-> user[v]])
            BY <2>2 DEF BeginUserOp
        <3> QED BY <3>1, TakeKeeps
    <2>3. CASE BeginRegister(s)
        <3>1. PICK v \in Users : Take(s, [op |-> "register", id |-> v])
            BY <2>3 DEF BeginRegister
        <3> QED BY <3>1, TakeKeeps
    <2>4. CASE BeginBeat(s)
        <3>1. PICK h \in Hosts : Take(s, [op |-> "beat", host |-> h, found |-> registry[h] > 0])
            BY <2>4 DEF BeginBeat
        <3> QED BY <3>1, TakeKeeps
    <2> QED BY <1>1, <2>1, <2>2, <2>3, <2>4
<1>2. ASSUME NEW s \in Sessions, BeginPost(s) PROVE AccessInv'
    <2>1. PICK k \in Keys, h \in Hosts :
              /\ key[k].secret = "issued"
              /\ Take(s, [op |-> "post", id |-> k, host |-> h, late |-> <<"key", k>> \in shut])
        BY <1>2 DEF BeginPost
    <2>2. <<"key", k>> \notin shut
        BY <2>1 DEF ShutKeysAreDead
    <2> QED BY <2>1, <2>2, TakeKeeps
<1>3. ASSUME NEW s \in Sessions, BeginValidate(s) PROVE AccessInv'
    <2>1. PICK a \in AgentKeys :
              /\ agentKey[a].status = "active"
              /\ Take(s, [op |-> "validate", id |-> a, row |-> agentKey[a],
                          late |-> <<"agent", a>> \in shut])
        BY <1>3 DEF BeginValidate
    <2>2. <<"agent", a>> \notin shut
        BY <2>1 DEF ShutKeysAreDead
    <2> QED BY <2>1, <2>2, TakeKeeps
<1>4. ASSUME NEW s \in Sessions, EndKeyOp(s) PROVE AccessInv'
    <2> DEFINE r == seat[s]
    <2>1. ASSUME NEW k \in Keys, k # r.id PROVE key'[k] = key[k] /\ (<<"key", k>> \in shut' => <<"key", k>> \in shut)
        BY <1>4, <2>1 DEF EndKeyOp, AccessTypeOK
    <2>2. ASSUME r.id \in Keys
          PROVE  key'[r.id] = KeyAfter(r) /\ KeyAfter(r) \in KeyRows
                 /\ (KeyAfter(r).revoked => KeyAfter(r).secret = "junk")
                 /\ (<<"key", r.id>> \in shut' => KeyAfter(r).secret # "issued")
        <3>1. key'[r.id] = KeyAfter(r) /\ r.op \in KeyOps
              /\ (r.op = "create" => <<"key", r.id>> \notin shut)
            BY <1>4, <2>2 DEF EndKeyOp, AccessTypeOK, KeyOps
        <3>2. KeyAfter(r) \in KeyRows
              /\ (KeyAfter(r).revoked => KeyAfter(r).secret = "junk")
              /\ (<<"key", r.id>> \in shut => KeyAfter(r).secret # "issued")
            BY <2>2, <3>1, KeyAfterOK
        <3>3. <<"key", r.id>> \in shut' => <<"key", r.id>> \in shut \/ KeyAfter(r).revoked
            BY <1>4 DEF EndKeyOp
        <3> QED BY <3>1, <3>2, <3>3
    <2>3. key' \in [Keys -> KeyRows]
        <3>1. DOMAIN key' = Keys /\ key' = [k \in Keys |-> key'[k]]
            BY <1>4 DEF EndKeyOp, AccessTypeOK
        <3>2. \A k \in Keys : key'[k] \in KeyRows
            BY <2>1, <2>2 DEF AccessTypeOK
        <3> QED BY <3>1, <3>2
    <2>4. Leave(s) /\ UNCHANGED <<agentKey, intruded>>
        BY <1>4 DEF EndKeyOp
    <2>5. \A a \in AgentKeys : <<"agent", a>> \in shut' => <<"agent", a>> \in shut
        BY <1>4 DEF EndKeyOp
    <2>6. ShutKeysAreDead'
        BY <2>1, <2>2, <2>4, <2>5 DEF ShutKeysAreDead
    <2>7. AccessTypeOK'
        BY <2>3, <2>4, LeaveKeeps DEF AccessTypeOK
    <2> QED BY <2>4, <2>6, <2>7, LeaveKeeps DEF ShutStaysShut
<1>5. ASSUME NEW s \in Sessions, EndUserOp(s) \/ EndBeat(s) PROVE AccessInv'
    <2>1. Leave(s) /\ UNCHANGED <<key, agentKey, shut, intruded>>
        BY <1>5 DEF EndUserOp, EndBeat
    <2>2. AccessTypeOK' /\ NobodyIsLate'
        BY <2>1, LeaveKeeps DEF AccessTypeOK
    <2> QED BY <2>1, <2>2 DEF ShutKeysAreDead, ShutStaysShut
<1>6. CASE RestartApi
    BY <1>6 DEF RestartApi, AccessTypeOK, ShutKeysAreDead, NobodyIsLate, ShutStaysShut, Nobody
<1>7. ASSUME NEW s \in Sessions, EndPost(s) PROVE AccessInv'
    <2>1. Leave(s) /\ UNCHANGED <<key, agentKey, shut>> /\ ~seat[s].late /\ intruded' = intruded
        BY <1>7 DEF EndPost, NobodyIsLate
    <2>2. AccessTypeOK' /\ NobodyIsLate'
        BY <2>1, LeaveKeeps DEF AccessTypeOK
    <2> QED BY <2>1, <2>2 DEF ShutKeysAreDead, ShutStaysShut
<1>8. ASSUME NEW s \in Sessions, EndValidate(s) PROVE AccessInv'
    <2>1. Leave(s) /\ UNCHANGED key /\ ~seat[s].late /\ intruded' = intruded
        BY <1>8 DEF EndValidate, NobodyIsLate
    <2>2. \/ UNCHANGED <<agentKey, shut>>
          \/ /\ agentKey' = [agentKey EXCEPT ![seat[s].id].status = "expired"]
             /\ shut' = shut \cup {<<"agent", seat[s].id>>}
        BY <1>8 DEF EndValidate
    <2>3. AccessTypeOK'
        BY <2>1, <2>2, LeaveKeeps DEF AccessTypeOK
    <2>4. ShutKeysAreDead'
        BY <2>1, <2>2 DEF ShutKeysAreDead, AccessTypeOK
    <2> QED BY <2>1, <2>3, <2>4, LeaveKeeps DEF ShutStaysShut
<1>9. ASSUME NEW a \in AgentKeys, CreateAgentKey(a) \/ RevokeAgentKey(a) \/ Overdue(a)
      PROVE  AccessInv'
    <2>1. UNCHANGED <<key, seat, intruded>>
        BY <1>9 DEF CreateAgentKey, RevokeAgentKey, Overdue
    <2>2. AccessTypeOK'
        BY <1>9, <2>1 DEF CreateAgentKey, RevokeAgentKey, RevokedAgentKey, Overdue, AccessTypeOK
    <2>3. ShutKeysAreDead'
        BY <1>9, <2>1 DEF CreateAgentKey, RevokeAgentKey, RevokedAgentKey, Overdue,
                          AccessTypeOK, ShutKeysAreDead
    <2> QED BY <2>1, <2>2, <2>3 DEF NobodyIsLate, ShutStaysShut
<1>10. CASE UNCHANGED AccessVars
    BY <1>10 DEF AccessVars, AccessTypeOK, ShutKeysAreDead, NobodyIsLate, ShutStaysShut
<1> QED BY <1>1, <1>2, <1>3, <1>4, <1>5, <1>6, <1>7, <1>8, <1>9, <1>10 DEF AccessNext

(* For any number of requests at work on any keys: a key that was revoked or *)
(* found expired is never accepted again.                                    *)
THEOREM RevokedKeysStayOut == AccessSpec => []ShutStaysShut
<1>1. AccessInv => ShutStaysShut
    BY DEF AccessInv
<1> QED BY <1>1, AccessInitOK, AccessStep, PTL DEF AccessSpec

-------------------------------------------------------------------------------
(* The ingestion API *)

CallTypeOK(r) ==
    r = Free \/ (/\ r \in [kind : {"batch", "event"}, todo : Seq(Items),
                           acked : SUBSET Items, asked : SUBSET Items])

IngestTypeOK ==
    /\ inStream \in [Items -> Nat] /\ expired \in [Items -> Nat]
    /\ buffered \subseteq Items /\ recent \subseteq Items
    /\ DOMAIN call = Calls
    /\ \A c \in Calls : CallTypeOK(call[c])

(* An id is in the window or has left it as often as its event was stored.   *)
WindowsBoundCopies ==
    \A e \in Items : /\ inStream[e] <= expired[e] + (IF e \in recent THEN 1 ELSE 0)
                     /\ e \in recent => inStream[e] >= 1

AcksAreStored ==
    \A c \in Calls : call[c] # Free => \A e \in call[c].acked : inStream[e] >= 1

IngestInv == IngestTypeOK /\ WindowsBoundCopies /\ AcksAreStored /\ AcceptedOnceStored

LEMMA IngestInitOK == IngestInit => IngestInv
BY DEF IngestInit, IngestInv, IngestTypeOK, CallTypeOK, WindowsBoundCopies, AcksAreStored,
       AcceptedOnceStored

(* Storing under the window's protection. *)
LEMMA StoringKeeps ==
    ASSUME IngestInv, NEW S \in SUBSET Items, inStream' = Store(S), recent' = recent \cup S,
           UNCHANGED <<expired, promised>>
    PROVE  /\ inStream' \in [Items -> Nat] /\ recent' \subseteq Items
           /\ \A e \in Items : inStream[e] <= inStream'[e]
           /\ \A e \in S : inStream'[e] >= 1
           /\ WindowsBoundCopies'
           /\ AcceptedOnceStored'
<1>1. inStream' \in [Items -> Nat] /\ recent' \subseteq Items
    BY DEF IngestInv, IngestTypeOK, Store
<1>2. \A e \in Items : inStream'[e] = IF e \in S \ recent THEN inStream[e] + 1 ELSE inStream[e]
    BY DEF Store
<1>3. \A e \in Items : inStream[e] <= inStream'[e]
    BY <1>2 DEF IngestInv, IngestTypeOK
<1>4. \A e \in S : inStream'[e] >= 1
    BY <1>2 DEF IngestInv, IngestTypeOK, WindowsBoundCopies
<1>5. WindowsBoundCopies'
    BY <1>2 DEF IngestInv, IngestTypeOK, WindowsBoundCopies
<1>6. AcceptedOnceStored'
    BY <1>2, <1>5 DEF IngestInv, IngestTypeOK, WindowsBoundCopies, AcceptedOnceStored
<1> QED BY <1>1, <1>3, <1>4, <1>5, <1>6

(* A step that stores nothing. *)
LEMMA NotStoringKeeps ==
    ASSUME IngestInv, UNCHANGED <<inStream, recent, expired>>
    PROVE  /\ WindowsBoundCopies'
           /\ (\A e \in Items : e \in promised' => inStream[e] >= 1) => AcceptedOnceStored'
BY DEF IngestInv, IngestTypeOK, WindowsBoundCopies, AcceptedOnceStored

(* A request that goes on to its next event. *)
LEMMA AdvanceKeeps ==
    ASSUME IngestInv, NEW c \in Calls, NEW ack \in BOOLEAN, Waiting(c), Advance(c, ack),
           \A e \in Items : inStream[e] <= inStream'[e],
           inStream' \in [Items -> Nat],
           ack => inStream'[NextItem(c)] >= 1
    PROVE  NextItem(c) \in Items /\ DOMAIN call' = Calls /\ (\A d \in Calls : CallTypeOK(call'[d]))
           /\ AcksAreStored'
<1>1. /\ call[c] \in [kind : {"batch", "event"}, todo : Seq(Items),
                      acked : SUBSET Items, asked : SUBSET Items]
      /\ call[c].todo # <<>> /\ call[c] # Free
    BY DEF Waiting, IngestInv, IngestTypeOK, CallTypeOK
<1>2. NextItem(c) \in Items /\ Tail(call[c].todo) \in Seq(Items)
    BY <1>1 DEF NextItem
<1>3. Acked(c, ack) \in SUBSET Items /\ \A e \in Acked(c, ack) : inStream'[e] >= 1
    BY <1>1, <1>2 DEF Acked, IngestInv, IngestTypeOK, AcksAreStored
<1>4. call'[c] = [call[c] EXCEPT !.todo = Tail(call[c].todo), !.acked = Acked(c, ack)]
    BY DEF Advance, IngestInv, IngestTypeOK
<1>5. CallTypeOK(call'[c]) /\ call'[c].acked = Acked(c, ack)
    BY <1>1, <1>2, <1>3, <1>4 DEF CallTypeOK
<1>6. \A d \in Calls \ {c} : call'[d] = call[d]
    BY DEF Advance, IngestInv, IngestTypeOK
<1>7. \A d \in Calls : CallTypeOK(call'[d])
    BY <1>5, <1>6 DEF IngestInv, IngestTypeOK
<1>8. ASSUME NEW d \in Calls, call'[d] # Free, NEW e \in call'[d].acked PROVE inStream'[e] >= 1
    <2>1. CASE d = c
        BY <1>3, <1>5, <1>8, <2>1
    <2>2. CASE d # c
        BY <1>6, <1>8, <2>2 DEF IngestInv, IngestTypeOK, CallTypeOK, AcksAreStored
    <2> QED BY <2>1, <2>2
<1>9. DOMAIN call' = Calls
    BY DEF Advance, IngestInv, IngestTypeOK
<1> QED BY <1>2, <1>7, <1>8, <1>9 DEF AcksAreStored

LEMMA IngestStep == IngestInv /\ [IngestNext]_IngestVars => IngestInv'
<1> SUFFICES ASSUME IngestInv, [IngestNext]_IngestVars PROVE IngestInv'
    OBVIOUS
<1> USE DEF IngestInv
<1>1. ASSUME NEW e \in Items, LeaveWindow(e) PROVE IngestInv'
    <2>1. IngestTypeOK'
        BY <1>1 DEF LeaveWindow, IngestTypeOK
    <2>2. WindowsBoundCopies'
        BY <1>1 DEF LeaveWindow, IngestTypeOK, WindowsBoundCopies
    <2>3. AcksAreStored'
        BY <1>1 DEF LeaveWindow, AcksAreStored
    <2>4. AcceptedOnceStored'
        BY <1>1 DEF LeaveWindow, IngestTypeOK, AcceptedOnceStored
    <2> QED BY <2>1, <2>2, <2>3, <2>4
<1>2. ASSUME UNCHANGED <<call, inStream, recent, promised, expired>>, buffered' \subseteq Items
      PROVE  IngestInv'
    <2>1. IngestTypeOK'
        BY <1>2 DEF IngestTypeOK
    <2>2. AcksAreStored'
        BY <1>2 DEF AcksAreStored
    <2> QED BY <1>2, <2>1, <2>2, NotStoringKeeps DEF AcceptedOnceStored
<1>3. CASE Break \/ BrokerBack \/ GiveUp
    BY <1>2, <1>3 DEF Break, BrokerBack, GiveUp, IngestTypeOK
<1>4. CASE Reconnect
    <2>1. /\ inStream' = Store(buffered) /\ recent' = recent \cup buffered
          /\ UNCHANGED <<expired, promised, call>> /\ buffered' = {}
        BY <1>4 DEF Reconnect
    <2>2. /\ inStream' \in [Items -> Nat] /\ recent' \subseteq Items
          /\ \A e \in Items : inStream[e] <= inStream'[e]
          /\ WindowsBoundCopies' /\ AcceptedOnceStored'
        BY <2>1, StoringKeeps DEF IngestTypeOK
    <2>3. IngestTypeOK'
        BY <2>1, <2>2 DEF IngestTypeOK
    <2>4. AcksAreStored'
        BY <2>1, <2>2 DEF AcksAreStored, IngestTypeOK, CallTypeOK
    <2> QED BY <2>2, <2>3, <2>4
<1>5. ASSUME NEW c \in Calls, NEW r, CallTypeOK(r), r # Free => r.acked = {},
             call' = [call EXCEPT ![c] = r],
             UNCHANGED <<inStream, recent, expired, buffered>>,
             \A e \in Items : e \in promised' => inStream[e] >= 1
      PROVE  IngestInv'
    <2>1. IngestTypeOK'
        BY <1>5 DEF IngestTypeOK
    <2>2. AcksAreStored'
        BY <1>5 DEF AcksAreStored, IngestTypeOK
    <2> QED BY <1>5, <2>1, <2>2, NotStoringKeeps
<1>6. ASSUME NEW c \in Calls, PostBatch(c) PROVE IngestInv'
    <2>1. PICK b \in Batches :
            \/ UNCHANGED call
            \/ call' = [call EXCEPT ![c] = [kind |-> "batch", todo |-> b, acked |-> {},
                                            asked |-> {b[i] : i \in DOMAIN b}]]
        BY <1>6 DEF PostBatch
    <2>2. UNCHANGED <<inStream, recent, expired, buffered, promised>>
        BY <1>6 DEF PostBatch
    <2>3. b \in Seq(Items) /\ {b[i] : i \in DOMAIN b} \subseteq Items
        BY IngestAssumption
    <2>4. CallTypeOK([kind |-> "batch", todo |-> b, acked |-> {}, asked |-> {b[i] : i \in DOMAIN b}])
        BY <2>3 DEF CallTypeOK
    <2>5. CASE UNCHANGED call
        BY <1>2, <2>2, <2>5 DEF IngestTypeOK
    <2>6. CASE call' = [call EXCEPT ![c] = [kind |-> "batch", todo |-> b, acked |-> {},
                                            asked |-> {b[i] : i \in DOMAIN b}]]
        BY <1>5, <2>2, <2>4, <2>6 DEF AcceptedOnceStored
    <2> QED BY <2>1, <2>5, <2>6
<1>7. ASSUME NEW c \in Calls, PostEvent(c) PROVE IngestInv'
    <2>1. PICK e \in Items :
            call' = [call EXCEPT ![c] = [kind |-> "event", todo |-> <<e>>, acked |-> {}, asked |-> {e}]]
        BY <1>7 DEF PostEvent
    <2>2. CallTypeOK([kind |-> "event", todo |-> <<e>>, acked |-> {}, asked |-> {e}])
        BY DEF CallTypeOK
    <2> QED BY <1>5, <1>7, <2>1, <2>2 DEF PostEvent, AcceptedOnceStored
<1>8. ASSUME NEW c \in Calls, Connect(c) PROVE IngestInv'
    BY <1>2, <1>8 DEF Connect, IngestTypeOK
<1>9. ASSUME NEW c \in Calls, Unavailable(c) PROVE IngestInv'
    BY <1>5, <1>9 DEF Unavailable, CallTypeOK, AcceptedOnceStored
<1>10. ASSUME NEW c \in Calls, Respond(c) PROVE IngestInv'
    <2>1. \A e \in Items : e \in promised' => inStream[e] >= 1
        BY <1>10 DEF Respond, AcksAreStored, AcceptedOnceStored
    <2> QED BY <1>5, <1>10, <2>1 DEF Respond, CallTypeOK
<1>11. ASSUME NEW c \in Calls, PublishOpen(c) PROVE IngestInv'
    <2>1. Waiting(c) /\ UNCHANGED <<expired, promised, buffered>>
        BY <1>11 DEF PublishOpen
    <2>2. NextItem(c) \in Items
        BY <2>1 DEF NextItem, Waiting, IngestTypeOK, CallTypeOK
    <2>3. CASE UNCHANGED <<inStream, recent>> /\ Advance(c, FALSE)
        <3>1. DOMAIN call' = Calls /\ (\A d \in Calls : CallTypeOK(call'[d])) /\ AcksAreStored'
            <4>1. inStream' \in [Items -> Nat] /\ \A e \in Items : inStream[e] <= inStream'[e]
                BY <2>3 DEF IngestTypeOK
            <4> QED BY <2>1, <2>3, <4>1, AdvanceKeeps
        <3>2. IngestTypeOK'
            BY <2>1, <2>3, <3>1 DEF IngestTypeOK
        <3> QED BY <2>1, <2>3, <3>1, <3>2, NotStoringKeeps DEF AcceptedOnceStored
    <2>4. CASE /\ inStream' = Store({NextItem(c)}) /\ recent' = recent \cup {NextItem(c)}
               /\ Advance(c, TRUE) \/ Advance(c, FALSE)
        <3>1. /\ inStream' \in [Items -> Nat] /\ recent' \subseteq Items
              /\ \A e \in Items : inStream[e] <= inStream'[e]
              /\ inStream'[NextItem(c)] >= 1
              /\ WindowsBoundCopies' /\ AcceptedOnceStored'
            BY <2>1, <2>2, <2>4, StoringKeeps
        <3>2. DOMAIN call' = Calls /\ (\A d \in Calls : CallTypeOK(call'[d])) /\ AcksAreStored'
            BY <2>1, <2>4, <3>1, AdvanceKeeps
        <3>3. IngestTypeOK'
            BY <2>1, <3>1, <3>2 DEF IngestTypeOK
        <3> QED BY <3>1, <3>2, <3>3
    <2> QED BY <1>11, <2>3, <2>4 DEF PublishOpen
<1>12. ASSUME NEW c \in Calls, PublishLost(c) PROVE IngestInv'
    <2>1. Waiting(c) /\ Advance(c, FALSE) /\ UNCHANGED <<inStream, recent, expired, promised>>
        BY <1>12 DEF PublishLost
    <2>2. NextItem(c) \in Items /\ DOMAIN call' = Calls /\ (\A d \in Calls : CallTypeOK(call'[d]))
          /\ AcksAreStored'
        <3>1. inStream' \in [Items -> Nat] /\ \A e \in Items : inStream[e] <= inStream'[e]
            BY <2>1 DEF IngestTypeOK
        <3> QED BY <2>1, <3>1, AdvanceKeeps
    <2>3. IngestTypeOK'
        BY <1>12, <2>1, <2>2 DEF PublishLost, IngestTypeOK
    <2> QED BY <2>1, <2>2, <2>3, NotStoringKeeps DEF AcceptedOnceStored
<1>13. CASE UNCHANGED IngestVars
    BY <1>2, <1>13 DEF IngestVars, IngestTypeOK
<1> QED BY <1>1, <1>3, <1>4, <1>6, <1>7, <1>8, <1>9, <1>10, <1>11, <1>12, <1>13 DEF IngestNext

(* For any clients, batches and breaks of the link: an accepted event is in  *)
(* the stream, and there again only for an expiry of its id.                 *)
THEOREM AcceptedIsStored == IngestSpec => []AcceptedOnceStored
<1>1. IngestInv => AcceptedOnceStored
    BY DEF IngestInv
<1> QED BY <1>1, IngestInitOK, IngestStep, PTL DEF IngestSpec

(* The stream takes nothing back, and what was called accepted stays so.    *)
LEMMA StreamKeeps ==
    ASSUME IngestInv, [IngestNext]_IngestVars
    PROVE  promised \subseteq promised' /\ \A e \in Items : inStream[e] <= inStream'[e]
<1>1. CASE UNCHANGED inStream
    <2>1. promised \subseteq promised'
        BY DEF IngestNext, IngestVars, LeaveWindow, Break, BrokerBack, Reconnect, GiveUp, PostBatch,
               PostEvent, Connect, Unavailable, PublishOpen, PublishLost, Respond
    <2> QED BY <1>1, <2>1 DEF IngestInv, IngestTypeOK
<1>2. ASSUME NEW S, inStream' = Store(S) PROVE \A e \in Items : inStream[e] <= inStream'[e]
    BY <1>2 DEF Store, IngestInv, IngestTypeOK
<1>3. CASE Reconnect
    BY <1>2, <1>3 DEF Reconnect
<1>4. ASSUME NEW c \in Calls, PublishOpen(c), ~UNCHANGED inStream
      PROVE  promised \subseteq promised' /\ \A e \in Items : inStream[e] <= inStream'[e]
    BY <1>2, <1>4 DEF PublishOpen
<1>5. CASE ~UNCHANGED inStream
    BY <1>3, <1>4, <1>5
       DEF IngestNext, IngestVars, LeaveWindow, Break, BrokerBack, GiveUp, PostBatch,
           PostEvent, Connect, Unavailable, PublishLost, Respond
<1> QED BY <1>1, <1>5

(* Only events are promised.                                                 *)
LEMMA PromisesAreOfEvents ==
    ASSUME IngestInv, promised \subseteq Items, [IngestNext]_IngestVars
    PROVE  promised' \subseteq Items
<1>1. ASSUME NEW c \in Calls, Respond(c) PROVE promised' \subseteq Items
    BY <1>1 DEF Respond, IngestInv, IngestTypeOK, CallTypeOK
<1> QED
    BY <1>1 DEF IngestNext, IngestVars, LeaveWindow, Break, BrokerBack, Reconnect, GiveUp, PostBatch,
                PostEvent, Connect, Unavailable, PublishOpen, PublishLost

(* The API keeps the contract of everything that hands events on, with its  *)
(* clients in the place of the stream: what it calls accepted is stored      *)
(* before, and stays, whatever the link does in the middle of a batch.       *)
THEOREM AcceptanceKeepsContract == IngestSpec => GateKeepsContract
<1> DEFINE Held == {e \in Items : inStream[e] >= 1}
           Promises == IngestInv /\ promised \subseteq Items
<1>1. IngestInit => GateContract!Init /\ Promises
  <2> SUFFICES ASSUME IngestInit PROVE GateContract!Init /\ Promises
      OBVIOUS
  <2>1. Held = {} /\ promised = {}
      BY DEF IngestInit
  <2> QED
      BY <2>1, IngestInitOK DEF GateContract!Init
<1>2. Promises /\ [IngestNext]_IngestVars => Promises'
    BY IngestStep, PromisesAreOfEvents
<1>3. Promises /\ Promises' /\ [IngestNext]_IngestVars => [GateContract!Deliver]_<<Held, promised>>
  <2> SUFFICES ASSUME Promises, Promises', [IngestNext]_IngestVars PROVE GateContract!Deliver
      OBVIOUS
  <2>1. promised' = promised \cup promised' /\ Held' = Held \cup Held'
      BY StreamKeeps DEF IngestInv, IngestTypeOK
  <2>2. promised' \subseteq Held'
      BY DEF IngestInv, AcceptedOnceStored
  <2>3. promised' \in SUBSET Items /\ Held' \in SUBSET Items
      OBVIOUS
  <2> QED
      BY <2>1, <2>2, <2>3 DEF GateContract!Deliver
<1> QED
    BY <1>1, <1>2, <1>3, PTL DEF IngestSpec, GateKeepsContract, GateContract!Spec

-------------------------------------------------------------------------------
(* The log shipping agent *)

(* A set of positions has a first one.                                       *)
LEMMA MinOfPositions ==
    ASSUME NEW S \in SUBSET Nat, S # {}
    PROVE  Min(S) \in S /\ \A y \in S : Min(S) <= y
<1>1. \E x \in S : \A y \in S : ~(<<y, x>> \in OpToRel(<, Nat))
    BY WFMin, NatLessThanWellFounded
<1>2. \E x \in S : \A y \in S : x =< y
  <2>1. ASSUME NEW x \in Nat, NEW y \in Nat, y < x PROVE <<y, x>> \in OpToRel(<, Nat)
      BY <2>1 DEF OpToRel
  <2>2. ASSUME NEW x \in S, NEW y \in S, ~(<<y, x>> \in OpToRel(<, Nat)) PROVE x =< y
    <3>1. x \in Nat /\ y \in Nat /\ ~(y < x)
        BY <2>1, <2>2
    <3> QED BY <3>1
  <2> QED BY <1>1, <2>2
<1> QED BY <1>2 DEF Min

(* And a last one, when they are those of a file.                            *)
LEMMA MaxOfPositions ==
    ASSUME NEW n \in Nat, NEW S \in SUBSET (0 .. n), S # {}
    PROVE  Max(S) \in S /\ \A y \in S : y <= Max(S)
<1> DEFINE T == {n - x : x \in S}
<1>1. T \in SUBSET Nat /\ T # {}
  <2>1. \A x \in S : x \in Int /\ 0 <= x /\ x <= n
      OBVIOUS
  <2>2. \A x \in S : n - x \in Nat
      BY <2>1
  <2>3. PICK x \in S : TRUE
      OBVIOUS
  <2>4. n - x \in T
      BY <2>3
  <2> QED BY <2>2, <2>4
<1>2. Min(T) \in T /\ \A y \in T : Min(T) <= y
  <2> HIDE DEF T
  <2> QED BY <1>1, MinOfPositions
<1>3. PICK x \in S : Min(T) = n - x
    BY <1>2
<1>4. \A y \in S : x >= y
  <2> TAKE y \in S
  <2>1. n - y \in T
      OBVIOUS
  <2>2. n - x <= n - y
      BY <1>2, <1>3, <2>1
  <2> QED BY <2>2
<1> QED BY <1>4 DEF Max

(* The newlines of a range are positions of the file, and in the range.      *)
LEMMA LinesInFile ==
    ASSUME NEW a, NEW b
    PROVE  /\ NewlinesIn(a, b) \in SUBSET (0 .. MaxSize)
           /\ NewlinesIn(a, b) \subseteq Newlines
           /\ \A i \in NewlinesIn(a, b) : i \in Nat /\ a <= i /\ i < b
<1>1. MaxSize \in Nat /\ \A i \in Newlines : i \in 0 .. MaxSize - 1
    BY AgentAssumption
<1>2. \A i \in Newlines : i \in Nat /\ i \in 0 .. MaxSize
    BY <1>1
<1>3. \A i \in NewlinesIn(a, b) : i \in Newlines /\ a <= i /\ i < b
    BY DEF NewlinesIn
<1>4. \A i \in NewlinesIn(a, b) : i \in Nat /\ i \in 0 .. MaxSize
    BY <1>2, <1>3
<1>5. NewlinesIn(a, b) \subseteq 0 .. MaxSize
    BY <1>4
<1> QED BY <1>3, <1>4, <1>5

(* A file with more lines than the context has one with that many behind it. *)
LEMMA InitialOffsetIsInt == \A size \in Nat : InitialOffset(size) \in Int
<1> SUFFICES ASSUME NEW size \in Nat PROVE InitialOffset(size) \in Int
    OBVIOUS
<1> DEFINE start == IF size > FirstScan THEN size - FirstScan ELSE 0
           lines == NewlinesIn(start, size)
           Behind(i) == Cardinality({j \in lines : j > i})
           enough == {i \in lines : Behind(i) >= ContextLines}
<1>0. start \in Int /\ lines \in SUBSET (0 .. MaxSize) /\ MaxSize \in Nat /\ ContextLines \in Nat
    BY AgentAssumption, LinesInFile
<1>1. CASE lines = {}
    BY <1>1, AgentAssumption DEF InitialOffset
<1>2. CASE lines # {} /\ Cardinality(lines) <= ContextLines
    BY <1>0, <1>2 DEF InitialOffset
<1>3. CASE lines # {} /\ ~(Cardinality(lines) <= ContextLines)
  <2> DEFINE first == Min(lines)
  <2>1. first \in lines /\ \A y \in lines : first <= y
    <3> HIDE DEF lines
    <3> QED BY <1>0, <1>3, MinOfPositions
  <2>2. IsFiniteSet(lines)
    <3> HIDE DEF lines
    <3>1. IsFiniteSet(0 .. MaxSize)
        BY <1>0, FS_Interval
    <3> QED BY <1>0, <3>1, FS_Subset
  <2>3. {j \in lines : j > first} = lines \ {first}
    <3>1. \A y \in lines : y \in Int /\ first <= y /\ first \in Int
      <4> HIDE DEF lines, first
      <4> QED BY <1>0, <2>1
    <3>2. \A y \in lines : (y > first) <=> (y # first)
      <4> HIDE DEF lines, first
      <4> QED BY <3>1
    <3> HIDE DEF lines, first
    <3> QED BY <3>2
  <2>4. Cardinality(lines \ {first}) = Cardinality(lines) - 1 /\ Cardinality(lines) \in Nat
    <3> HIDE DEF lines, first
    <3> QED BY <2>1, <2>2, FS_RemoveElement, FS_CardinalityType
  <2>5. first \in enough
      BY <1>0, <1>3, <2>1, <2>3, <2>4
  <2>6. Max(enough) \in enough
    <3>1. enough \in SUBSET (0 .. MaxSize) /\ enough # {}
        BY <1>0, <2>5
    <3> HIDE DEF enough
    <3> QED BY <1>0, <3>1, MaxOfPositions
  <2>7. Max(enough) + 1 \in Int
    <3>1. Max(enough) \in lines
        BY <2>6
    <3>2. \A y \in lines : y \in Int /\ y + 1 \in Int
      <4> HIDE DEF lines
      <4> QED BY <1>0
    <3> HIDE DEF enough, lines, Behind
    <3> QED BY <3>1, <3>2
  <2> QED BY <1>3, <2>7 DEF InitialOffset
<1> QED BY <1>1, <1>2, <1>3

(* A cursor is set back to the start of a line, never forward.               *)
LEMMA AlignedCursor ==
    ASSUME NEW off \in Int
    PROVE  AlignCursor(off) \in Nat /\ (off >= 0 => AlignCursor(off) <= off)
<1> DEFINE back == NewlinesIn(off - ScanBack, off)
<1>1. CASE off <= 0 \/ back = {}
    BY <1>1 DEF AlignCursor
<1>2. CASE ~(off <= 0) /\ back # {}
  <2>1. Max(back) \in back
      BY <1>2, LinesInFile, MaxOfPositions, AgentAssumption
  <2>2. Max(back) \in Nat /\ Max(back) < off
      BY <2>1, LinesInFile
  <2> QED BY <1>2, <2>2 DEF AlignCursor
<1> QED BY <1>1, <1>2

(* A chunk ends between the cursor and the target.                           *)
LEMMA ChunkEnds ==
    ASSUME NEW cursor \in Nat, NEW proposed \in Nat, NEW target \in Nat, cursor <= target
    PROVE  ChooseEnd(cursor, proposed, target) \in Nat /\ ChooseEnd(cursor, proposed, target) <= target
<1> DEFINE end == IF proposed > target THEN target ELSE proposed
           from == IF end - ScanBack > cursor THEN end - ScanBack ELSE cursor
           to == IF end + ScanForward < target THEN end + ScanForward ELSE target
           back == NewlinesIn(from, end)
           forward == NewlinesIn(end, to)
<1>0. end \in Nat /\ end <= target /\ to \in Nat /\ to <= target
    BY AgentAssumption
<1>1. CASE end <= cursor \/ (back = {} /\ forward = {})
    BY <1>1 DEF ChooseEnd
<1>2. CASE ~(end <= cursor) /\ back # {}
  <2>1. Max(back) \in Nat /\ Max(back) < end
    <3>1. Max(back) \in back
        BY <1>2, LinesInFile, MaxOfPositions, AgentAssumption
    <3> QED BY <3>1, LinesInFile
  <2> QED BY <1>0, <1>2, <2>1 DEF ChooseEnd
<1>3. CASE ~(end <= cursor) /\ back = {} /\ forward # {}
  <2>1. Min(forward) \in Nat /\ Min(forward) < to
    <3>1. forward \in SUBSET Nat
        BY LinesInFile
    <3>2. Min(forward) \in forward
      <4> HIDE DEF forward
      <4> QED BY <1>3, <3>1, MinOfPositions
    <3> QED BY <3>2, LinesInFile
  <2> QED BY <1>0, <1>3, <2>1 DEF ChooseEnd
<1> QED BY <1>1, <1>2, <1>3

(* Bytes of the present file that the agent can account for.                 *)
Safe(i) ==
    LET b == <<file.gen, i>>
    IN  keeps[b] > 0 \/ b \in InSpool \cup refused \cup baseline \cup cut

SafeUpTo(n) == \A i \in 0 .. (n - 1) : Safe(i)

SpoolJobs ==
    [inode : Nat, start : Nat, end : 0 .. MaxSize, payload : (SUBSET Bytes) \cup {NoPayload}]

Writing == agent.phase \in {"chunk", "made", "moved"}
Sent == agent.phase \in {"acked", "acked2", "noted", "noted2"}

AgentShape ==
    /\ file \in [gen : 1 .. MaxGens, inode : Nat, size : 0 .. MaxSize]
    /\ saved \in [inode : Int, off : 0 .. MaxSize]
    /\ spool \in Seq(SpoolJobs)
    /\ keeps \in [Bytes -> Nat]
    /\ "phase" \in DOMAIN agent
    /\ Writing => /\ {"inode", "target", "cursor"} \subseteq DOMAIN agent
                  /\ agent.inode \in Nat /\ agent.target \in 0 .. MaxSize
                  /\ agent.cursor \in Nat /\ agent.cursor <= agent.target
    /\ agent.phase = "made" => "tmp" \in DOMAIN agent /\ agent.tmp \in SUBSET Bytes
    /\ Sent => spool # <<>>

(* No inode on record is newer than the file's.                              *)
InodesAreOld ==
    /\ saved.inode <= file.inode
    /\ \A k \in 1 .. Len(spool) : spool[k].inode <= file.inode
    /\ Writing => agent.inode <= file.inode

OffsetIsSafe == saved.inode = file.inode => SafeUpTo(saved.off)

(* What comes before the end of a job of the present file is accounted for. *)
JobsAreSafe ==
    \A k \in 1 .. Len(spool) :
        (spool[k].inode = file.inode /\ spool[k].payload # NoPayload) => SafeUpTo(spool[k].end)

(* And what comes before the cursor of a run, in which the payload of a new *)
(* job is not in the spool before it is moved there.                         *)
RunIsSafe ==
    /\ (Writing /\ agent.inode = file.inode) =>
          /\ agent.target <= file.size
          /\ agent.phase # "made" => SafeUpTo(agent.cursor)
          /\ agent.phase = "made" =>
                \A i \in 0 .. (agent.cursor - 1) : Safe(i) \/ <<file.gen, i>> \in agent.tmp
    /\ agent.phase = "made" =>
          /\ spool # <<>>
          /\ spool[Len(spool)].payload = NoPayload
          /\ spool[Len(spool)].inode = agent.inode /\ spool[Len(spool)].end = agent.cursor

AckedIsKept ==
    Sent => /\ Head1.payload # NoPayload
            /\ \A b \in Head1.payload : keeps[b] > 0

NothingLost == InodesAreOld /\ OffsetIsSafe /\ JobsAreSafe /\ RunIsSafe /\ AckedIsKept

SpoolInv == AgentShape /\ (blurred \/ NothingLost)

(* At the start the spool is empty and nothing is on record.                 *)
LEMMA SpoolInitOK == AgentInit => SpoolInv
<1> SUFFICES ASSUME AgentInit PROVE SpoolInv
    OBVIOUS
<1>1. AgentShape
  <2>1. 1 \in 1 .. MaxGens /\ 0 \in 0 .. MaxSize
      BY AgentAssumption
  <2>2. keeps \in [Bytes -> Nat]
      BY DEF AgentInit
  <2>3. spool = <<>> /\ spool \in Seq(SpoolJobs)
      BY DEF AgentInit
  <2> QED BY <2>1, <2>2, <2>3 DEF AgentInit, AgentShape, Off, Writing, Sent, NoStateFile
<1>2. NothingLost
    BY DEF AgentInit, NothingLost, InodesAreOld, OffsetIsSafe, JobsAreSafe, RunIsSafe, AckedIsKept,
           Off, Writing, Sent, NoStateFile
<1> QED BY <1>1, <1>2 DEF SpoolInv

(* The first job leaves the spool.                                           *)
LEMMA HeadLeaves ==
    ASSUME spool \in Seq(SpoolJobs), spool # <<>>, spool' = Tail(spool)
    PROVE  /\ spool' \in Seq(SpoolJobs)
           /\ Head1 = spool[1] /\ Head1 \in SpoolJobs
           /\ \A k \in 1 .. Len(spool') : k + 1 \in 1 .. Len(spool) /\ spool'[k] = spool[k + 1]
           /\ \A b \in InSpool : b \in InSpool' \/ b \in Head1.payload
<1>1. /\ Len(spool) \in Nat \ {0} /\ Len(spool') = Len(spool) - 1
      /\ spool' \in Seq(SpoolJobs) /\ Head1 = spool[1] /\ Head1 \in SpoolJobs
    BY DEF Head1
<1>2. \A k \in 1 .. Len(spool') : k + 1 \in 1 .. Len(spool) /\ spool'[k] = spool[k + 1]
    BY <1>1
<1>3. ASSUME NEW b \in InSpool PROVE b \in InSpool' \/ b \in Head1.payload
  <2>1. PICK k \in DOMAIN spool : b \in spool[k].payload
      BY DEF InSpool
  <2>2. k \in 1 .. Len(spool) /\ DOMAIN spool' = 1 .. Len(spool')
      BY <1>1
  <2>3. CASE k = 1
      BY <1>1, <2>1, <2>3
  <2>4. CASE k # 1
    <3>1. k - 1 \in DOMAIN spool' /\ spool'[k - 1] = spool[k]
        BY <1>1, <1>2, <2>2, <2>4
    <3> QED BY <2>1, <3>1 DEF InSpool
  <2> QED BY <2>3, <2>4
<1> QED BY <1>1, <1>2, <1>3

(* What is accounted for stays so, as long as the file is not replaced.      *)
Accounts ==
    /\ file'.gen = file.gen
    /\ \A b \in Bytes : keeps[b] > 0 => keeps'[b] > 0
    /\ \A b \in Bytes : b \in InSpool => b \in InSpool' \/ keeps'[b] > 0 \/ b \in refused'
    /\ refused \subseteq refused' /\ baseline \subseteq baseline' /\ cut \subseteq cut'

LEMMA SafeLasts ==
    ASSUME AgentShape, Accounts
    PROVE  /\ \A i \in 0 .. (MaxSize - 1) : Safe(i) => Safe(i)'
           /\ \A n \in 0 .. MaxSize : SafeUpTo(n) => SafeUpTo(n)'
<1>0. MaxSize \in Nat
    BY AgentAssumption
<1>1. ASSUME NEW i \in 0 .. (MaxSize - 1), Safe(i) PROVE Safe(i)'
  <2>1. <<file.gen, i>> \in Bytes
      BY DEF AgentShape, Bytes
  <2> QED BY <1>1, <2>1 DEF Accounts, Safe
<1>2. ASSUME NEW n \in 0 .. MaxSize, SafeUpTo(n) PROVE SafeUpTo(n)'
  <2>1. \A i \in 0 .. (n - 1) : i \in 0 .. (MaxSize - 1)
      BY <1>0
  <2> QED BY <1>1, <1>2, <2>1 DEF SafeUpTo
<1> QED BY <1>1, <1>2

(* The run goes on in another place.                                         *)
LEMMA Goes ==
    ASSUME "phase" \in DOMAIN agent, NEW p, agent' = [agent EXCEPT !.phase = p]
    PROVE  /\ agent'.phase = p /\ DOMAIN agent' = DOMAIN agent
           /\ \A x \in DOMAIN agent : x # "phase" => agent'[x] = agent[x]
OBVIOUS

(* Another job takes the last place of the spool, if it has one.             *)
LEMMA LastChanges ==
    ASSUME NEW S, NEW s \in Seq(S), NEW x, s # <<>> => x \in S
    PROVE  [s EXCEPT ![Len(s)] = x] \in Seq(S)
<1> DEFINE t == [s EXCEPT ![Len(s)] = x]
<1>1. CASE s = <<>>
  <2>1. DOMAIN s = {} /\ DOMAIN t = DOMAIN s
      BY <1>1
  <2>2. t = s
      BY <1>1, <2>1
  <2> QED BY <2>2
<1>2. CASE s # <<>>
    BY <1>2
<1> QED BY <1>1, <1>2

(* A payload changes nothing else of the last job.                           *)
LEMMA LastPayload ==
    ASSUME AgentShape, NEW p, spool' = [spool EXCEPT ![Len(spool)].payload = p]
    PROVE  /\ DOMAIN spool' = DOMAIN spool
           /\ \A k \in DOMAIN spool :
                /\ spool'[k].end = spool[k].end /\ spool'[k].inode = spool[k].inode
                /\ k # Len(spool) => spool'[k] = spool[k]
                /\ k = Len(spool) => spool'[k].payload = p
<1>1. spool \in Seq(SpoolJobs) /\ \A k \in DOMAIN spool : spool[k] \in SpoolJobs
    BY DEF AgentShape
<1> QED BY <1>1 DEF SpoolJobs

(* A move that is cut puts a part of the chunk into the last job.            *)
LEMMA CutMoves ==
    ASSUME AgentShape, MoveIsCut
    PROVE  /\ agent.phase = "made" /\ agent' = Off /\ agent'.phase = "off" /\ "phase" \in DOMAIN agent'
           /\ Writing /\ ~Sent /\ ~Writing' /\ ~Sent'
           /\ agent.tmp \in SUBSET Bytes
           /\ trouble' = trouble + 1
           /\ UNCHANGED <<file, saved, keeps, refused, baseline, blurred>>
           /\ \E part \in SUBSET agent.tmp :
                /\ spool' = [spool EXCEPT ![Len(spool)].payload = part]
                /\ cut' = cut \cup (agent.tmp \ part)
<1>1. agent.phase = "made" /\ agent' = Off /\ trouble' = trouble + 1
      /\ UNCHANGED <<file, saved, keeps, refused, baseline, blurred>>
    BY DEF MoveIsCut
<1>2. Off.phase = "off" /\ "phase" \in DOMAIN Off
    BY DEF Off
<1>3. agent'.phase = "off" /\ "phase" \in DOMAIN agent'
    BY <1>1, <1>2
<1>4. Writing /\ ~Sent /\ ~Writing' /\ ~Sent'
    BY <1>1, <1>3 DEF Writing, Sent
<1>5. agent.tmp \in SUBSET Bytes
    BY <1>1 DEF AgentShape
<1>6. PICK upto \in 0 .. MaxSize :
        LET part == {b \in agent.tmp : b[2] < upto}
        IN  /\ spool' = [spool EXCEPT ![Len(spool)].payload = part]
            /\ cut' = cut \cup (agent.tmp \ part)
    BY DEF MoveIsCut
<1>7. {b \in agent.tmp : b[2] < upto} \in SUBSET agent.tmp
    OBVIOUS
<1> QED BY <1>1, <1>3, <1>4, <1>5, <1>6, <1>7

(* The bytes of a chunk that is posted are counted.                          *)
LEMMA KeepCounts ==
    ASSUME AgentShape, NEW j, Keep(j)
    PROVE  /\ keeps' \in [Bytes -> Nat]
           /\ \A b \in Bytes : keeps[b] > 0 => keeps'[b] > 0
           /\ \A b \in Bytes : b \in j.payload => keeps'[b] > 0
BY DEF AgentShape, Keep

(* A scan begins at or before the offset of the file it belongs to.          *)
LEMMA CursorIsBehind ==
    ASSUME AgentShape
    PROVE  /\ Cursor \in Nat
           /\ (saved # NoStateFile /\ saved.inode = file.inode) => Cursor <= saved.off
<1> DEFINE from == IF saved = NoStateFile THEN InitialOffset(file.size)
                   ELSE IF file.inode # saved.inode \/ file.size < saved.off THEN 0
                   ELSE saved.off
<1>1. saved.off \in Nat /\ file.size \in Nat
    BY AgentAssumption DEF AgentShape
<1>2. from \in Int
    BY <1>1, InitialOffsetIsInt
<1>3. (saved # NoStateFile /\ saved.inode = file.inode) => from >= 0 /\ from <= saved.off
    BY <1>1
<1>4. Cursor = AlignCursor(from)
    BY DEF Cursor
<1> HIDE DEF from
<1>5. AlignCursor(from) \in Nat /\ (from >= 0 => AlignCursor(from) <= from)
    BY <1>2, AlignedCursor
<1> QED BY <1>1, <1>2, <1>3, <1>4, <1>5

(* A chunk of a run ends at its target or before.                            *)
LEMMA EndIsBetween ==
    ASSUME AgentShape, agent.phase = "chunk"
    PROVE  End \in Nat /\ End <= agent.target
<1>1. /\ agent.cursor \in Nat /\ agent.target \in Nat /\ agent.cursor <= agent.target
      /\ agent.cursor + ChunkBytes \in Nat
    BY AgentAssumption DEF AgentShape, Writing
<1> QED BY <1>1, ChunkEnds DEF End

(* Every step keeps the shapes.                                              *)
LEMMA AgentShapeStep == AgentShape /\ [AgentNext]_AgentVars => AgentShape'
<1> SUFFICES ASSUME AgentShape, [AgentNext]_AgentVars PROVE AgentShape'
    OBVIOUS
<1>0. /\ MaxSize \in Nat /\ MaxGens \in Nat \ {0}
      /\ file.gen \in 1 .. MaxGens /\ file.inode \in Nat /\ file.size \in 0 .. MaxSize
      /\ saved.inode \in Int /\ saved.off \in 0 .. MaxSize
    BY AgentAssumption DEF AgentShape
<1>1. ASSUME UNCHANGED <<agent, saved, spool, keeps>>,
             file' \in [gen : 1 .. MaxGens, inode : Nat, size : 0 .. MaxSize]
      PROVE  AgentShape'
    BY <1>1 DEF AgentShape, Writing, Sent
<1>2. ASSUME file' = file, saved' \in [inode : Int, off : 0 .. MaxSize],
             spool' \in Seq(SpoolJobs), keeps' \in [Bytes -> Nat],
             "phase" \in DOMAIN agent', ~Writing', Sent' => spool' # <<>>
      PROVE  AgentShape'
    BY <1>2 DEF AgentShape, Writing
<1>3. ASSUME NEW n \in 1 .. MaxSize, Grow(n) PROVE AgentShape'
  <2>1. file' \in [gen : 1 .. MaxGens, inode : Nat, size : 0 .. MaxSize]
      BY <1>0, <1>3 DEF Grow, AgentShape
  <2> QED BY <1>1, <1>3, <2>1 DEF Grow
<1>4. CASE Rotate \/ Truncate
  <2>1. file' \in [gen : 1 .. MaxGens, inode : Nat, size : 0 .. MaxSize]
    <3>1. file.gen + 1 \in 1 .. MaxGens /\ file.inode + 1 \in Nat /\ 0 \in 0 .. MaxSize
        BY <1>0, <1>4 DEF Rotate, Truncate
    <3>2. CASE Rotate
        BY <1>0, <3>1, <3>2 DEF Rotate
    <3>3. CASE Truncate
        BY <3>1, <3>3 DEF Truncate, AgentShape
    <3> QED BY <1>4, <3>2, <3>3
  <2> QED BY <1>1, <1>4, <2>1 DEF Rotate, Truncate
<1>5. ASSUME NEW p \in {"off", "flush", "final", "scan"},
             agent' = [agent EXCEPT !.phase = p] \/ agent' = Off
      PROVE  "phase" \in DOMAIN agent' /\ ~Writing' /\ ~Sent'
  <2>1. CASE agent' = Off
    <3>1. Off.phase = "off" /\ "phase" \in DOMAIN Off
        BY DEF Off
    <3>2. agent'.phase = "off"
        BY <2>1, <3>1
    <3>3. "phase" \in DOMAIN agent'
        BY <2>1, <3>1
    <3>4. ~Writing' /\ ~Sent'
        BY <3>2 DEF Writing, Sent
    <3> QED BY <3>3, <3>4
  <2>2. CASE agent' = [agent EXCEPT !.phase = p]
    <3>1. agent'.phase = p /\ "phase" \in DOMAIN agent'
        BY <2>2 DEF AgentShape
    <3> QED BY <3>1 DEF Writing, Sent
  <2> QED BY <1>5, <2>1, <2>2
<1>6. CASE StartRun
  <2>1. "phase" \in DOMAIN agent' /\ ~Writing' /\ ~Sent'
      BY <1>6 DEF StartRun, Writing, Sent
  <2> QED BY <1>2, <1>6, <2>1 DEF StartRun, AgentShape
<1>7. CASE DropHollow \/ SendRefused
  <2>1. spool' \in Seq(SpoolJobs)
      BY <1>7, HeadLeaves DEF DropHollow, SendRefused, AgentShape
  <2>2. "phase" \in DOMAIN agent' /\ ~Writing' /\ ~Sent'
      BY <1>7 DEF DropHollow, SendRefused, Flushing, Writing, Sent, AgentShape
  <2> QED BY <1>2, <1>7, <2>1, <2>2 DEF DropHollow, SendRefused, AgentShape
<1>8. CASE SendFails
  <2>1. keeps' \in [Bytes -> Nat]
      BY <1>8, KeepCounts DEF SendFails, AgentShape
  <2>2. "phase" \in DOMAIN agent' /\ ~Writing' /\ ~Sent'
      BY <1>5, <1>8 DEF SendFails
  <2> QED BY <1>2, <1>8, <2>1, <2>2 DEF SendFails, AgentShape
<1>9. CASE SendKept
  <2>1. keeps' \in [Bytes -> Nat]
      BY <1>9, KeepCounts DEF SendKept
  <2>2. "phase" \in DOMAIN agent' /\ agent'.phase \in {"acked", "acked2"}
      BY <1>9 DEF SendKept, AgentShape
  <2>3. ~Writing'
      BY <2>2 DEF Writing
  <2> QED BY <1>2, <1>9, <2>1, <2>2, <2>3 DEF SendKept, AgentShape
<1>10. CASE NoteSent \/ RemoveSent
  <2>1. spool # <<>> /\ Sent
      BY <1>10 DEF NoteSent, RemoveSent, AgentShape, Sent
  <2>2. /\ "phase" \in DOMAIN agent'
        /\ NoteSent => agent'.phase \in {"noted", "noted2"}
        /\ RemoveSent => agent'.phase \in {"flush", "final"}
      BY <1>10 DEF NoteSent, RemoveSent, Goto1, AgentShape
  <2>3. "phase" \in DOMAIN agent' /\ ~Writing' /\ (RemoveSent => ~Sent')
      BY <1>10, <2>2 DEF Writing, Sent
  <2>4. Head1 \in SpoolJobs /\ Tail(spool) \in Seq(SpoolJobs)
      BY <2>1 DEF Head1, AgentShape
  <2>5. NoteSent => saved' \in [inode : Int, off : 0 .. MaxSize]
    <3>1. Head1.inode \in Int /\ Head1.end \in 0 .. MaxSize
        BY <2>4 DEF SpoolJobs
    <3> QED BY <3>1 DEF NoteSent, StateAfterSend, AgentShape
  <2>6. CASE NoteSent
      BY <1>2, <2>1, <2>3, <2>5, <2>6 DEF NoteSent, AgentShape
  <2>7. CASE RemoveSent
      BY <1>2, <2>3, <2>4, <2>7 DEF RemoveSent, AgentShape
  <2> QED BY <1>10, <2>6, <2>7
<1>11. CASE FlushOver \/ FileOver
  <2>1. "phase" \in DOMAIN agent' /\ ~Writing' /\ ~Sent'
      BY <1>5, <1>11 DEF FlushOver, FileOver, Goto1
  <2> QED BY <1>2, <1>11, <2>1 DEF FlushOver, FileOver, AgentShape
<1>12. CASE AgentDies
  <2>1. "phase" \in DOMAIN agent' /\ ~Writing' /\ ~Sent'
      BY <1>5, <1>12 DEF AgentDies
  <2>2. saved' \in [inode : Int, off : 0 .. MaxSize]
      BY <1>0, <1>12 DEF AgentDies, EmptyState, AgentShape
  <2> QED BY <1>2, <1>12, <2>1, <2>2 DEF AgentDies, AgentShape
<1>13. CASE ScanFile
  <2>1. CASE Goto1("final")
    <3>1. "phase" \in DOMAIN agent' /\ ~Writing' /\ ~Sent'
        BY <1>5, <2>1 DEF Goto1
    <3> QED BY <1>2, <1>13, <3>1 DEF ScanFile, AgentShape
  <2>2. CASE ~Goto1("final")
    <3>1. /\ Cursor < file.size
          /\ agent' = [phase |-> "chunk", made |-> 0, inode |-> file.inode,
                       target |-> file.size, cursor |-> Cursor]
          /\ UNCHANGED <<file, saved, spool, keeps>>
        BY <1>13, <2>2 DEF ScanFile
    <3>2. Cursor \in Nat
        BY CursorIsBehind
    <3>3. /\ {"phase", "inode", "target", "cursor"} \subseteq DOMAIN agent'
          /\ agent'.phase = "chunk" /\ agent'.inode = file.inode
          /\ agent'.target = file.size /\ agent'.cursor = Cursor
        BY <3>1
    <3> QED BY <1>0, <3>1, <3>2, <3>3 DEF AgentShape, Sent
  <2> QED BY <2>1, <2>2
<1>14. ASSUME NEW same \in BOOLEAN, MakeJob(same) PROVE AgentShape'
  <2> DEFINE upto == IF End < file.size THEN End ELSE file.size
             tmp == Span(file.gen, agent.cursor, upto)
  <2>1. /\ agent.phase = "chunk" /\ End \in Nat /\ End <= agent.target
        /\ agent.target \in 0 .. MaxSize /\ agent.cursor \in Nat /\ agent.inode \in Nat
      BY <1>14, EndIsBetween DEF MakeJob, AgentShape, Writing
  <2>2. /\ {"phase", "inode", "target", "cursor", "tmp"} \subseteq DOMAIN agent'
        /\ agent'.phase = "made" /\ agent'.inode = agent.inode
        /\ agent'.target = agent.target /\ agent'.cursor = End /\ agent'.tmp = tmp
      BY <1>14 DEF MakeJob
  <2>3. tmp \in SUBSET Bytes
    <3>1. upto \in Nat /\ upto <= MaxSize
        BY <1>0, <2>1
    <3> HIDE DEF upto
    <3> QED BY <1>0, <2>1, <3>1 DEF Span, Bytes
  <2>4. \A x \in (SUBSET Bytes) \cup {NoPayload} : Job(x) \in SpoolJobs
    <3>1. End \in 0 .. MaxSize
        BY <1>0, <2>1
    <3> QED BY <2>1, <3>1 DEF Job, SpoolJobs
  <2>5. spool' \in Seq(SpoolJobs)
    <3>1. CASE same
      <4>1. spool' = [spool EXCEPT ![Len(spool)] = Job(spool[Len(spool)].payload)]
          BY <1>14, <3>1 DEF MakeJob
      <4>2. spool # <<>> => Job(spool[Len(spool)].payload) \in SpoolJobs
        <5>1. spool # <<>> => spool[Len(spool)] \in SpoolJobs
            BY DEF AgentShape
        <5> QED BY <2>4, <5>1 DEF SpoolJobs
      <4> QED BY <4>1, <4>2, LastChanges DEF AgentShape
    <3>2. CASE ~same
      <4>1. spool' = IF same THEN [spool EXCEPT ![Len(spool)] = Job(@.payload)]
                      ELSE Append(spool, Job(NoPayload))
          BY <1>14 DEF MakeJob
      <4>2. spool' = Append(spool, Job(NoPayload)) /\ Job(NoPayload) \in SpoolJobs
        <5>1. spool' = Append(spool, Job(NoPayload))
            BY <3>2, <4>1, Zenon
        <5>2. NoPayload \in (SUBSET Bytes) \cup {NoPayload}
            OBVIOUS
        <5>3. Job(NoPayload) \in SpoolJobs
            BY <2>4, <5>2, Zenon
        <5> QED BY <5>1, <5>3
      <4> QED BY <4>2 DEF AgentShape
    <3> QED BY <3>1, <3>2
  <2>6. UNCHANGED <<file, saved, keeps>>
      BY <1>14 DEF MakeJob
  <2> HIDE DEF tmp
  <2> QED BY <2>1, <2>2, <2>3, <2>5, <2>6 DEF AgentShape, Sent
<1>15. CASE MovePayload \/ NoteQueued
  <2>1. Writing /\ UNCHANGED <<file, keeps>>
      BY <1>15 DEF MovePayload, NoteQueued, Writing
  <2>2. agent'.phase \in {"moved", "chunk"} /\ "phase" \in DOMAIN agent' /\ DOMAIN agent' = DOMAIN agent
      BY <1>15 DEF MovePayload, NoteQueued, Goto1, AgentShape
  <2>3. /\ {"inode", "target", "cursor"} \subseteq DOMAIN agent
        /\ agent.inode \in Nat /\ agent.target \in 0 .. MaxSize
        /\ agent.cursor \in Nat /\ agent.cursor <= agent.target
      BY <2>1 DEF AgentShape
  <2>4. agent'.inode = agent.inode /\ agent'.target = agent.target /\ agent'.cursor = agent.cursor
      BY <1>15, <2>3 DEF MovePayload, NoteQueued, Goto1
  <2>5. saved' \in [inode : Int, off : 0 .. MaxSize]
      BY <1>0, <1>15, <2>3 DEF MovePayload, NoteQueued, AgentShape
  <2>6. spool' \in Seq(SpoolJobs)
    <3>1. CASE NoteQueued
        BY <3>1 DEF NoteQueued, AgentShape
    <3>2. CASE MovePayload
      <4>1. agent.tmp \in SUBSET Bytes /\ spool' = [spool EXCEPT ![Len(spool)].payload = agent.tmp]
          BY <3>2 DEF MovePayload, AgentShape
      <4>2. spool # <<>> => [spool[Len(spool)] EXCEPT !.payload = agent.tmp] \in SpoolJobs
        <5>1. spool # <<>> => spool[Len(spool)] \in SpoolJobs
            BY DEF AgentShape
        <5> QED BY <4>1, <5>1 DEF SpoolJobs
      <4>3. spool' = [spool EXCEPT ![Len(spool)] = [spool[Len(spool)] EXCEPT !.payload = agent.tmp]]
          BY <4>1
      <4> QED BY <4>2, <4>3, LastChanges DEF AgentShape
    <3> QED BY <1>15, <3>1, <3>2
  <2> QED BY <2>1, <2>2, <2>3, <2>4, <2>5, <2>6 DEF AgentShape, Sent
<1>16. CASE UNCHANGED AgentVars
    BY <1>1, <1>16 DEF AgentVars, AgentShape
<1>17. CASE MoveIsCut
  <2>1. PICK part \in SUBSET agent.tmp : spool' = [spool EXCEPT ![Len(spool)].payload = part]
      BY <1>17, CutMoves
  <2>2. part \in SUBSET Bytes
      BY <1>17, CutMoves
  <2>3. spool # <<>> => [spool[Len(spool)] EXCEPT !.payload = part] \in SpoolJobs
    <3>1. spool # <<>> => spool[Len(spool)] \in SpoolJobs
        BY DEF AgentShape
    <3> QED BY <2>2, <3>1 DEF SpoolJobs
  <2>4. spool' = [spool EXCEPT ![Len(spool)] = [spool[Len(spool)] EXCEPT !.payload = part]]
      BY <2>1
  <2>5. spool' \in Seq(SpoolJobs)
      BY <2>3, <2>4, LastChanges DEF AgentShape
  <2> QED BY <1>2, <1>17, <2>5, CutMoves DEF AgentShape
<1> QED BY <1>3, <1>4, <1>6, <1>7, <1>8, <1>9, <1>10, <1>11, <1>12, <1>13, <1>14, <1>15, <1>16, <1>17
        DEF AgentNext, AgentStep

(* A step that replaces no file and makes no job loses nothing, if what it  *)
(* writes down is accounted for.                                             *)
LEMMA NothingLostLasts ==
    ASSUME AgentShape, AgentShape', NothingLost, Accounts,
           file'.inode = file.inode, file'.size >= file.size,
           \/ saved' = saved
           \/ /\ saved'.inode <= file.inode
              /\ saved'.inode = file.inode => SafeUpTo(saved'.off),
           \A k \in 1 .. Len(spool') :
              \/ \E l \in 1 .. Len(spool) : spool'[k] = spool[l]
              \/ /\ spool'[k].inode <= file.inode
                 /\ (spool'[k].inode = file.inode /\ spool'[k].payload # NoPayload) =>
                       \A i \in 0 .. (spool'[k].end - 1) : Safe(i)',
           \/ agent' = agent /\ spool' = spool
           \/ ~Writing'
           \/ agent'.inode <= file.inode /\ RunIsSafe',
           AckedIsKept'
    PROVE  NothingLost'
<1>0. /\ file'.gen = file.gen /\ file.size \in Nat /\ file'.size \in Nat /\ MaxSize \in Nat
      /\ saved.off \in 0 .. MaxSize /\ saved'.off \in 0 .. MaxSize
    BY AgentAssumption DEF Accounts, AgentShape
<1>1. \A n \in 0 .. MaxSize : SafeUpTo(n) => SafeUpTo(n)'
    BY SafeLasts
<1>2. \A i \in 0 .. (MaxSize - 1) : Safe(i) => Safe(i)'
    BY SafeLasts
<1>3. InodesAreOld'
    BY DEF NothingLost, InodesAreOld, Writing
<1>4. OffsetIsSafe'
  <2>1. saved'.inode = file.inode => SafeUpTo(saved'.off)
      BY DEF NothingLost, OffsetIsSafe
  <2>2. SafeUpTo(saved'.off) => SafeUpTo(saved.off)'
      BY <1>0, <1>1
  <2> QED BY <2>1, <2>2 DEF OffsetIsSafe
<1>5. JobsAreSafe'
  <2> SUFFICES ASSUME NEW k \in 1 .. Len(spool'),
                      spool'[k].inode = file'.inode, spool'[k].payload # NoPayload,
                      NEW i \in 0 .. (spool'[k].end - 1)
               PROVE  Safe(i)'
      BY DEF JobsAreSafe, SafeUpTo
  <2>0. CASE ~ \E l \in 1 .. Len(spool) : spool'[k] = spool[l]
      BY <2>0
  <2> SUFFICES ASSUME \E l \in 1 .. Len(spool) : spool'[k] = spool[l] PROVE Safe(i)'
      BY <2>0
  <2>1. PICK l \in 1 .. Len(spool) : spool'[k] = spool[l]
      OBVIOUS
  <2>2. spool[l] \in SpoolJobs
      BY DEF AgentShape
  <2>3. SafeUpTo(spool[l].end) /\ spool[l].end \in 0 .. MaxSize
      BY <2>1, <2>2 DEF NothingLost, JobsAreSafe, SpoolJobs
  <2>4. Safe(i) /\ i \in 0 .. (MaxSize - 1)
      BY <1>0, <2>1, <2>3 DEF SafeUpTo
  <2> QED BY <1>2, <2>4
<1>6. RunIsSafe'
  <2>1. CASE ~Writing'
      BY <2>1 DEF RunIsSafe, Writing
  <2>2. CASE Writing' /\ agent' = agent /\ spool' = spool
    <3>1. Writing /\ agent.cursor \in 0 .. MaxSize
        BY <1>0, <2>2 DEF Writing, AgentShape
    <3>2. agent.phase = "made" => /\ spool # <<>>
                                  /\ spool[Len(spool)].payload = NoPayload
                                  /\ spool[Len(spool)].inode = agent.inode
                                  /\ spool[Len(spool)].end = agent.cursor
        BY DEF NothingLost, RunIsSafe
    <3>3. ASSUME agent.inode = file.inode
          PROVE  /\ agent.target <= file'.size
                 /\ agent.phase # "made" => SafeUpTo(agent.cursor)'
                 /\ agent.phase = "made" =>
                       \A i \in 0 .. (agent.cursor - 1) : Safe(i)' \/ <<file'.gen, i>> \in agent.tmp
      <4>1. agent.target <= file'.size
          BY <1>0, <3>1, <3>3 DEF NothingLost, RunIsSafe, AgentShape
      <4>2. agent.phase # "made" => SafeUpTo(agent.cursor)'
          BY <1>1, <2>2, <3>1, <3>3 DEF NothingLost, RunIsSafe
      <4>3. ASSUME agent.phase = "made", NEW i \in 0 .. (agent.cursor - 1)
            PROVE  Safe(i)' \/ <<file'.gen, i>> \in agent.tmp
        <5>1. i \in 0 .. (MaxSize - 1)
            BY <1>0, <3>1
        <5>2. Safe(i) \/ <<file.gen, i>> \in agent.tmp
            BY <3>1, <3>3, <4>3 DEF NothingLost, RunIsSafe
        <5> QED BY <1>0, <1>2, <5>1, <5>2
      <4> QED BY <4>1, <4>2, <4>3
    <3> QED BY <2>2, <3>2, <3>3 DEF RunIsSafe
  <2> QED BY <2>1, <2>2
<1> QED BY <1>3, <1>4, <1>5, <1>6 DEF NothingLost

(* Every step without a truncation or a shared directory accounts for what   *)
(* it passes.                                                                *)
LEMMA NothingLostStep ==
    AgentShape /\ AgentShape' /\ (blurred \/ NothingLost) /\ [AgentNext]_AgentVars
        => blurred' \/ NothingLost'
<1> SUFFICES ASSUME AgentShape, AgentShape', blurred \/ NothingLost, [AgentNext]_AgentVars, ~blurred'
             PROVE  NothingLost'
    OBVIOUS
<1>0. /\ MaxSize \in Nat
      /\ file.gen \in 1 .. MaxGens /\ file.inode \in Nat /\ file.size \in 0 .. MaxSize
      /\ saved.inode \in Int /\ saved.off \in 0 .. MaxSize
      /\ Len(spool) \in Nat
    BY AgentAssumption DEF AgentShape
<1>1. ~blurred
    BY DEF AgentNext, AgentStep, AgentVars, Grow, Rotate, Truncate, StartRun, DropHollow, SendKept,
           SendRefused, SendFails, NoteSent, RemoveSent, FlushOver, ScanFile, MakeJob, MovePayload,
           NoteQueued, FileOver, AgentDies, MoveIsCut
<1>2. NothingLost
    BY <1>1
<1>3. /\ "off" \notin {"chunk", "made", "moved"} /\ Off.phase = "off"
      /\ (agent' = Off => ~Writing' /\ ~Sent')
      /\ \A p \in {"flush", "final", "scan"} : Goto1(p) => ~Writing' /\ ~Sent'
  <2>1. Off.phase = "off"
      BY DEF Off
  <2>2. ASSUME agent' = Off PROVE ~Writing' /\ ~Sent'
    <3>1. agent'.phase = "off"
        BY <2>1, <2>2
    <3> QED BY <3>1 DEF Writing, Sent
  <2>3. ASSUME NEW p \in {"flush", "final", "scan"}, Goto1(p) PROVE ~Writing' /\ ~Sent'
    <3>1. agent'.phase = p
        BY <2>3 DEF Goto1, AgentShape
    <3> QED BY <3>1 DEF Writing, Sent
  <2> QED BY <2>1, <2>2, <2>3
(* Steps that leave the file, the spool and what was kept alone.             *)
<1>4. ASSUME UNCHANGED <<spool, keeps, refused, baseline, cut>>, file'.gen = file.gen,
             file'.inode = file.inode, file'.size >= file.size,
             saved' = saved \/ saved'.inode = -1,
             agent' = agent \/ (~Writing' /\ ~Sent')
      PROVE  NothingLost'
  <2>1. Accounts
      BY <1>4 DEF Accounts, InSpool
  <2>2. AckedIsKept'
      BY <1>2, <1>4 DEF NothingLost, AckedIsKept, Sent, Head1
  <2>3. -1 <= file.inode /\ -1 # file.inode
      BY <1>0
  <2> QED BY <1>2, <1>4, <2>1, <2>2, <2>3, NothingLostLasts
<1>5. ASSUME NEW n \in 1 .. MaxSize, Grow(n) PROVE NothingLost'
  <2>1. file'.gen = file.gen /\ file'.inode = file.inode /\ file'.size >= file.size
      BY <1>0, <1>5 DEF Grow, AgentShape
  <2> QED BY <1>4, <1>5, <2>1 DEF Grow
<1>6. CASE Rotate
  <2>1. file'.inode = file.inode + 1 /\ UNCHANGED <<saved, spool, agent, keeps>>
      BY <1>6 DEF Rotate
  <2>2. InodesAreOld
      BY <1>2 DEF NothingLost
  <2>3. \A k \in 1 .. Len(spool) : spool[k].inode \in Nat
    <3>1. \A k \in 1 .. Len(spool) : spool[k] \in SpoolJobs
        BY DEF AgentShape
    <3> QED BY <3>1 DEF SpoolJobs
  <2>4. Writing => agent.inode \in Nat
      BY DEF AgentShape
  <2>5. InodesAreOld'
      BY <1>0, <2>1, <2>2, <2>3, <2>4 DEF InodesAreOld, Writing
  <2>6. OffsetIsSafe' /\ JobsAreSafe'
      BY <1>0, <2>1, <2>2, <2>3 DEF InodesAreOld, OffsetIsSafe, JobsAreSafe
  <2>7. RunIsSafe'
    <3>1. ~(Writing' /\ agent'.inode = file'.inode)
        BY <1>0, <2>1, <2>2, <2>4 DEF InodesAreOld, Writing
    <3> QED BY <1>2, <2>1, <3>1 DEF NothingLost, RunIsSafe
  <2>8. AckedIsKept'
      BY <1>2, <2>1 DEF NothingLost, AckedIsKept, Sent, Head1
  <2> QED BY <2>5, <2>6, <2>7, <2>8 DEF NothingLost
<1>7. CASE StartRun
  <2>1. ~Writing' /\ ~Sent'
      BY <1>7 DEF StartRun, Writing, Sent
  <2> QED BY <1>0, <1>4, <1>7, <2>1 DEF StartRun
<1>8. CASE FlushOver \/ FileOver
  <2>1. ~Writing' /\ ~Sent'
      BY <1>3, <1>8 DEF FlushOver, FileOver
  <2> QED BY <1>0, <1>4, <1>8, <2>1 DEF FlushOver, FileOver
<1>9. CASE AgentDies
  <2>1. ~Writing' /\ ~Sent'
      BY <1>3, <1>9 DEF AgentDies
  <2>2. saved' = saved \/ saved'.inode = -1
      BY <1>9 DEF AgentDies, EmptyState
  <2> QED BY <1>0, <1>4, <1>9, <2>1, <2>2 DEF AgentDies
<1>10. CASE DropHollow
  <2>1. spool # <<>> /\ spool' = Tail(spool) /\ Head1.payload = NoPayload /\ agent' = agent
      BY <1>10 DEF DropHollow
  <2>2. ~Writing' /\ ~Sent'
      BY <1>10 DEF DropHollow, Flushing, Writing, Sent
  <2>3. \A b \in Bytes : b \in InSpool => b \in InSpool'
    <3>1. \A b \in Bytes : b \notin NoPayload
        BY AgentAssumption DEF Bytes, NoPayload
    <3> QED BY <2>1, <3>1, HeadLeaves DEF AgentShape
  <2>4. Accounts
      BY <1>10, <2>3 DEF DropHollow, Accounts
  <2>5. \A k \in 1 .. Len(spool') : \E l \in 1 .. Len(spool) : spool'[k] = spool[l]
      BY <2>1, HeadLeaves DEF AgentShape
  <2> QED BY <1>0, <1>2, <1>10, <2>2, <2>4, <2>5, NothingLostLasts DEF DropHollow, AckedIsKept
<1>11. CASE SendRefused
  <2>1. /\ spool # <<>> /\ spool' = Tail(spool) /\ refused' = refused \cup Head1.payload
        /\ UNCHANGED <<file, saved, agent, keeps, baseline, cut>>
      BY <1>11 DEF SendRefused
  <2>2. ~Writing' /\ ~Sent'
      BY <1>11 DEF SendRefused, Flushing, Writing, Sent
  <2>3. \A b \in Bytes : b \in InSpool => b \in InSpool' \/ b \in refused'
      BY <2>1, HeadLeaves DEF AgentShape
  <2>4. Accounts
      BY <2>1, <2>3 DEF Accounts
  <2>5. \A k \in 1 .. Len(spool') : \E l \in 1 .. Len(spool) : spool'[k] = spool[l]
      BY <2>1, HeadLeaves DEF AgentShape
  <2> QED BY <1>0, <1>2, <2>1, <2>2, <2>4, <2>5, NothingLostLasts DEF AckedIsKept
<1>12. CASE SendFails
  <2>1. ~Writing' /\ ~Sent'
      BY <1>3, <1>12 DEF SendFails
  <2>2. \A b \in Bytes : keeps[b] > 0 => keeps'[b] > 0
      BY <1>12, KeepCounts DEF SendFails
  <2>3. UNCHANGED <<file, saved, spool, refused, baseline, cut>>
      BY <1>12 DEF SendFails
  <2>4. Accounts
      BY <2>2, <2>3 DEF Accounts, InSpool
  <2> QED BY <1>0, <1>2, <2>1, <2>3, <2>4, NothingLostLasts DEF AckedIsKept
<1>13. CASE SendKept
  <2>1. /\ spool # <<>> /\ Head1.payload # NoPayload /\ Keep(Head1)
        /\ UNCHANGED <<file, saved, spool, refused, baseline, cut>>
      BY <1>13 DEF SendKept
  <2>2. agent'.phase \in {"acked", "acked2"}
      BY <1>13 DEF SendKept, AgentShape
  <2>3. ~Writing'
      BY <2>2 DEF Writing
  <2>4. Head1.payload \in SUBSET Bytes
    <3>1. Head1 \in SpoolJobs
        BY <2>1 DEF Head1, AgentShape
    <3> QED BY <2>1, <3>1 DEF SpoolJobs
  <2>5. Accounts
      BY <2>1, KeepCounts DEF Accounts, InSpool
  <2>6. AckedIsKept'
    <3>1. \A b \in Head1.payload : keeps'[b] > 0
        BY <2>1, <2>4, KeepCounts
    <3> QED BY <2>1, <3>1 DEF AckedIsKept, Head1
  <2> QED BY <1>0, <1>2, <2>1, <2>3, <2>5, <2>6, NothingLostLasts
<1>14. CASE NoteSent
  <2>1. Sent /\ spool # <<>> /\ UNCHANGED <<file, spool, keeps, refused, baseline, cut>>
      BY <1>14 DEF NoteSent, Sent, AgentShape
  <2>2. agent'.phase \in {"noted", "noted2"}
      BY <1>14 DEF NoteSent, Goto1, AgentShape
  <2>3. ~Writing'
      BY <2>2 DEF Writing
  <2>4. Accounts
      BY <2>1 DEF Accounts, InSpool
  <2>5. AckedIsKept'
      BY <1>2, <2>1 DEF NothingLost, AckedIsKept, Head1
  <2>6. /\ Head1 = spool[1] /\ 1 \in 1 .. Len(spool)
        /\ Head1.payload # NoPayload
      BY <1>2, <2>1 DEF Head1, AgentShape, NothingLost, AckedIsKept
  <2>7. /\ Head1.inode <= file.inode
        /\ Head1.inode = file.inode => SafeUpTo(Head1.end)
      BY <1>2, <2>6 DEF NothingLost, InodesAreOld, JobsAreSafe
  <2>8. \/ saved' = saved
        \/ saved'.inode = Head1.inode /\ saved'.off = Head1.end
      BY <1>14 DEF NoteSent, StateAfterSend
  <2>9. \/ saved' = saved
        \/ /\ saved'.inode <= file.inode
           /\ saved'.inode = file.inode => SafeUpTo(saved'.off)
      BY <2>7, <2>8
  <2> QED BY <1>0, <1>2, <2>1, <2>3, <2>4, <2>5, <2>9, NothingLostLasts
<1>15. CASE RemoveSent
  <2>1. Sent /\ spool # <<>> /\ spool' = Tail(spool) /\ UNCHANGED <<file, saved, keeps, refused, baseline, cut>>
      BY <1>15 DEF RemoveSent, Sent, AgentShape
  <2>2. ~Writing' /\ ~Sent'
      BY <1>3, <1>15 DEF RemoveSent
  <2>3. \A b \in Bytes : b \in InSpool => b \in InSpool' \/ keeps[b] > 0
      BY <1>2, <2>1, HeadLeaves DEF AgentShape, NothingLost, AckedIsKept
  <2>4. Accounts
      BY <2>1, <2>3 DEF Accounts
  <2>5. \A k \in 1 .. Len(spool') : \E l \in 1 .. Len(spool) : spool'[k] = spool[l]
      BY <2>1, HeadLeaves DEF AgentShape
  <2> QED BY <1>0, <1>2, <2>1, <2>2, <2>4, <2>5, NothingLostLasts DEF AckedIsKept
<1>16. CASE ScanFile
  <2>1. CASE Goto1("final") /\ UNCHANGED baseline
    <3>1. ~Writing' /\ ~Sent'
        BY <1>3, <2>1
    <3> QED BY <1>0, <1>4, <1>16, <2>1, <3>1 DEF ScanFile
  <2>2. CASE ~(Goto1("final") /\ UNCHANGED baseline)
    <3>1. /\ Cursor < file.size
          /\ agent' = [phase |-> "chunk", made |-> 0, inode |-> file.inode,
                       target |-> file.size, cursor |-> Cursor]
          /\ baseline' = IF saved = NoStateFile
                           THEN baseline \cup Span(file.gen, 0, Cursor) ELSE baseline
          /\ ~(file.inode = saved.inode /\ file.size <= saved.off)
          /\ UNCHANGED <<file, saved, spool, keeps, refused, cut>>
        BY <1>16, <2>2 DEF ScanFile
    <3>2. Accounts
      <4>1. baseline \subseteq baseline'
          BY <3>1
      <4> QED BY <3>1, <4>1 DEF Accounts, InSpool
    <3>3. /\ agent'.phase = "chunk" /\ agent'.inode = file.inode
          /\ agent'.target = file.size /\ agent'.cursor = Cursor
        BY <3>1
    <3>4. Cursor \in Nat /\ ((saved # NoStateFile /\ saved.inode = file.inode) => Cursor <= saved.off)
        BY CursorIsBehind
    <3>5. ASSUME NEW i \in 0 .. (Cursor - 1) PROVE Safe(i)'
      <4>1. CASE saved = NoStateFile
        <5>1. <<file.gen, i>> \in baseline'
            BY <3>1, <4>1 DEF Span
        <5> QED BY <3>1, <5>1 DEF Safe
      <4>2. CASE saved # NoStateFile /\ saved.inode = file.inode
        <5>1. i \in 0 .. (saved.off - 1) /\ i \in 0 .. (MaxSize - 1)
            BY <1>0, <3>4, <4>2
        <5>2. Safe(i)
            BY <1>2, <4>2, <5>1 DEF NothingLost, OffsetIsSafe, SafeUpTo
        <5> QED BY <3>2, <5>1, <5>2, SafeLasts
      <4>3. CASE saved # NoStateFile /\ saved.inode # file.inode
        <5>1. Cursor = 0
            BY <4>3 DEF Cursor, AlignCursor
        <5> QED BY <5>1
      <4> QED BY <4>1, <4>2, <4>3
    <3>6. RunIsSafe'
        BY <1>0, <3>1, <3>3, <3>5 DEF RunIsSafe, SafeUpTo
    <3>7. AckedIsKept'
        BY <3>3 DEF AckedIsKept, Sent
    <3> QED BY <1>0, <1>2, <3>1, <3>2, <3>3, <3>6, <3>7, NothingLostLasts
  <2> QED BY <2>1, <2>2
<1>17. ASSUME NEW same \in BOOLEAN, MakeJob(same) PROVE NothingLost'
  <2> DEFINE upto == IF End < file.size THEN End ELSE file.size
             tmp == Span(file.gen, agent.cursor, upto)
             new == Job(NoPayload)
  <2>0. ~same
      BY <1>17, Zenon DEF MakeJob
  <2>1. /\ agent.phase = "chunk" /\ End \in Nat /\ End <= agent.target /\ End > agent.cursor
        /\ agent.target \in 0 .. MaxSize /\ agent.cursor \in Nat /\ agent.inode \in Nat
      BY <1>17, EndIsBetween DEF MakeJob, AgentShape, Writing
  <2>2. /\ agent'.phase = "made" /\ agent'.inode = agent.inode
        /\ agent'.target = agent.target /\ agent'.cursor = End /\ agent'.tmp = tmp
        /\ UNCHANGED <<file, saved, keeps, refused, baseline, cut>>
      BY <1>17 DEF MakeJob
  <2>3. spool' = Append(spool, new)
    <3>1. spool' = IF same THEN [spool EXCEPT ![Len(spool)] = Job(@.payload)]
                    ELSE Append(spool, Job(NoPayload))
        BY <1>17 DEF MakeJob
    <3> QED BY <2>0, <3>1, Zenon
  <2>4. new.inode = agent.inode /\ new.end = End /\ new.payload = NoPayload
      BY DEF Job
  <2>5. /\ Len(spool') = Len(spool) + 1 /\ spool'[Len(spool')] = new /\ spool' # <<>>
        /\ \A k \in 1 .. Len(spool) : spool'[k] = spool[k]
      BY <2>3 DEF AgentShape
  <2>6. agent.inode <= file.inode
      BY <1>2, <2>1 DEF NothingLost, InodesAreOld, Writing
  <2> HIDE DEF new, tmp
  <2>7. Accounts
    <3>1. \A b \in InSpool : b \in InSpool'
      <4> SUFFICES ASSUME NEW b \in InSpool PROVE b \in InSpool'
          OBVIOUS
      <4>1. PICK k \in DOMAIN spool : b \in spool[k].payload
          BY DEF InSpool
      <4>2. k \in 1 .. Len(spool) /\ Len(spool) \in Nat
          BY <1>0, <4>1 DEF AgentShape
      <4>3. spool'[k] = spool[k]
          BY <2>5, <4>2
      <4>4. DOMAIN spool' = 1 .. Len(spool')
          BY <1>0 DEF AgentShape
      <4>5. k \in DOMAIN spool'
          BY <2>5, <4>2, <4>4
      <4> QED BY <4>1, <4>3, <4>5 DEF InSpool
    <3> QED BY <2>2, <3>1 DEF Accounts
  <2>8. \A k \in 1 .. Len(spool') :
           \/ \E l \in 1 .. Len(spool) : spool'[k] = spool[l]
           \/ spool'[k] = new
      BY <1>0, <2>5
  <2>9. RunIsSafe'
    <3>1. ASSUME agent.inode = file.inode
          PROVE  /\ agent.target <= file.size
                 /\ \A i \in 0 .. (End - 1) : Safe(i)' \/ <<file.gen, i>> \in tmp
      <4>1. agent.target <= file.size /\ SafeUpTo(agent.cursor)
          BY <1>2, <2>1, <3>1 DEF NothingLost, RunIsSafe, Writing
      <4>2. \A i \in 0 .. (MaxSize - 1) : Safe(i) => Safe(i)'
          BY <2>7, SafeLasts
      <4>3. ASSUME NEW i \in 0 .. (End - 1) PROVE Safe(i)' \/ <<file.gen, i>> \in tmp
        <5>1. CASE i < agent.cursor
          <6>1. i \in 0 .. (agent.cursor - 1) /\ i \in 0 .. (MaxSize - 1)
              BY <1>0, <2>1, <5>1
          <6> QED BY <4>1, <4>2, <6>1 DEF SafeUpTo
        <5>2. CASE ~(i < agent.cursor)
          <6>1. End <= file.size
              BY <1>0, <2>1, <4>1
          <6>2. upto = End
              BY <1>0, <2>1, <6>1
          <6>3. i \in agent.cursor .. (upto - 1)
              BY <2>1, <5>2, <6>2
          <6> HIDE DEF upto
          <6> QED BY <6>3 DEF Span, tmp
        <5> QED BY <5>1, <5>2
      <4> QED BY <4>1, <4>3
    <3> QED BY <2>2, <2>4, <2>5, <3>1 DEF RunIsSafe
  <2>10. AckedIsKept'
      BY <2>2 DEF AckedIsKept, Sent
  <2> QED BY <1>0, <1>2, <2>2, <2>4, <2>6, <2>7, <2>8, <2>9, <2>10, NothingLostLasts
<1>18. CASE MovePayload
  <2> DEFINE n == Len(spool)
             new == [spool[n] EXCEPT !.payload = agent.tmp]
  <2>1. /\ agent.phase = "made" /\ spool # <<>> /\ spool[n].payload = NoPayload
        /\ spool[n].inode = agent.inode /\ spool[n].end = agent.cursor
        /\ agent.cursor \in Nat /\ agent.cursor <= MaxSize
        /\ agent.inode <= file.inode
      BY <1>0, <1>2, <1>18
      DEF MovePayload, NothingLost, RunIsSafe, InodesAreOld, Writing, AgentShape
  <2>2. n \in 1 .. Len(spool) /\ spool[n] \in SpoolJobs
      BY <1>0, <2>1 DEF AgentShape
  <2>3. new.inode = agent.inode /\ new.end = agent.cursor /\ new.payload = agent.tmp
      BY <2>1, <2>2 DEF SpoolJobs
  <2>4. /\ spool' = [spool EXCEPT ![n] = new] /\ UNCHANGED <<file, saved, keeps, refused, baseline, cut>>
      BY <1>18 DEF MovePayload
  <2>5. /\ Len(spool') = n /\ DOMAIN spool' = 1 .. n /\ DOMAIN spool = 1 .. n
        /\ spool'[n] = new
        /\ \A k \in 1 .. n : k # n => spool'[k] = spool[k]
    <3> HIDE DEF new
    <3> QED BY <2>2, <2>4 DEF AgentShape
  <2>6. /\ agent'.phase = "moved" /\ agent'.inode = agent.inode
        /\ agent'.target = agent.target /\ agent'.cursor = agent.cursor
    <3>1. {"phase", "inode", "target", "cursor"} \subseteq DOMAIN agent
        BY <2>1 DEF AgentShape, Writing
    <3> QED BY <1>18, <3>1 DEF MovePayload, Goto1
  <2> HIDE DEF new
  <2>7. Accounts
    <3>1. \A b \in Bytes : b \in InSpool => b \in InSpool'
      <4> SUFFICES ASSUME NEW b \in Bytes, b \in InSpool PROVE b \in InSpool'
          OBVIOUS
      <4>1. PICK k \in DOMAIN spool : b \in spool[k].payload
          BY DEF InSpool
      <4>2. b \notin NoPayload
          BY AgentAssumption DEF Bytes, NoPayload
      <4>3. k # n
          BY <2>1, <4>1, <4>2
      <4>4. k \in DOMAIN spool' /\ spool'[k] = spool[k]
          BY <2>5, <4>1, <4>3
      <4> QED BY <4>1, <4>4 DEF InSpool
    <3> QED BY <2>4, <3>1 DEF Accounts
  <2>8. ASSUME agent.inode = file.inode
        PROVE  /\ agent.target <= file.size
               /\ \A i \in 0 .. (agent.cursor - 1) : Safe(i)'
    <3>1. /\ agent.target <= file.size
          /\ \A i \in 0 .. (agent.cursor - 1) : Safe(i) \/ <<file.gen, i>> \in agent.tmp
        BY <1>2, <2>1, <2>8 DEF NothingLost, RunIsSafe, Writing
    <3>2. \A i \in 0 .. (MaxSize - 1) : Safe(i) => Safe(i)'
        BY <2>7, SafeLasts
    <3>3. \A b \in agent.tmp : b \in InSpool'
        BY <2>2, <2>3, <2>5 DEF InSpool
    <3>4. ASSUME NEW i \in 0 .. (agent.cursor - 1) PROVE Safe(i)'
      <4>1. i \in 0 .. (MaxSize - 1)
          BY <1>0, <2>1
      <4>2. CASE Safe(i)
          BY <3>2, <4>1, <4>2
      <4>3. CASE <<file.gen, i>> \in agent.tmp
          BY <2>4, <3>3, <4>3 DEF Safe
      <4> QED BY <3>1, <4>2, <4>3
    <3> QED BY <3>1, <3>4
  <2>9. \A k \in 1 .. Len(spool') :
           \/ \E l \in 1 .. Len(spool) : spool'[k] = spool[l]
           \/ spool'[k] = new
      BY <2>5
  <2>10. RunIsSafe'
      BY <2>4, <2>6, <2>8 DEF RunIsSafe, SafeUpTo
  <2>11. AckedIsKept'
      BY <2>6 DEF AckedIsKept, Sent
  <2> QED BY <1>0, <1>2, <2>1, <2>3, <2>4, <2>6, <2>7, <2>8, <2>9, <2>10, <2>11, NothingLostLasts
<1>19. CASE NoteQueued
  <2>1. /\ agent.phase = "moved" /\ saved' = [inode |-> agent.inode, off |-> agent.cursor]
        /\ UNCHANGED <<file, spool, keeps, refused, baseline, cut>>
      BY <1>19 DEF NoteQueued
  <2>2. /\ agent'.phase = "chunk" /\ agent'.inode = agent.inode
        /\ agent'.target = agent.target /\ agent'.cursor = agent.cursor
    <3>1. {"phase", "inode", "target", "cursor"} \subseteq DOMAIN agent
        BY <2>1 DEF AgentShape, Writing
    <3> QED BY <1>19, <3>1 DEF NoteQueued, Goto1
  <2>3. Accounts
      BY <2>1 DEF Accounts, InSpool
  <2>4. /\ agent.inode <= file.inode
        /\ agent.cursor \in 0 .. MaxSize
        /\ agent.inode = file.inode => SafeUpTo(agent.cursor) /\ agent.target <= file.size
      BY <1>0, <1>2, <2>1 DEF NothingLost, InodesAreOld, RunIsSafe, Writing, AgentShape
  <2>5. agent.inode = file.inode => SafeUpTo(agent.cursor)'
      BY <2>2, <2>3, <2>4, SafeLasts
  <2>6. RunIsSafe'
      BY <2>1, <2>2, <2>4, <2>5 DEF RunIsSafe, SafeUpTo
  <2>7. AckedIsKept'
      BY <2>2 DEF AckedIsKept, Sent
  <2> QED BY <1>0, <1>2, <2>1, <2>2, <2>3, <2>4, <2>6, <2>7, NothingLostLasts
<1>20. CASE UNCHANGED AgentVars
    BY <1>0, <1>4, <1>20 DEF AgentVars
<1>21. ~Truncate
    BY DEF Truncate
<1>22. CASE MoveIsCut
  <2> DEFINE n == Len(spool)
  <2>1. /\ agent.phase = "made" /\ spool # <<>> /\ spool[n].payload = NoPayload
        /\ spool[n].inode = agent.inode /\ spool[n].end = agent.cursor
        /\ agent.cursor \in Nat /\ agent.cursor <= MaxSize
        /\ agent.inode <= file.inode
      BY <1>0, <1>2, <1>22
      DEF MoveIsCut, NothingLost, RunIsSafe, InodesAreOld, Writing, AgentShape
  <2>2. ~Writing' /\ ~Sent' /\ UNCHANGED <<file, saved, keeps, refused, baseline>>
      BY <1>22, CutMoves
  <2>3. PICK part \in SUBSET agent.tmp : /\ spool' = [spool EXCEPT ![n].payload = part]
                                         /\ cut' = cut \cup (agent.tmp \ part)
      BY <1>22, CutMoves
  <2>4. n \in 1 .. Len(spool) /\ DOMAIN spool = 1 .. n
      BY <1>0, <2>1 DEF AgentShape
  <2>5. /\ DOMAIN spool' = 1 .. n /\ Len(spool') = n
        /\ spool'[n].payload = part /\ spool'[n].inode = agent.inode /\ spool'[n].end = agent.cursor
        /\ \A k \in 1 .. n : k # n => spool'[k] = spool[k]
    <3>1. Len(spool') = Len(spool)
        BY <2>3 DEF AgentShape
    <3> QED BY <2>1, <2>3, <2>4, <3>1, LastPayload
  <2>6. Accounts
    <3>1. ASSUME NEW b \in Bytes, b \in InSpool PROVE b \in InSpool'
      <4>1. PICK k \in DOMAIN spool : b \in spool[k].payload
          BY <3>1 DEF InSpool
      <4>2. b \notin NoPayload
          BY AgentAssumption DEF Bytes, NoPayload
      <4>3. k \in DOMAIN spool' /\ spool'[k] = spool[k]
          BY <2>1, <2>4, <2>5, <4>1, <4>2
      <4> QED BY <4>1, <4>3 DEF InSpool
    <3> QED BY <2>2, <2>3, <3>1 DEF Accounts
  <2>7. ASSUME agent.inode = file.inode, NEW i \in 0 .. (agent.cursor - 1) PROVE Safe(i)'
    <3>1. Safe(i) \/ <<file.gen, i>> \in agent.tmp
        BY <1>2, <2>1, <2>7 DEF NothingLost, RunIsSafe, Writing
    <3>2. i \in 0 .. (MaxSize - 1)
        BY <1>0, <2>1
    <3>3. CASE Safe(i)
        BY <2>6, <3>2, <3>3, SafeLasts
    <3>4. CASE <<file.gen, i>> \in agent.tmp
      <4>1. <<file.gen, i>> \in InSpool' \/ <<file.gen, i>> \in cut'
          BY <2>3, <2>4, <2>5, <3>4 DEF InSpool
      <4> QED BY <2>2, <4>1 DEF Safe
    <3> QED BY <3>1, <3>3, <3>4
  <2>8. \A k \in 1 .. Len(spool') :
           \/ \E l \in 1 .. Len(spool) : spool'[k] = spool[l]
           \/ /\ spool'[k].inode <= file.inode
              /\ (spool'[k].inode = file.inode /\ spool'[k].payload # NoPayload) =>
                    \A i \in 0 .. (spool'[k].end - 1) : Safe(i)'
    <3> SUFFICES ASSUME NEW k \in 1 .. Len(spool'), k = n
                 PROVE  /\ spool'[k].inode <= file.inode
                        /\ spool'[k].inode = file.inode =>
                              \A i \in 0 .. (spool'[k].end - 1) : Safe(i)'
        BY <2>5
    <3> QED BY <2>1, <2>5, <2>7
  <2>9. AckedIsKept'
      BY <2>2 DEF AckedIsKept
  <2> QED BY <1>0, <1>2, <2>2, <2>6, <2>8, <2>9, NothingLostLasts
<1> QED BY <1>5, <1>6, <1>7, <1>8, <1>9, <1>10, <1>11, <1>12, <1>13, <1>14, <1>15, <1>16, <1>17,
           <1>18, <1>19, <1>20, <1>21, <1>22 DEF AgentNext, AgentStep

(* The file, the state file, the spool and the counts keep their types.      *)
THEOREM AgentTypeCorrect == AgentSpec => []AgentTypeOK
<1>1. AgentInit => AgentShape
    BY SpoolInitOK DEF SpoolInv
<1>2. AgentShape /\ [AgentNext]_AgentVars => AgentShape'
    BY AgentShapeStep
<1>3. AgentShape => AgentTypeOK
  <2> SUFFICES ASSUME AgentShape PROVE AgentTypeOK
      OBVIOUS
  <2>1. \A i \in DOMAIN spool : spool[i].payload = NoPayload \/ spool[i].payload \subseteq Bytes
    <3>1. \A i \in DOMAIN spool : spool[i] \in SpoolJobs
        BY DEF AgentShape
    <3> QED BY <3>1 DEF SpoolJobs
  <2> QED BY <2>1 DEF AgentShape, AgentTypeOK
<1> QED BY <1>1, <1>2, <1>3, PTL DEF AgentSpec

(* The agent's own claim ("sin perder bytes"), for any size of the file, any
   lines, chunk and scan sizes, any answers of the endpoint and any number of
   deaths: what lies before the offset on record was kept by the endpoint, is
   in the spool, was refused for good or precedes the first run. *)
THEOREM NoByteIsSkipped == AgentSpec => []NothingIsSkipped
<1>1. AgentInit => SpoolInv
    BY SpoolInitOK
<1>2. SpoolInv /\ [AgentNext]_AgentVars => SpoolInv'
    BY AgentShapeStep, NothingLostStep DEF SpoolInv
<1>3. SpoolInv => NothingIsSkipped
    BY DEF SpoolInv, NothingLost, OffsetIsSafe, SafeUpTo, Safe, NothingIsSkipped
<1> QED BY <1>1, <1>2, <1>3, PTL DEF AgentSpec

-------------------------------------------------------------------------------
(* How often the agent sends a byte *)

(* What is still to be sent of the spool, or about to be in it.             *)
Waits(b) ==
    \/ \E k \in DOMAIN spool : (k = 1 => ~Sent) /\ b \in spool[k].payload
    \/ agent.phase = "made" /\ b \in agent.tmp

(* The jobs and the run are about the file as it is now.                    *)
Settled ==
    /\ \A k \in DOMAIN spool : spool[k].inode = file.inode /\ spool[k].end <= file.size
    /\ Writing => agent.inode = file.inode /\ agent.target <= file.size

(* The offset on record lies behind the end of the file.                    *)
Outgrown == saved.inode = file.inode /\ saved.off > file.size

(* No scan to come begins before i; what the answer to the first job will   *)
(* be written down as counts.                                                *)
Covers(i) ==
    /\ ~Outgrown
    /\ \/ saved.inode = file.inode /\ i < saved.off
       \/ agent.phase \in {"acked", "acked2"} /\ i < Head1.end

Ahead(i) == Writing /\ i >= agent.cursor

(* A byte that may be kept once more, with no new trouble, or twice more:   *)
(* once by a job of a file that was replaced and once by the next scan.      *)
Once(b) ==
    \/ Waits(b)
    \/ b[1] = file.gen /\ (~Settled \/ Ahead(b[2]) \/ ~Covers(b[2]))

Twice(b) ==
    /\ b[1] = file.gen
    /\ \/ ~Settled /\ (Waits(b) \/ Ahead(b[2]))
       \/ Waits(b) /\ Outgrown /\ ~Writing

Allowed == trouble + file.gen

Bounded(b) ==
    /\ keeps[b] <= Allowed
    /\ Once(b) => keeps[b] + 1 <= Allowed
    /\ Twice(b) => keeps[b] + 2 <= Allowed
    /\ b[1] > file.gen => keeps[b] = 0

AllBounded == trouble \in Nat /\ \A b \in Bytes : Bounded(b)

(* Offsets lie behind newlines.                                             *)
Aligned(off) == off = 0 \/ off - 1 \in Newlines

(* The spool holds each byte once, and its jobs end at or before the cursor.*)
SpoolOrder ==
    /\ file.inode # 0
    /\ Aligned(saved.off)
    /\ \A k \in DOMAIN spool :
         /\ Aligned(spool[k].end)
         /\ \A b \in Bytes : b \in spool[k].payload => b[1] <= file.gen /\ b[2] < spool[k].end
         /\ \A l \in DOMAIN spool, b \in Bytes :
               b \in spool[k].payload /\ b \in spool[l].payload => k = l
    /\ agent.phase = "scan" => spool = <<>>

RunOrder ==
    /\ Writing => \A k \in DOMAIN spool : spool[k].end <= agent.cursor
    /\ agent.phase = "made" =>
         /\ spool # <<>> => spool[Len(spool)].end = agent.cursor
         /\ \A b \in Bytes : b \in agent.tmp =>
              /\ b[1] <= file.gen /\ b[2] < agent.cursor
              /\ \A k \in DOMAIN spool : b \notin spool[k].payload
    /\ agent.phase \in {"made", "moved"} => Aligned(agent.cursor)
    /\ (agent.phase = "chunk" /\ spool # <<>>) =>
         saved.inode = agent.inode /\ saved.off = agent.cursor

RepeatInv == AgentShape /\ SpoolOrder /\ RunOrder /\ AllBounded

(* A byte that waits belongs to the file as it is or was.                   *)
LEMMA WaitersAreRead ==
    ASSUME SpoolOrder, RunOrder, NEW b \in Bytes, Waits(b)
    PROVE  b[1] <= file.gen
BY DEF SpoolOrder, RunOrder, Waits

(* A step in which no more of a byte can be sent than it adds trouble.      *)
LEMMA StaysBounded ==
    ASSUME AgentShape, trouble \in Nat, NEW b \in Bytes, Bounded(b),
           NEW d \in {0, 1}, keeps'[b] \in Nat, keeps'[b] <= keeps[b] + d,
           trouble' = trouble + d, file'.gen = file.gen,
           b[1] > file.gen => keeps'[b] = 0,
           Once(b)' => Once(b), Twice(b)' => Twice(b)
    PROVE  Bounded(b)'
<1>1. keeps[b] \in Nat /\ file.gen \in Nat
    BY AgentAssumption DEF AgentShape
<1> QED
    BY <1>1 DEF Bounded, Allowed

(* What may be sent depends on these alone.                                 *)
LEMMA NoMoreIsSent ==
    ASSUME NEW b \in Bytes, file'.gen = file.gen, Waits(b)' => Waits(b), Settled => Settled',
           Ahead(b[2])' => Ahead(b[2]), Settled /\ Covers(b[2]) => Covers(b[2])',
           Settled /\ Waits(b) /\ Outgrown' /\ ~Writing' => Outgrown /\ ~Writing
    PROVE  (Once(b)' => Once(b)) /\ (Twice(b)' => Twice(b))
BY DEF Once, Twice

(* A chunk that gets anywhere ends behind a newline.                        *)
LEMMA ChunksAreAligned ==
    ASSUME AgentShape, agent.phase = "chunk", End > agent.cursor
    PROVE  Aligned(End)
<1> DEFINE cursor == agent.cursor
           target == agent.target
           proposed == cursor + ChunkBytes
           end == IF proposed > target THEN target ELSE proposed
           from == IF end - ScanBack > cursor THEN end - ScanBack ELSE cursor
           to == IF end + ScanForward < target THEN end + ScanForward ELSE target
           back == NewlinesIn(from, end)
           forward == NewlinesIn(end, to)
<1>0. cursor \in Nat /\ End = ChooseEnd(cursor, proposed, target)
    BY DEF AgentShape, Writing, End
<1>1. End = IF end <= cursor THEN cursor
            ELSE IF back # {} THEN Max(back) + 1
            ELSE IF forward # {} THEN Min(forward) + 1
            ELSE cursor
    BY <1>0 DEF ChooseEnd
<1>2. CASE back # {} /\ End = Max(back) + 1
  <2>1. Max(back) \in Newlines /\ Max(back) \in Nat
    <3>1. back \in SUBSET (0 .. MaxSize) /\ back \subseteq Newlines /\ MaxSize \in Nat
        BY LinesInFile, AgentAssumption
    <3> HIDE DEF back
    <3>2. Max(back) \in back
        BY <1>2, <3>1, MaxOfPositions
    <3>3. \A y \in back : y \in Newlines /\ y \in Nat
        BY <3>1
    <3> QED BY <3>2, <3>3
  <2> HIDE DEF back
  <2>2. End - 1 = Max(back)
      BY <1>2, <2>1
  <2> QED BY <2>1, <2>2 DEF Aligned
<1>3. CASE forward # {} /\ End = Min(forward) + 1
  <2>1. Min(forward) \in Newlines /\ Min(forward) \in Nat
    <3>1. forward \in SUBSET (0 .. MaxSize) /\ forward \subseteq Newlines /\ MaxSize \in Nat
        BY LinesInFile, AgentAssumption
    <3> HIDE DEF forward
    <3>2. forward \in SUBSET Nat
        BY <3>1
    <3>3. Min(forward) \in forward
        BY <1>3, <3>2, MinOfPositions
    <3>4. \A y \in forward : y \in Newlines /\ y \in Nat
        BY <3>1
    <3> QED BY <3>3, <3>4
  <2> HIDE DEF forward
  <2>2. End - 1 = Min(forward)
      BY <1>3, <2>1
  <2> QED BY <2>1, <2>2 DEF Aligned
<1> HIDE DEF back, forward, end
<1> QED
    BY <1>0, <1>1, <1>2, <1>3

(* A scan does not go back behind an aligned offset.                        *)
LEMMA ScansGoOn ==
    ASSUME NEW off \in Nat, Aligned(off)
    PROVE  AlignCursor(off) >= off
<1> DEFINE back == NewlinesIn(off - ScanBack, off)
<1>1. CASE off <= 0 \/ back = {}
    BY <1>1 DEF AlignCursor
<1>2. CASE ~(off <= 0) /\ back # {}
  <2>1. back \in SUBSET (0 .. MaxSize) /\ MaxSize \in Nat
      BY LinesInFile, AgentAssumption
  <2>2. AlignCursor(off) = Max(back) + 1
      BY <1>2 DEF AlignCursor
  <2>3. off - 1 \in back
    <3>1. PICK i \in back : TRUE
        BY <1>2
    <3>2. i \in Int /\ off - ScanBack <= i /\ i < off
        BY <2>1 DEF NewlinesIn
    <3>3. off - 1 \in Newlines /\ off - ScanBack <= off - 1 /\ off - 1 < off
        BY <1>2, <3>2, AgentAssumption DEF Aligned
    <3> QED BY <3>3 DEF NewlinesIn
  <2> HIDE DEF back
  <2>4. Max(back) \in back /\ off - 1 <= Max(back)
      BY <1>2, <2>1, <2>3, MaxOfPositions
  <2>5. Max(back) \in Int
    <3>1. \A y \in back : y \in Int
        BY <2>1
    <3> QED BY <2>4, <3>1
  <2> QED BY <2>2, <2>4, <2>5
<1> QED
    BY <1>1, <1>2

(* The spool as it is, or without its first job, is in order.               *)
LEMMA OrderStays ==
    ASSUME AgentShape, SpoolOrder, spool' = spool \/ (spool # <<>> /\ spool' = Tail(spool)),
           file'.gen \in Nat, file'.gen >= file.gen, file'.inode # 0, Aligned(saved'.off),
           agent'.phase = "scan" => spool' = <<>>
    PROVE  SpoolOrder'
<1>0. file.gen \in Nat /\ spool \in Seq(SpoolJobs)
    BY AgentAssumption DEF AgentShape
<1>1. \A b \in Bytes : b[1] \in Nat
    BY DEF Bytes
<1>2. CASE spool' = spool
    BY <1>0, <1>1, <1>2 DEF SpoolOrder, Aligned
<1>3. CASE spool # <<>> /\ spool' = Tail(spool)
  <2>1. \A k \in DOMAIN spool' : k \in Nat /\ k + 1 \in DOMAIN spool /\ spool'[k] = spool[k + 1]
      BY <1>0, <1>3, HeadLeaves
  <2>2. ASSUME NEW k \in DOMAIN spool'
        PROVE  /\ Aligned(spool'[k].end)
               /\ \A b \in Bytes : b \in spool'[k].payload => b[1] <= file'.gen /\ b[2] < spool'[k].end
               /\ \A l \in DOMAIN spool', b \in Bytes :
                    b \in spool'[k].payload /\ b \in spool'[l].payload => k = l
    <3>1. k + 1 \in DOMAIN spool /\ spool'[k] = spool[k + 1]
        BY <2>1
    <3>2. Aligned(spool'[k].end)
        BY <3>1 DEF SpoolOrder
    <3>3. \A b \in Bytes : b \in spool'[k].payload => b[1] <= file'.gen /\ b[2] < spool'[k].end
        BY <1>0, <1>1, <3>1 DEF SpoolOrder
    <3>4. ASSUME NEW l \in DOMAIN spool', NEW b \in Bytes,
                 b \in spool'[k].payload /\ b \in spool'[l].payload
          PROVE  k = l
      <4>1. k + 1 = l + 1
          BY <2>1, <3>1, <3>4 DEF SpoolOrder
      <4> QED BY <2>1, <4>1
    <3> QED BY <3>2, <3>3, <3>4
  <2> QED BY <2>2 DEF SpoolOrder, Aligned
<1> QED
    BY <1>2, <1>3

LEMMA OrdersStep ==
    AgentShape /\ SpoolOrder /\ RunOrder /\ [AgentNext]_AgentVars => SpoolOrder' /\ RunOrder'
<1> SUFFICES ASSUME AgentShape, SpoolOrder, RunOrder, [AgentNext]_AgentVars
             PROVE  SpoolOrder' /\ RunOrder'
    OBVIOUS
<1>0. /\ file.gen \in Nat /\ file.inode \in Nat /\ file.inode # 0 /\ Aligned(saved.off)
      /\ "phase" \in DOMAIN agent /\ spool \in Seq(SpoolJobs)
    BY AgentAssumption DEF AgentShape, SpoolOrder
<1>00. Aligned(0)
    BY DEF Aligned
(* Steps that leave the run where it is.                                    *)
<1>1. ASSUME NEW n \in 1 .. MaxSize, Grow(n) PROVE SpoolOrder' /\ RunOrder'
  <2>1. UNCHANGED <<saved, spool, agent>> /\ file'.gen = file.gen /\ file'.inode = file.inode
      BY <1>1 DEF Grow, AgentShape
  <2>2. SpoolOrder'
      BY <1>0, <2>1, OrderStays DEF SpoolOrder
  <2> QED BY <2>1, <2>2 DEF RunOrder, Writing
<1>2. CASE Rotate \/ Truncate
  <2>1. UNCHANGED <<saved, spool, agent>> /\ file'.gen = file.gen + 1 /\ file'.inode # 0
    <3>1. CASE Rotate
      <4>1. file.inode + 1 # 0
          BY <1>0
      <4> QED BY <3>1, <4>1 DEF Rotate
    <3>2. CASE Truncate
        BY <1>0, <3>2 DEF Truncate, AgentShape
    <3> QED BY <1>2, <3>1, <3>2
  <2>2. SpoolOrder'
      BY <1>0, <2>1, OrderStays DEF SpoolOrder
  <2>3. \A b \in Bytes : b[1] \in Nat /\ (b[1] <= file.gen => b[1] <= file'.gen)
      BY <1>0, <2>1 DEF Bytes
  <2> QED BY <2>1, <2>2, <2>3 DEF RunOrder, Writing
(* Steps of the flushes, and ends of the run.                               *)
<1>3. ASSUME file' = file, Aligned(saved'.off),
             spool' = spool \/ (spool # <<>> /\ spool' = Tail(spool)),
             agent'.phase \notin {"chunk", "made", "moved"},
             agent'.phase = "scan" => spool' = <<>>
      PROVE  SpoolOrder' /\ RunOrder'
  <2>1. SpoolOrder'
      BY <1>0, <1>3, OrderStays
  <2>2. RunOrder'
      BY <1>3 DEF RunOrder, Writing
  <2> QED BY <2>1, <2>2
<1>4. CASE StartRun
    BY <1>0, <1>3, <1>4 DEF StartRun
<1>5. CASE DropHollow \/ SendRefused
    BY <1>0, <1>3, <1>5 DEF DropHollow, SendRefused, Flushing
<1>6. CASE SendKept
    BY <1>0, <1>3, <1>6 DEF SendKept
<1>7. CASE SendFails
    BY <1>0, <1>3, <1>7 DEF SendFails, Off
<1>8. CASE NoteSent
  <2>1. Sent /\ spool # <<>>
      BY <1>8 DEF NoteSent, Sent, AgentShape
  <2>2. Head1 = spool[1] /\ 1 \in DOMAIN spool
      BY <1>0, <2>1 DEF Head1
  <2>3. Aligned(Head1.end)
      BY <2>2 DEF SpoolOrder
  <2>4. saved' = saved \/ saved'.off = Head1.end
      BY <1>8 DEF NoteSent, StateAfterSend
  <2>5. Aligned(saved'.off)
      BY <1>0, <2>3, <2>4
  <2> QED BY <1>0, <1>3, <1>8, <2>5 DEF NoteSent, Goto1
<1>9. CASE RemoveSent
  <2>1. spool # <<>>
      BY <1>9 DEF RemoveSent, Sent, AgentShape
  <2> QED BY <1>0, <1>3, <1>9, <2>1 DEF RemoveSent, Goto1
<1>10. CASE FlushOver
    BY <1>0, <1>3, <1>10 DEF FlushOver, Goto1, Off
<1>11. CASE FileOver
    BY <1>0, <1>3, <1>11 DEF FileOver, Goto1, Off
<1>12. CASE AgentDies
    BY <1>0, <1>00, <1>3, <1>12 DEF AgentDies, EmptyState, Off
<1>13. CASE ScanFile
  <2>1. CASE Goto1("final")
      BY <1>0, <1>3, <1>13, <2>1 DEF ScanFile, Goto1
  <2>2. CASE ~Goto1("final")
    <3>1. /\ agent'.phase = "chunk" /\ UNCHANGED <<file, saved, spool>> /\ spool = <<>>
        BY <1>13, <2>2 DEF ScanFile, SpoolOrder
    <3>2. SpoolOrder'
        BY <1>0, <3>1, OrderStays
    <3> QED BY <3>1, <3>2 DEF RunOrder
  <2> QED BY <2>1, <2>2
(* Chunks.                                                                   *)
<1>14. ASSUME NEW same \in BOOLEAN, MakeJob(same) PROVE SpoolOrder' /\ RunOrder'
  <2> DEFINE upto == IF End < file.size THEN End ELSE file.size
             tmp == Span(file.gen, agent.cursor, upto)
             last == Len(spool)
  <2>1. /\ agent.phase = "chunk" /\ End \in Nat /\ End > agent.cursor
        /\ agent.cursor \in Nat /\ Aligned(End) /\ file.size \in Nat
    <3>1. agent.phase = "chunk" /\ End > agent.cursor
        BY <1>14 DEF MakeJob
    <3> QED BY <3>1, EndIsBetween, ChunksAreAligned, AgentAssumption DEF AgentShape, Writing
  <2>2. /\ agent'.phase = "made" /\ agent'.cursor = End /\ agent'.tmp = tmp
        /\ UNCHANGED <<file, saved>>
      BY <1>14 DEF MakeJob
  <2>3. ASSUME NEW b \in Bytes, b \in tmp
        PROVE  b[1] = file.gen /\ b[2] >= agent.cursor /\ b[2] < End
      BY <2>1, <2>3 DEF Span
  <2> HIDE DEF tmp
  <2>4. \A k \in DOMAIN spool : spool[k].end <= agent.cursor /\ spool[k].end \in Nat /\ spool[k] \in SpoolJobs
    <3>1. \A k \in DOMAIN spool : spool[k] \in SpoolJobs
        BY <1>0
    <3> QED BY <2>1, <3>1, AgentAssumption DEF RunOrder, Writing, SpoolJobs
  <2>5. /\ \A k \in DOMAIN spool' :
             \/ k \in DOMAIN spool /\ spool'[k] = spool[k] /\ k # Len(spool')
             \/ /\ k = Len(spool') /\ spool'[k].end = End
                /\ \/ k \in DOMAIN spool /\ spool'[k].payload = spool[k].payload
                   \/ spool'[k].payload = NoPayload
        /\ spool' # <<>> => Len(spool') \in DOMAIN spool'
        /\ \A k \in DOMAIN spool : k \in DOMAIN spool'
    <3>1. CASE same
      <4>1. spool' = [spool EXCEPT ![last] = Job(spool[last].payload)]
          BY <1>14, <3>1 DEF MakeJob
      <4>2. Job(spool[last].payload).end = End /\ Job(spool[last].payload).payload = spool[last].payload
          BY DEF Job
      <4> HIDE DEF last
      <4>3. DOMAIN spool' = DOMAIN spool /\ Len(spool') = Len(spool)
          BY <1>0, <4>1
      <4> QED BY <1>0, <4>1, <4>2, <4>3 DEF last
    <3>2. CASE ~same
      <4>1. spool' = IF same THEN [spool EXCEPT ![Len(spool)] = Job(@.payload)]
                      ELSE Append(spool, Job(NoPayload))
          BY <1>14 DEF MakeJob
      <4>2. spool' = Append(spool, Job(NoPayload))
          BY <3>2, <4>1, Zenon
      <4>3. Job(NoPayload).end = End /\ Job(NoPayload).payload = NoPayload
          BY DEF Job
      <4> DEFINE j == Job(NoPayload)
      <4> HIDE DEF j
      <4>4. /\ DOMAIN spool' = 1 .. Len(spool) + 1 /\ Len(spool') = Len(spool) + 1
            /\ DOMAIN spool = 1 .. Len(spool) /\ Len(spool) \in Nat
            /\ spool'[Len(spool) + 1] = j
            /\ \A k \in DOMAIN spool : spool'[k] = spool[k]
          BY <1>0, <4>2 DEF j
      <4> QED BY <4>3, <4>4 DEF j
    <3> QED BY <3>1, <3>2
  <2>6. \A b \in Bytes : b \notin NoPayload /\ b[2] \in Nat
      BY DEF Bytes, NoPayload
  <2>7. ASSUME NEW k \in DOMAIN spool', NEW b \in Bytes, b \in spool'[k].payload
        PROVE  /\ k \in DOMAIN spool /\ b \in spool[k].payload
               /\ b[1] <= file.gen /\ b[2] < spool[k].end /\ b[2] < agent.cursor
    <3>1. k \in DOMAIN spool /\ b \in spool[k].payload
        BY <2>5, <2>6, <2>7
    <3>2. b[1] <= file.gen /\ b[2] < spool[k].end
        BY <3>1 DEF SpoolOrder
    <3> QED BY <2>1, <2>4, <2>6, <3>1, <3>2
  <2>8. \A k \in DOMAIN spool' : Aligned(spool'[k].end) /\ spool'[k].end <= End
    <3> TAKE k \in DOMAIN spool'
    <3>1. CASE spool'[k].end = End
        BY <2>1, <3>1
    <3>2. CASE k \in DOMAIN spool /\ spool'[k] = spool[k]
        BY <2>1, <2>4, <3>2 DEF SpoolOrder
    <3> QED BY <2>5, <3>1, <3>2
  <2>9. SpoolOrder'
    <3>1. ASSUME NEW k \in DOMAIN spool', NEW b \in Bytes, b \in spool'[k].payload
          PROVE  /\ b[1] <= file'.gen /\ b[2] < spool'[k].end
                 /\ \A l \in DOMAIN spool' : b \in spool'[l].payload => k = l
      <4>1. /\ k \in DOMAIN spool /\ b \in spool[k].payload
            /\ b[1] <= file.gen /\ b[2] < spool[k].end /\ b[2] < agent.cursor
          BY <2>7, <3>1
      <4>2. b[2] < spool'[k].end
          BY <2>1, <2>5, <2>6, <4>1
      <4>3. ASSUME NEW l \in DOMAIN spool', b \in spool'[l].payload PROVE k = l
        <5>1. l \in DOMAIN spool /\ b \in spool[l].payload
            BY <2>7, <4>3
        <5> QED BY <4>1, <5>1 DEF SpoolOrder
      <4> QED BY <2>2, <4>1, <4>2, <4>3
    <3> QED BY <1>0, <2>2, <2>8, <3>1 DEF SpoolOrder, Aligned
  <2>10. RunOrder'
    <3>1. spool' # <<>> => spool'[Len(spool')].end = End
        BY <2>5
    <3>2. ASSUME NEW b \in Bytes, b \in tmp
          PROVE  /\ b[1] <= file'.gen /\ b[2] < End
                 /\ \A k \in DOMAIN spool' : b \notin spool'[k].payload
      <4>1. b[1] = file.gen /\ b[2] >= agent.cursor /\ b[2] < End
          BY <2>3, <3>2
      <4>2. ASSUME NEW k \in DOMAIN spool', b \in spool'[k].payload PROVE FALSE
        <5>1. b[2] < agent.cursor
            BY <2>7, <4>2
        <5> QED BY <2>1, <2>6, <4>1, <5>1
      <4> QED BY <1>0, <2>2, <4>1, <4>2
    <3> QED BY <2>1, <2>2, <2>8, <3>1, <3>2 DEF RunOrder
  <2> QED BY <2>9, <2>10
<1>15. CASE MovePayload
  <2>1. /\ agent.phase = "made" /\ spool' = [spool EXCEPT ![Len(spool)].payload = agent.tmp]
        /\ agent'.phase = "moved" /\ UNCHANGED <<file, saved>>
      BY <1>0, <1>15 DEF MovePayload, Goto1
  <2>2. agent'.cursor = agent.cursor /\ Writing
      BY <1>15, <2>1 DEF MovePayload, Goto1, AgentShape, Writing
  <2>3. /\ DOMAIN spool' = DOMAIN spool
        /\ \A k \in DOMAIN spool :
             /\ spool'[k].end = spool[k].end
             /\ k # Len(spool) => spool'[k] = spool[k]
             /\ k = Len(spool) => spool'[k].payload = agent.tmp
    <3>1. \A k \in DOMAIN spool : spool[k] \in SpoolJobs
        BY <1>0
    <3> QED BY <1>0, <2>1, <3>1 DEF SpoolJobs
  <2>4. SpoolOrder'
    <3>1. ASSUME NEW k \in DOMAIN spool, NEW b \in Bytes, b \in spool'[k].payload
          PROVE  /\ b[1] <= file.gen /\ b[2] < spool[k].end
                 /\ \A l \in DOMAIN spool : b \in spool'[l].payload => k = l
      <4>1. CASE k = Len(spool)
        <5>0. spool # <<>>
            BY <1>0
        <5>1. b \in agent.tmp /\ spool[k].end = agent.cursor
            BY <2>1, <2>3, <3>1, <4>1, <5>0 DEF RunOrder
        <5>2. /\ b[1] <= file.gen /\ b[2] < agent.cursor
              /\ \A l \in DOMAIN spool : b \notin spool[l].payload
            BY <2>1, <5>1 DEF RunOrder
        <5>3. \A l \in DOMAIN spool : b \in spool'[l].payload => k = l
            BY <2>3, <4>1, <5>2
        <5> QED BY <5>1, <5>2, <5>3
      <4>2. CASE k # Len(spool)
        <5>1. b \in spool[k].payload
            BY <2>3, <3>1, <4>2
        <5>2. b \notin agent.tmp
            BY <2>1, <5>1 DEF RunOrder
        <5> QED BY <2>3, <5>1, <5>2 DEF SpoolOrder
      <4> QED BY <4>1, <4>2
    <3> QED BY <1>0, <2>1, <2>3, <3>1 DEF SpoolOrder, Aligned
  <2>5. RunOrder'
      BY <2>1, <2>2, <2>3 DEF RunOrder, Writing, Aligned
  <2> QED BY <2>4, <2>5
<1>16. CASE NoteQueued
  <2>1. /\ agent.phase = "moved" /\ saved' = [inode |-> agent.inode, off |-> agent.cursor]
        /\ agent'.phase = "chunk" /\ UNCHANGED <<file, spool>>
      BY <1>0, <1>16 DEF NoteQueued, Goto1
  <2>2. agent'.cursor = agent.cursor /\ agent'.inode = agent.inode /\ Writing
      BY <1>16, <2>1 DEF NoteQueued, Goto1, AgentShape, Writing
  <2>3. Aligned(saved'.off)
      BY <2>1 DEF RunOrder
  <2>4. SpoolOrder'
      BY <1>0, <2>1, <2>3, OrderStays
  <2>5. RunOrder'
      BY <2>1, <2>2 DEF RunOrder, Writing
  <2> QED BY <2>4, <2>5
<1>17. CASE UNCHANGED AgentVars
    BY <1>17 DEF AgentVars, SpoolOrder, RunOrder, Writing, Aligned
<1>18. CASE MoveIsCut
  <2>1. /\ agent.phase = "made" /\ agent'.phase = "off" /\ ~Writing'
        /\ UNCHANGED <<file, saved>>
      BY <1>0, <1>18, CutMoves
  <2>2. PICK part \in SUBSET agent.tmp : spool' = [spool EXCEPT ![Len(spool)].payload = part]
      BY <1>0, <1>18, CutMoves
  <2>3. /\ DOMAIN spool' = DOMAIN spool
        /\ \A k \in DOMAIN spool :
             /\ spool'[k].end = spool[k].end
             /\ k # Len(spool) => spool'[k] = spool[k]
             /\ k = Len(spool) => spool'[k].payload = part
      BY <1>0, <2>2, LastPayload
  <2>4. ASSUME NEW k \in DOMAIN spool, NEW b \in Bytes, b \in spool'[k].payload
        PROVE  /\ b[1] <= file.gen /\ b[2] < spool[k].end
               /\ \A l \in DOMAIN spool : b \in spool'[l].payload => k = l
    <3>1. CASE k = Len(spool)
      <4>1. spool # <<>>
          BY <1>0
      <4>2. b \in agent.tmp /\ spool[k].end = agent.cursor
          BY <2>1, <2>3, <2>4, <3>1, <4>1 DEF RunOrder
      <4>3. /\ b[1] <= file.gen /\ b[2] < agent.cursor
            /\ \A l \in DOMAIN spool : b \notin spool[l].payload
          BY <2>1, <4>2 DEF RunOrder
      <4>4. \A l \in DOMAIN spool : b \in spool'[l].payload => k = l
          BY <2>3, <3>1, <4>3
      <4> QED BY <4>2, <4>3, <4>4
    <3>2. CASE k # Len(spool)
      <4>1. b \in spool[k].payload
          BY <2>3, <2>4, <3>2
      <4>2. b \notin agent.tmp
          BY <2>1, <4>1 DEF RunOrder
      <4> QED BY <2>3, <4>1, <4>2 DEF SpoolOrder
    <3> QED BY <3>1, <3>2
  <2>5. SpoolOrder'
      BY <1>0, <2>1, <2>3, <2>4 DEF SpoolOrder, Aligned
  <2>6. RunOrder'
      BY <2>1 DEF RunOrder, Writing
  <2> QED BY <2>5, <2>6
<1> QED
    BY <1>1, <1>2, <1>4, <1>5, <1>6, <1>7, <1>8, <1>9, <1>10, <1>11, <1>12, <1>13, <1>14, <1>15,
       <1>16, <1>17, <1>18 DEF AgentNext, AgentStep

(* What waits, waits in the spool as it was.                                *)
LEMMA WaitsInTail ==
    ASSUME AgentShape, spool # <<>>, spool' = Tail(spool), agent'.phase # "made", NEW b \in Bytes
    PROVE  /\ Waits(b)' => Waits(b)
           /\ (\A k \in DOMAIN spool : spool[k].inode = file.inode /\ spool[k].end <= file.size)
                => \A k \in DOMAIN spool' : spool'[k].inode = file.inode /\ spool'[k].end <= file.size
<1>1. /\ spool \in Seq(SpoolJobs)
      /\ \A k \in DOMAIN spool' : k \in Nat \ {0} /\ k + 1 \in DOMAIN spool /\ spool'[k] = spool[k + 1]
  <2>1. spool \in Seq(SpoolJobs)
      BY DEF AgentShape
  <2> QED BY <2>1, HeadLeaves
<1>2. ASSUME Waits(b)' PROVE Waits(b)
  <2>1. PICK k \in DOMAIN spool' : b \in spool'[k].payload
      BY <1>2 DEF Waits
  <2>2. k + 1 \in DOMAIN spool /\ k + 1 # 1 /\ b \in spool[k + 1].payload
      BY <1>1, <2>1
  <2> QED BY <2>2 DEF Waits
<1> QED
    BY <1>1, <1>2

(* A job that is sent once more, or for the first time.                     *)
LEMMA KeepAdds ==
    ASSUME AgentShape, NEW j, Keep(j), NEW b \in Bytes
    PROVE  /\ keeps[b] \in Nat /\ keeps'[b] \in Nat
           /\ keeps'[b] = IF b \in j.payload THEN keeps[b] + 1 ELSE keeps[b]
BY DEF AgentShape, Keep

LEMMA BoundedStep == RepeatInv /\ [AgentNext]_AgentVars => AllBounded'
<1> SUFFICES ASSUME RepeatInv, [AgentNext]_AgentVars PROVE AllBounded'
    OBVIOUS
<1>0. /\ AgentShape /\ SpoolOrder /\ RunOrder /\ AllBounded /\ trouble \in Nat
      /\ file.gen \in Nat /\ file.inode \in Nat /\ file.inode # 0 /\ file.size \in Nat
      /\ saved.off \in Nat /\ saved.inode \in Int
      /\ "phase" \in DOMAIN agent /\ spool \in Seq(SpoolJobs)
      /\ \A b \in Bytes : Bounded(b) /\ keeps[b] \in Nat /\ b[1] \in Nat /\ b[2] \in Nat
  <2>1. \A b \in Bytes : b[1] \in Nat /\ b[2] \in Nat
      BY DEF Bytes
  <2>2. file.gen \in Nat /\ file.size \in Nat /\ saved.off \in Nat
      BY AgentAssumption DEF RepeatInv, AgentShape
  <2> QED BY <2>1, <2>2 DEF RepeatInv, AllBounded, AgentShape, SpoolOrder
(* A step that sends nothing, and lets no more be sent.                     *)
<1>a. ASSUME keeps' = keeps, trouble' = trouble, file'.gen = file.gen,
             \A b \in Bytes : (Once(b)' => Once(b)) /\ (Twice(b)' => Twice(b))
      PROVE  AllBounded'
  <2>1. ASSUME NEW b \in Bytes PROVE Bounded(b)'
    <3>1. b[1] > file.gen => keeps'[b] = 0
        BY <1>0, <1>a DEF Bounded
    <3>2. keeps'[b] \in Nat /\ keeps'[b] <= keeps[b] + 0 /\ trouble' = trouble + 0
        BY <1>0, <1>a
    <3>3. (Once(b)' => Once(b)) /\ (Twice(b)' => Twice(b)) /\ Bounded(b)
        BY <1>0, <1>a
    <3> QED BY <1>0, <1>a, <3>1, <3>2, <3>3, StaysBounded
  <2> QED BY <1>0, <1>a, <2>1 DEF AllBounded
(* The file.                                                                 *)
<1>1. ASSUME NEW n \in 1 .. MaxSize, Grow(n) PROVE AllBounded'
  <2>1. /\ UNCHANGED <<saved, spool, agent, keeps, trouble>>
        /\ file'.gen = file.gen /\ file'.inode = file.inode
        /\ file'.size = n /\ file.size < n /\ n \in Nat
      BY <1>0, <1>1 DEF Grow, AgentShape
  <2>2. Settled => Settled'
    <3>1. \A k \in DOMAIN spool : spool[k].end \in Nat
      <4>1. \A k \in DOMAIN spool : spool[k] \in SpoolJobs
          BY <1>0
      <4> QED BY <4>1, AgentAssumption DEF SpoolJobs
    <3>2. Writing => agent.target \in Nat
        BY <1>0, AgentAssumption DEF AgentShape
    <3> QED BY <1>0, <2>1, <3>1, <3>2 DEF Settled, Writing
  <2>3. Outgrown' => Outgrown
      BY <1>0, <2>1 DEF Outgrown
  <2>4. ASSUME NEW b \in Bytes PROVE (Once(b)' => Once(b)) /\ (Twice(b)' => Twice(b))
    <3>1. Waits(b)' => Waits(b)
        BY <2>1 DEF Waits, Sent
    <3>2. Ahead(b[2])' => Ahead(b[2])
        BY <2>1 DEF Ahead, Writing
    <3>3. Covers(b[2]) => Covers(b[2])'
        BY <2>1, <2>3 DEF Covers, Head1
    <3>4. Outgrown' /\ ~Writing' => Outgrown /\ ~Writing
        BY <2>1, <2>3 DEF Writing
    <3> QED BY <2>1, <2>2, <3>1, <3>2, <3>3, <3>4, NoMoreIsSent
  <2> QED BY <1>a, <2>1, <2>4
<1>2. CASE Rotate \/ Truncate
  <2>1. UNCHANGED <<spool, agent, keeps, trouble>> /\ file'.gen = file.gen + 1
    <3>1. CASE Rotate
        BY <3>1 DEF Rotate
    <3>2. CASE Truncate
        BY <1>0, <3>2 DEF Truncate, AgentShape
    <3> QED BY <1>2, <3>1, <3>2
  <2>2. ASSUME NEW b \in Bytes PROVE Bounded(b)'
    <3>1. Bounded(b) /\ keeps[b] \in Nat /\ b[1] \in Nat
        BY <1>0
    <3>2. Waits(b)' => Waits(b)
        BY <2>1 DEF Waits, Sent
    <3>3. Waits(b) => b[1] <= file.gen
        BY <1>0, WaitersAreRead
    <3>4. file.gen >= 1
        BY <1>0 DEF AgentShape
    <3>5. CASE b[1] > file.gen
        BY <1>0, <2>1, <3>1, <3>2, <3>3, <3>4, <3>5 DEF Bounded, Allowed
    <3>6. CASE b[1] <= file.gen
      <4>1. b[1] # file'.gen
          BY <1>0, <2>1, <3>1, <3>6
      <4>2. (Once(b)' => Once(b)) /\ ~Twice(b)'
          BY <3>2, <4>1 DEF Once, Twice
      <4> QED BY <1>0, <2>1, <3>1, <3>6, <4>2 DEF Bounded, Allowed
    <3> QED BY <1>0, <3>1, <3>5, <3>6
  <2> QED BY <1>0, <2>1, <2>2 DEF AllBounded
(* Flushes: neither before nor after does a run write.                      *)
<1>3. ASSUME UNCHANGED <<file, saved, keeps, trouble>>, ~Writing,
             ~Sent \/ (agent.phase \in {"noted", "noted2"} /\ spool # <<>> /\ spool' = Tail(spool)),
             agent'.phase \in {"off", "flush", "final", "scan"},
             spool' = spool \/ (spool # <<>> /\ spool' = Tail(spool))
      PROVE  AllBounded'
  <2>1. ~Writing' /\ ~Sent' /\ agent'.phase # "made" /\ agent'.phase \notin {"acked", "acked2"}
      BY <1>3 DEF Writing, Sent
  <2>2. ASSUME NEW b \in Bytes PROVE (Once(b)' => Once(b)) /\ (Twice(b)' => Twice(b))
    <3>1. (Waits(b)' => Waits(b)) /\ (Settled => Settled')
      <4>1. CASE spool' = spool
        <5>1. ~Sent
            BY <1>0, <1>3, <4>1
        <5> QED BY <1>3, <2>1, <4>1, <5>1 DEF Waits, Settled
      <4>2. CASE spool # <<>> /\ spool' = Tail(spool)
        <5>1. Waits(b)' => Waits(b)
            BY <1>0, <2>1, <4>2, WaitsInTail
        <5>2. (\A k \in DOMAIN spool : spool[k].inode = file.inode /\ spool[k].end <= file.size)
                => \A k \in DOMAIN spool' : spool'[k].inode = file.inode /\ spool'[k].end <= file.size
            BY <1>0, <2>1, <4>2, WaitsInTail
        <5> QED BY <1>3, <2>1, <5>1, <5>2 DEF Settled
      <4> QED BY <1>3, <4>1, <4>2
    <3>2. ~Ahead(b[2])'
        BY <2>1 DEF Ahead
    <3>3. agent.phase \notin {"acked", "acked2"}
        BY <1>3 DEF Sent
    <3>4. Covers(b[2])' <=> Covers(b[2])
        BY <1>3, <2>1, <3>3 DEF Covers, Outgrown
    <3>5. Outgrown' <=> Outgrown
        BY <1>3 DEF Outgrown
    <3> QED BY <1>3, <3>1, <3>2, <3>4, <3>5, NoMoreIsSent
  <2> QED BY <1>a, <1>3, <2>2
<1>4. CASE StartRun
  <2>1. agent.phase = "off" /\ agent'.phase = "flush" /\ UNCHANGED <<file, saved, keeps, trouble, spool>>
      BY <1>4 DEF StartRun, Off
  <2> QED BY <1>3, <2>1 DEF Writing, Sent
<1>5. CASE DropHollow \/ SendRefused
  <2>1. /\ agent.phase \in {"flush", "final"} /\ agent' = agent /\ spool # <<>> /\ spool' = Tail(spool)
        /\ UNCHANGED <<file, saved, keeps, trouble>>
      BY <1>5 DEF DropHollow, SendRefused, Flushing
  <2> QED BY <1>3, <2>1 DEF Writing, Sent
<1>6. CASE FlushOver
  <2>1. /\ agent.phase \in {"flush", "final"} /\ agent'.phase \in {"off", "scan"}
        /\ UNCHANGED <<file, saved, keeps, trouble, spool>>
      BY <1>0, <1>6 DEF FlushOver, Flushing, Goto1, Off
  <2> QED BY <1>3, <2>1 DEF Writing, Sent
<1>7. CASE RemoveSent
  <2>1. spool # <<>>
      BY <1>0, <1>7 DEF RemoveSent, Sent, AgentShape
  <2>2. /\ agent.phase \in {"noted", "noted2"} /\ agent'.phase \in {"flush", "final"}
        /\ spool' = Tail(spool) /\ UNCHANGED <<file, saved, keeps, trouble>>
      BY <1>0, <1>7 DEF RemoveSent, Goto1
  <2> QED BY <1>3, <2>1, <2>2 DEF Writing
(* Sending.                                                                  *)
<1>8. CASE SendKept \/ SendFails
  <2>1. /\ agent.phase \in {"flush", "final"} /\ spool # <<>> /\ Head1 = spool[1] /\ 1 \in DOMAIN spool
        /\ UNCHANGED <<file, saved, spool>> /\ ~Writing /\ ~Sent
    <3>1. agent.phase \in {"flush", "final"} /\ spool # <<>> /\ UNCHANGED <<file, saved, spool>>
        BY <1>8 DEF SendKept, SendFails, Flushing
    <3> QED BY <1>0, <3>1 DEF Head1, Writing, Sent
  <2>2. \A b \in Bytes : b \in Head1.payload => Waits(b) /\ b[1] <= file.gen
    <3>1. \A b \in Bytes : b \in Head1.payload => Waits(b)
        BY <2>1 DEF Waits
    <3> QED BY <1>0, <3>1, WaitersAreRead
  <2>3. Settled' <=> \A k \in DOMAIN spool : spool[k].inode = file.inode /\ spool[k].end <= file.size
    <3>1. ~Writing'
        BY <1>0, <1>8 DEF SendKept, SendFails, Off, Writing
    <3> QED BY <2>1, <3>1 DEF Settled
  <2>4. Settled' <=> Settled
      BY <2>1, <2>3 DEF Settled
  <2>5. CASE SendFails
    <3>1. agent'.phase = "off" /\ ~Writing' /\ ~Sent'
        BY <2>5 DEF SendFails, Off, Writing, Sent
    <3>2. ASSUME NEW b \in Bytes PROVE (Once(b)' => Once(b)) /\ (Twice(b)' => Twice(b))
      <4>1. Waits(b)' => Waits(b)
          BY <2>1, <3>1 DEF Waits
      <4>2. ~Ahead(b[2])'
          BY <3>1 DEF Ahead
      <4>3. Covers(b[2])' <=> Covers(b[2])
          BY <2>1, <3>1 DEF Covers, Outgrown
      <4>4. Outgrown' <=> Outgrown
          BY <2>1 DEF Outgrown
      <4> QED BY <2>1, <2>4, <4>1, <4>2, <4>3, <4>4, NoMoreIsSent
    <3>3. CASE UNCHANGED <<keeps, trouble>>
        BY <1>a, <2>1, <3>2, <3>3
    <3>4. CASE Keep(Head1) /\ trouble' = trouble + 1
      <4>1. ASSUME NEW b \in Bytes PROVE Bounded(b)'
        <5>1. keeps'[b] \in Nat /\ keeps'[b] <= keeps[b] + 1
            BY <1>0, <3>4, KeepAdds
        <5>2. b[1] > file.gen => keeps'[b] = 0
          <6>1. Bounded(b) /\ b[1] \in Nat
              BY <1>0
          <6>2. b[1] > file.gen => b \notin Head1.payload
              BY <1>0, <2>2, <6>1
          <6>3. keeps'[b] = IF b \in Head1.payload THEN keeps[b] + 1 ELSE keeps[b]
              BY <1>0, <3>4, KeepAdds
          <6> QED BY <6>1, <6>2, <6>3 DEF Bounded
        <5>3. (Once(b)' => Once(b)) /\ (Twice(b)' => Twice(b)) /\ Bounded(b)
            BY <1>0, <3>2
        <5> QED BY <1>0, <2>1, <3>4, <5>1, <5>2, <5>3, StaysBounded
      <4> QED BY <1>0, <3>4, <4>1 DEF AllBounded
    <3> QED BY <2>5, <3>3, <3>4 DEF SendFails
  <2>6. CASE SendKept
    <3>1. /\ agent'.phase \in {"acked", "acked2"} /\ Keep(Head1) /\ trouble' = trouble
        BY <1>0, <2>6 DEF SendKept
    <3>2. ~Writing' /\ Sent' /\ agent'.phase # "made"
        BY <3>1 DEF Writing, Sent
    <3>3. ASSUME NEW b \in Bytes PROVE Bounded(b)'
      <4>0. /\ Bounded(b) /\ keeps[b] \in Nat /\ b[1] \in Nat /\ b[2] \in Nat
            /\ keeps'[b] = IF b \in Head1.payload THEN keeps[b] + 1 ELSE keeps[b]
          BY <1>0, <3>1, KeepAdds
      <4>1. Waits(b)' => Waits(b)
          BY <2>1, <3>2 DEF Waits
      <4>2. ~Ahead(b[2])' /\ (Outgrown' <=> Outgrown)
          BY <2>1, <3>2 DEF Ahead, Outgrown
      <4>3. Covers(b[2]) => Covers(b[2])'
          BY <2>1, <4>2 DEF Covers, Sent
      <4>4. CASE b \notin Head1.payload
        <5>1. (Once(b)' => Once(b)) /\ (Twice(b)' => Twice(b))
            BY <2>1, <2>4, <4>1, <4>2, <4>3, NoMoreIsSent
        <5>2. keeps'[b] \in Nat /\ keeps'[b] <= keeps[b] + 0 /\ trouble' = trouble + 0
            BY <1>0, <3>1, <4>0, <4>4
        <5>3. b[1] > file.gen => keeps'[b] = 0
            BY <4>0, <4>4 DEF Bounded
        <5> QED BY <1>0, <2>1, <4>0, <5>1, <5>2, <5>3, StaysBounded
      <4>5. CASE b \in Head1.payload
        <5>1. Waits(b) /\ Once(b) /\ b[1] <= file.gen
            BY <2>2, <4>5 DEF Once
        <5>2. ~Waits(b)'
          <6> SUFFICES ASSUME Waits(b)' PROVE FALSE
              OBVIOUS
          <6>1. PICK k \in DOMAIN spool : k # 1 /\ b \in spool[k].payload
              BY <2>1, <3>2 DEF Waits
          <6> QED BY <1>0, <2>1, <4>5, <6>1 DEF SpoolOrder
        <5>3. b[2] < Head1.end
            BY <1>0, <2>1, <4>5 DEF SpoolOrder
        <5>4. ~Twice(b)'
            BY <4>2, <5>2 DEF Twice
        <5>5. Once(b)' => Twice(b)
          <6> SUFFICES ASSUME Once(b)' PROVE Twice(b)
              OBVIOUS
          <6>1. b[1] = file.gen /\ (~Settled' \/ ~Covers(b[2])')
              BY <2>1, <4>2, <5>2 DEF Once
          <6>2. CASE ~Settled'
              BY <2>4, <5>1, <6>1, <6>2 DEF Twice
          <6>3. CASE ~Covers(b[2])'
            <7>1. Head1' = Head1
                BY <2>1 DEF Head1
            <7>2. Outgrown
                BY <3>1, <4>2, <5>3, <6>3, <7>1 DEF Covers
            <7> QED BY <2>1, <5>1, <6>1, <7>2 DEF Twice
          <6> QED BY <6>1, <6>2, <6>3
        <5> QED BY <1>0, <2>1, <3>1, <4>0, <4>5, <5>1, <5>4, <5>5 DEF Bounded, Allowed
      <4> QED BY <4>4, <4>5
    <3> QED BY <1>0, <3>1, <3>3 DEF AllBounded
  <2> QED BY <1>8, <2>5, <2>6
(* What was sent is written down: a scan begins no earlier than before.     *)
<1>9. CASE NoteSent
  <2>1. /\ agent.phase \in {"acked", "acked2"} /\ agent'.phase \in {"noted", "noted2"}
        /\ saved' = StateAfterSend(Head1) /\ UNCHANGED <<file, spool, keeps, trouble>>
      BY <1>0, <1>9 DEF NoteSent, Goto1
  <2>2. Sent /\ Sent' /\ ~Writing /\ ~Writing' /\ agent'.phase # "made" /\ agent.phase # "made"
      BY <2>1 DEF Sent, Writing
  <2>3. spool # <<>> /\ Head1 = spool[1] /\ 1 \in DOMAIN spool /\ spool[1] \in SpoolJobs
    <3>1. spool # <<>>
        BY <1>0, <2>2 DEF AgentShape
    <3> QED BY <1>0, <3>1 DEF Head1
  <2>4. Head1.end \in Nat
      BY <2>3, AgentAssumption DEF SpoolJobs
  <2>5. Settled' <=> Settled
      BY <2>1, <2>2 DEF Settled
  <2>6. Settled => Head1.inode = file.inode /\ Head1.end <= file.size
      BY <2>3 DEF Settled
  <2>7. \/ saved' = saved /\ saved.inode = Head1.inode /\ Head1.end <= saved.off
        \/ /\ saved'.inode = Head1.inode /\ saved'.off = Head1.end
           /\ saved.inode = Head1.inode => Head1.end > saved.off
      BY <1>0, <2>1, <2>4 DEF StateAfterSend
  <2>8. Settled => (Outgrown' => Outgrown)
      BY <1>0, <2>1, <2>4, <2>6, <2>7 DEF Outgrown
  <2>9. ASSUME NEW b \in Bytes PROVE (Once(b)' => Once(b)) /\ (Twice(b)' => Twice(b))
    <3>1. Waits(b)' => Waits(b)
        BY <2>1, <2>2 DEF Waits
    <3>2. ~Ahead(b[2])'
        BY <2>2 DEF Ahead
    <3>3. Settled /\ Covers(b[2]) => Covers(b[2])'
      <4> SUFFICES ASSUME Settled, Covers(b[2]) PROVE Covers(b[2])'
          OBVIOUS
      <4>1. ~Outgrown' /\ saved'.inode = file.inode /\ b[2] \in Nat
          BY <1>0, <2>6, <2>7, <2>8 DEF Covers
      <4>2. b[2] < saved'.off
          BY <1>0, <2>4, <2>6, <2>7, <4>1 DEF Covers
      <4> QED BY <2>1, <4>1, <4>2 DEF Covers
    <3>4. Settled /\ Outgrown' => Outgrown
        BY <2>8
    <3> QED BY <2>1, <2>2, <2>5, <3>1, <3>2, <3>3, <3>4, NoMoreIsSent
  <2> QED BY <1>a, <2>1, <2>9
(* The scan begins where the offset on record ends, if that still holds.    *)
<1>10. CASE ScanFile
  <2>0. agent.phase = "scan" /\ spool = <<>> /\ UNCHANGED <<file, saved, spool, keeps, trouble>>
      BY <1>0, <1>10 DEF ScanFile, SpoolOrder
  <2>1. CASE Goto1("final")
    <3>1. agent'.phase = "final"
        BY <1>0, <2>1 DEF Goto1
    <3> QED BY <1>3, <2>0, <3>1 DEF Writing, Sent
  <2>2. CASE ~Goto1("final")
    <3>1. /\ agent'.phase = "chunk" /\ agent'.inode = file.inode
          /\ agent'.target = file.size /\ agent'.cursor = Cursor
        BY <1>10, <2>2 DEF ScanFile
    <3>2. Writing' /\ ~Writing /\ Cursor \in Nat
        BY <1>0, <2>0, <3>1, CursorIsBehind DEF Writing
    <3>3. Settled'
        BY <1>0, <2>0, <3>1 DEF Settled
    <3>4. ASSUME NEW b \in Bytes PROVE (Once(b)' => Once(b)) /\ (Twice(b)' => Twice(b))
      <4>1. ~Waits(b)'
          BY <2>0, <3>1 DEF Waits
      <4>2. ~Twice(b)'
          BY <3>3, <4>1 DEF Twice
      <4>3. Covers(b[2])' <=> Covers(b[2])
          BY <2>0, <3>1 DEF Covers, Outgrown
      <4>4. Ahead(b[2])' => ~Covers(b[2])
        <5> SUFFICES ASSUME b[2] >= Cursor, Covers(b[2]) PROVE FALSE
            BY <3>1 DEF Ahead
        <5>1. saved.inode = file.inode /\ b[2] < saved.off /\ ~Outgrown /\ b[2] \in Nat
            BY <1>0, <2>0 DEF Covers
        <5>2. saved # NoStateFile
            BY <1>0, <5>1 DEF NoStateFile
        <5>3. Cursor = AlignCursor(saved.off)
            BY <1>0, <5>1, <5>2 DEF Cursor, Outgrown
        <5>4. AlignCursor(saved.off) >= saved.off
            BY <1>0, ScansGoOn DEF SpoolOrder
        <5> QED BY <1>0, <3>2, <5>1, <5>3, <5>4
      <4>5. Once(b)' => Once(b)
          BY <2>0, <3>3, <4>1, <4>3, <4>4 DEF Once
      <4> QED BY <4>2, <4>5
    <3> QED BY <1>a, <2>0, <3>4
  <2> QED BY <2>1, <2>2
(* A chunk is read: its bytes lay ahead.                                     *)
<1>11. ASSUME NEW same \in BOOLEAN, MakeJob(same) PROVE AllBounded'
  <2> DEFINE upto == IF End < file.size THEN End ELSE file.size
             tmp == Span(file.gen, agent.cursor, upto)
             last == Len(spool)
  <2>1. /\ agent.phase = "chunk" /\ End \in Nat /\ End > agent.cursor /\ End <= agent.target
        /\ agent.cursor \in Nat /\ agent.target \in Nat /\ Writing
    <3>1. agent.phase = "chunk" /\ End > agent.cursor
        BY <1>11 DEF MakeJob
    <3>2. Writing
        BY <3>1 DEF Writing
    <3> QED BY <1>0, <3>1, <3>2, EndIsBetween, AgentAssumption DEF AgentShape
  <2>2. /\ agent'.phase = "made" /\ agent'.cursor = End /\ agent'.tmp = tmp
        /\ agent'.inode = agent.inode /\ agent'.target = agent.target
        /\ UNCHANGED <<file, saved, keeps, trouble>>
      BY <1>11 DEF MakeJob
  <2>3. ASSUME NEW b \in Bytes, b \in tmp
        PROVE  b[1] = file.gen /\ b[2] >= agent.cursor
      BY <2>1, <2>3 DEF Span
  <2> HIDE DEF tmp
  <2>4. /\ \A k \in DOMAIN spool' :
             /\ \/ k \in DOMAIN spool /\ spool'[k].payload = spool[k].payload
                \/ spool'[k].payload = NoPayload
             /\ \/ k \in DOMAIN spool /\ spool'[k] = spool[k]
                \/ spool'[k].end = End /\ spool'[k].inode = agent.inode
    <3>1. CASE same
      <4>1. spool' = [spool EXCEPT ![last] = Job(spool[last].payload)]
          BY <1>11, <3>1 DEF MakeJob
      <4>2. /\ Job(spool[last].payload).end = End /\ Job(spool[last].payload).payload = spool[last].payload
            /\ Job(spool[last].payload).inode = agent.inode
          BY DEF Job
      <4> HIDE DEF last
      <4> QED BY <1>0, <4>1, <4>2
    <3>2. CASE ~same
      <4>1. spool' = IF same THEN [spool EXCEPT ![Len(spool)] = Job(@.payload)]
                      ELSE Append(spool, Job(NoPayload))
          BY <1>11 DEF MakeJob
      <4>2. spool' = Append(spool, Job(NoPayload))
          BY <3>2, <4>1, Zenon
      <4>3. /\ Job(NoPayload).end = End /\ Job(NoPayload).payload = NoPayload
            /\ Job(NoPayload).inode = agent.inode
          BY DEF Job
      <4> DEFINE j == Job(NoPayload)
      <4> HIDE DEF j
      <4>4. /\ DOMAIN spool' = 1 .. Len(spool) + 1
            /\ DOMAIN spool = 1 .. Len(spool) /\ Len(spool) \in Nat
            /\ spool'[Len(spool) + 1] = j
            /\ \A k \in DOMAIN spool : spool'[k] = spool[k]
          BY <1>0, <4>2 DEF j
      <4> QED BY <4>3, <4>4 DEF j
    <3> QED BY <3>1, <3>2
  <2>5. Writing' /\ ~Sent /\ (Outgrown' <=> Outgrown)
      BY <2>1, <2>2 DEF Writing, Sent, Outgrown
  <2>6. Settled => Settled'
    <3> SUFFICES ASSUME Settled PROVE Settled'
        OBVIOUS
    <3>1. agent.inode = file.inode /\ agent.target <= file.size /\ End <= file.size
        BY <1>0, <2>1 DEF Settled
    <3>2. \A k \in DOMAIN spool' : spool'[k].inode = file.inode /\ spool'[k].end <= file.size
        BY <2>4, <3>1 DEF Settled
    <3> QED BY <2>2, <3>1, <3>2 DEF Settled
  <2>7. ASSUME NEW b \in Bytes PROVE (Once(b)' => Once(b)) /\ (Twice(b)' => Twice(b))
    <3>1. b \notin NoPayload /\ b[2] \in Nat
        BY DEF Bytes, NoPayload
    <3>2. Waits(b)' => Waits(b) \/ (b[1] = file.gen /\ Ahead(b[2]))
      <4> SUFFICES ASSUME Waits(b)' PROVE Waits(b) \/ (b[1] = file.gen /\ Ahead(b[2]))
          OBVIOUS
      <4>1. CASE b \in tmp
          BY <2>1, <2>3, <4>1 DEF Ahead
      <4>2. CASE \E k \in DOMAIN spool' : b \in spool'[k].payload
        <5>1. PICK k \in DOMAIN spool : b \in spool[k].payload
            BY <2>4, <3>1, <4>2
        <5> QED BY <2>5, <5>1 DEF Waits
      <4> QED BY <2>2, <4>1, <4>2 DEF Waits
    <3>3. Ahead(b[2])' => Ahead(b[2])
        BY <2>1, <2>2, <3>1 DEF Ahead
    <3>4. Covers(b[2])' <=> Covers(b[2])
        BY <2>1, <2>2, <2>5 DEF Covers
    <3>5. file'.gen = file.gen
        BY <2>2
    <3>6. Once(b)' => Once(b)
        BY <2>6, <3>2, <3>3, <3>4, <3>5 DEF Once
    <3>7. Twice(b)' => Twice(b)
        BY <2>5, <2>6, <3>2, <3>3, <3>5 DEF Twice
    <3> QED BY <3>6, <3>7
  <2> QED BY <1>a, <2>2, <2>7
<1>12. CASE MovePayload
  <2>1. /\ agent.phase = "made" /\ spool' = [spool EXCEPT ![Len(spool)].payload = agent.tmp]
        /\ agent'.phase = "moved" /\ UNCHANGED <<file, saved, keeps, trouble>>
      BY <1>0, <1>12 DEF MovePayload, Goto1
  <2>2. /\ agent'.cursor = agent.cursor /\ agent'.inode = agent.inode /\ agent'.target = agent.target
        /\ Writing /\ Writing' /\ ~Sent
      BY <1>0, <1>12, <2>1 DEF MovePayload, Goto1, AgentShape, Writing, Sent
  <2>3. /\ DOMAIN spool' = DOMAIN spool
        /\ \A k \in DOMAIN spool :
             /\ spool'[k].end = spool[k].end /\ spool'[k].inode = spool[k].inode
             /\ k # Len(spool) => spool'[k] = spool[k]
             /\ k = Len(spool) => spool'[k].payload = agent.tmp
    <3>1. \A k \in DOMAIN spool : spool[k] \in SpoolJobs
        BY <1>0
    <3> QED BY <1>0, <2>1, <3>1 DEF SpoolJobs
  <2>4. Settled' <=> Settled
      BY <2>1, <2>2, <2>3 DEF Settled
  <2>5. ASSUME NEW b \in Bytes PROVE (Once(b)' => Once(b)) /\ (Twice(b)' => Twice(b))
    <3>1. Waits(b)' => Waits(b)
      <4> SUFFICES ASSUME Waits(b)' PROVE Waits(b)
          OBVIOUS
      <4>1. PICK k \in DOMAIN spool : b \in spool'[k].payload
          BY <2>1, <2>3 DEF Waits
      <4>2. b \in agent.tmp \/ b \in spool[k].payload
          BY <2>3, <4>1
      <4> QED BY <2>1, <2>2, <4>2 DEF Waits
    <3>2. Ahead(b[2])' <=> Ahead(b[2])
        BY <2>2 DEF Ahead
    <3>3. (Covers(b[2])' <=> Covers(b[2])) /\ (Outgrown' <=> Outgrown)
        BY <2>1 DEF Covers, Outgrown
    <3> QED BY <2>1, <2>2, <2>4, <3>1, <3>2, <3>3, NoMoreIsSent
  <2> QED BY <1>a, <2>1, <2>5
<1>13. CASE NoteQueued
  <2>1. /\ agent.phase = "moved" /\ saved'.inode = agent.inode /\ saved'.off = agent.cursor
        /\ agent'.phase = "chunk" /\ UNCHANGED <<file, spool, keeps, trouble>>
      BY <1>0, <1>13 DEF NoteQueued, Goto1
  <2>2. /\ agent'.cursor = agent.cursor /\ agent'.inode = agent.inode /\ agent'.target = agent.target
        /\ Writing /\ Writing' /\ ~Sent /\ ~Sent'
      BY <1>0, <1>13, <2>1 DEF NoteQueued, Goto1, AgentShape, Writing, Sent
  <2>3. agent.cursor \in Nat /\ agent.target \in Nat /\ agent.cursor <= agent.target
      BY <1>0, <2>2, AgentAssumption DEF AgentShape
  <2>4. Settled' <=> Settled
      BY <2>1, <2>2 DEF Settled
  <2>5. ASSUME NEW b \in Bytes PROVE (Once(b)' => Once(b)) /\ (Twice(b)' => Twice(b))
    <3>1. Waits(b)' => Waits(b)
        BY <2>1, <2>2 DEF Waits
    <3>2. Ahead(b[2])' <=> Ahead(b[2])
        BY <2>2 DEF Ahead
    <3>3. Settled => Ahead(b[2]) \/ Covers(b[2])'
      <4> SUFFICES ASSUME Settled, ~Ahead(b[2]) PROVE Covers(b[2])'
          OBVIOUS
      <4>1. b[2] < agent.cursor /\ b[2] \in Nat
          BY <1>0, <2>2, <2>3 DEF Ahead
      <4>2. saved'.inode = file.inode /\ agent.cursor <= file.size
          BY <1>0, <2>1, <2>2, <2>3 DEF Settled
      <4> QED BY <1>0, <2>1, <2>3, <4>1, <4>2 DEF Covers, Outgrown
    <3>4. Once(b)' => Once(b)
        BY <2>1, <2>4, <3>1, <3>2, <3>3 DEF Once
    <3>5. Twice(b)' => Twice(b)
        BY <2>1, <2>2, <2>4, <3>1, <3>2 DEF Twice
    <3> QED BY <3>4, <3>5
  <2> QED BY <1>a, <2>1, <2>5
<1>14. CASE FileOver
  <2>1. /\ agent.phase = "chunk" /\ agent'.phase \in {"final", "off"}
        /\ UNCHANGED <<file, saved, spool, keeps, trouble>>
      BY <1>0, <1>14 DEF FileOver, Goto1, Off
  <2>2. Writing /\ ~Writing' /\ ~Sent /\ ~Sent'
      BY <2>1 DEF Writing, Sent
  <2>3. Settled => Settled'
      BY <2>1, <2>2 DEF Settled
  <2>4. ASSUME NEW b \in Bytes PROVE (Once(b)' => Once(b)) /\ (Twice(b)' => Twice(b))
    <3>1. Waits(b)' => Waits(b)
        BY <2>1, <2>2 DEF Waits
    <3>2. ~Ahead(b[2])'
        BY <2>2 DEF Ahead
    <3>3. (Covers(b[2])' <=> Covers(b[2])) /\ (Outgrown' <=> Outgrown)
        BY <2>1 DEF Covers, Outgrown
    <3>4. Waits(b) /\ Outgrown => ~Settled
      <4> SUFFICES ASSUME Waits(b), Outgrown, Settled PROVE FALSE
          OBVIOUS
      <4>1. spool # <<>>
          BY <1>0, <2>1 DEF Waits
      <4>2. saved.inode = agent.inode /\ saved.off = agent.cursor
          BY <1>0, <2>1, <4>1 DEF RunOrder
      <4>3. agent.cursor \in Nat /\ agent.target \in Nat /\ agent.cursor <= agent.target
          BY <1>0, <2>2, AgentAssumption DEF AgentShape
      <4>4. agent.target <= file.size
          BY <2>2 DEF Settled
      <4> QED BY <1>0, <4>2, <4>3, <4>4 DEF Outgrown
    <3>5. Once(b)' => Once(b)
        BY <2>1, <2>3, <3>1, <3>2, <3>3 DEF Once
    <3>6. Twice(b)' => Twice(b)
        BY <2>1, <2>3, <3>1, <3>2, <3>3, <3>4 DEF Twice
    <3> QED BY <3>5, <3>6
  <2> QED BY <1>a, <2>1, <2>4
(* A death is trouble: what was sent may be sent again.                      *)
<1>15. CASE AgentDies
  <2>1. /\ agent'.phase = "off" /\ trouble' = trouble + 1 /\ UNCHANGED <<file, spool, keeps>>
        /\ saved' = saved \/ saved' = EmptyState
      BY <1>15 DEF AgentDies, Off
  <2>2. ~Writing'
      BY <2>1 DEF Writing
  <2>3. Settled => Settled'
      BY <2>1, <2>2 DEF Settled
  <2>4. Outgrown' => Outgrown
      BY <1>0, <2>1 DEF Outgrown, EmptyState
  <2>5. ASSUME NEW b \in Bytes PROVE Bounded(b)'
    <3>1. Bounded(b) /\ keeps[b] \in Nat /\ b[1] \in Nat
        BY <1>0
    <3>2. Twice(b)' => Once(b)
      <4> SUFFICES ASSUME Twice(b)' PROVE Once(b)
          OBVIOUS
      <4>1. b[1] = file.gen /\ (~Settled' \/ Outgrown')
          BY <2>1, <2>2 DEF Twice
      <4> QED BY <2>3, <2>4, <4>1 DEF Once, Covers
    <3> QED BY <1>0, <2>1, <3>1, <3>2 DEF Bounded, Allowed
  <2> QED BY <1>0, <2>1, <2>5 DEF AllBounded
<1>17. CASE MoveIsCut
  <2>1. /\ agent'.phase = "off" /\ trouble' = trouble + 1 /\ UNCHANGED <<file, saved, keeps>>
        /\ ~Writing'
      BY <1>0, <1>17, CutMoves
  <2>2. PICK part : spool' = [spool EXCEPT ![Len(spool)].payload = part]
      BY <1>0, <1>17, CutMoves
  <2>3. /\ DOMAIN spool' = DOMAIN spool
        /\ \A k \in DOMAIN spool :
             spool'[k].end = spool[k].end /\ spool'[k].inode = spool[k].inode
      BY <1>0, <2>2, LastPayload
  <2>4. Settled => Settled'
      BY <2>1, <2>3 DEF Settled
  <2>5. Outgrown' => Outgrown
      BY <2>1 DEF Outgrown
  <2>6. ASSUME NEW b \in Bytes PROVE Bounded(b)'
    <3>1. Bounded(b) /\ keeps[b] \in Nat /\ b[1] \in Nat
        BY <1>0
    <3>2. Twice(b)' => Once(b)
      <4> SUFFICES ASSUME Twice(b)' PROVE Once(b)
          OBVIOUS
      <4>1. b[1] = file.gen /\ (~Settled' \/ Outgrown')
          BY <2>1 DEF Twice
      <4> QED BY <2>4, <2>5, <4>1 DEF Once, Covers
    <3> QED BY <1>0, <2>1, <3>1, <3>2 DEF Bounded, Allowed
  <2> QED BY <1>0, <2>1, <2>6 DEF AllBounded
<1>16. CASE UNCHANGED AgentVars
  <2>1. UNCHANGED <<file, saved, spool, agent, keeps, trouble>>
      BY <1>16 DEF AgentVars
  <2>2. ASSUME NEW b \in Bytes PROVE (Once(b)' => Once(b)) /\ (Twice(b)' => Twice(b))
      BY <2>1 DEF Once, Twice, Waits, Settled, Ahead, Covers, Outgrown, Writing, Sent, Head1
  <2> QED BY <1>a, <2>1, <2>2
<1> QED
    BY <1>1, <1>2, <1>4, <1>5, <1>6, <1>7, <1>8, <1>9, <1>10, <1>11, <1>12, <1>13, <1>14, <1>15,
       <1>16, <1>17 DEF AgentNext, AgentStep

LEMMA RepeatInitOK == AgentInit => RepeatInv
<1> SUFFICES ASSUME AgentInit PROVE RepeatInv
    OBVIOUS
<1>1. AgentShape
    BY SpoolInitOK DEF SpoolInv
<1>2. spool = <<>> /\ agent.phase = "off" /\ file = [gen |-> 1, inode |-> 1, size |-> 0]
    BY DEF AgentInit, Off
<1>3. SpoolOrder
    BY <1>2 DEF AgentInit, SpoolOrder, NoStateFile, Aligned
<1>4. RunOrder
    BY <1>2 DEF RunOrder, Writing
<1>5. AllBounded
  <2>1. ASSUME NEW b \in Bytes PROVE Bounded(b)
    <3>1. keeps[b] = 0 /\ trouble = 0 /\ file.gen = 1
        BY DEF AgentInit
    <3>2. ~Twice(b)
        BY <1>2 DEF Twice, Waits, Settled, Ahead, Writing
    <3> QED BY <3>1, <3>2 DEF Bounded, Allowed
  <2> QED BY <2>1 DEF AllBounded, AgentInit
<1> QED
    BY <1>1, <1>3, <1>4, <1>5 DEF RepeatInv

(* No byte is kept more often than once, and once more for each death, each  *)
(* chunk kept but answered with an error and each change of the file: for    *)
(* any lines, sizes, endpoint and number of deaths.                          *)
THEOREM RepeatsAreCaused == AgentSpec => []RepeatsHaveCauses
<1>1. RepeatInv /\ [AgentNext]_AgentVars => RepeatInv'
    BY AgentShapeStep, OrdersStep, BoundedStep DEF RepeatInv
<1>2. RepeatInv => RepeatsHaveCauses
  <2> SUFFICES ASSUME RepeatInv, NEW b \in Bytes PROVE keeps[b] <= 1 + trouble + (file.gen - 1)
      BY DEF RepeatsHaveCauses
  <2>1. Bounded(b) /\ trouble \in Nat /\ file.gen \in Nat /\ keeps[b] \in Nat
      BY AgentAssumption DEF RepeatInv, AllBounded, AgentShape
  <2> QED BY <2>1 DEF Bounded, Allowed
<1> QED
    BY RepeatInitOK, <1>1, <1>2, PTL DEF AgentSpec

-------------------------------------------------------------------------------
(* The offset on record *)

(* What may be written down as an offset of the file lies in it, and a run   *)
(* stands at the offset on record of its file, or behind it; a state file    *)
(* that was opened and not written has no offset.                            *)
OffsetsAreInFile ==
    /\ saved.inode = -1 => saved.off = 0
    /\ saved.inode = file.inode => saved.off <= file.size
    /\ \A k \in 1 .. Len(spool) : spool[k].inode = file.inode => spool[k].end <= file.size
    /\ Writing => /\ agent.inode = file.inode => agent.target <= file.size
                  /\ saved.inode = agent.inode => saved.off <= agent.cursor

OffsetInv == SpoolInv /\ SpoolOrder /\ RunOrder /\ (blurred \/ OffsetsAreInFile)

(* A file that is not truncated in place grows, or makes room for another.   *)
LEMMA FilesGrow ==
    ASSUME AgentShape, InodesAreOld, OffsetsAreInFile, UNCHANGED <<saved, spool, agent>>,
           file'.size \in Nat,
           \/ file'.inode = file.inode /\ file'.size >= file.size
           \/ file'.inode = file.inode + 1
    PROVE  OffsetsAreInFile'
<1>0. /\ file.inode \in Nat /\ file.size \in Nat /\ saved.off \in Nat /\ saved.inode \in Int
      /\ \A k \in 1 .. Len(spool) : spool[k].inode \in Nat /\ spool[k].end \in Nat
      /\ Writing => agent.inode \in Nat /\ agent.target \in Nat /\ agent.cursor \in Nat
  <2>1. \A k \in 1 .. Len(spool) : spool[k] \in SpoolJobs
      BY DEF AgentShape
  <2>2. MaxSize \in Nat
      BY AgentAssumption
  <2>3. \A k \in 1 .. Len(spool) : spool[k].inode \in Nat /\ spool[k].end \in Nat
      BY <2>1, <2>2 DEF SpoolJobs
  <2>4. Writing => agent.inode \in Nat /\ agent.target \in Nat /\ agent.cursor \in Nat
      BY <2>2 DEF AgentShape
  <2> QED BY <2>2, <2>3, <2>4 DEF AgentShape
<1>1. CASE file'.inode = file.inode /\ file'.size >= file.size
  <2>1. saved'.inode = file'.inode => saved'.off <= file'.size
      BY <1>0, <1>1 DEF OffsetsAreInFile
  <2>2. \A k \in 1 .. Len(spool') : spool'[k].inode = file'.inode => spool'[k].end <= file'.size
      BY <1>0, <1>1 DEF OffsetsAreInFile
  <2>3. Writing => (agent'.inode = file'.inode => agent'.target <= file'.size)
      BY <1>0, <1>1 DEF OffsetsAreInFile
  <2> QED BY <2>1, <2>2, <2>3 DEF OffsetsAreInFile, Writing
<1>2. CASE file'.inode = file.inode + 1
  <2>1. saved'.inode # file'.inode
      BY <1>0, <1>2 DEF InodesAreOld
  <2>2. \A k \in 1 .. Len(spool') : spool'[k].inode # file'.inode
      BY <1>0, <1>2 DEF InodesAreOld
  <2>3. Writing => agent'.inode # file'.inode
      BY <1>0, <1>2 DEF InodesAreOld
  <2> QED BY <2>1, <2>2, <2>3 DEF OffsetsAreInFile, Writing
<1> QED BY <1>1, <1>2

(* A step of a flush, or one that ends the run.                              *)
LEMMA OutsideRunsOffsetsStay ==
    ASSUME AgentShape, OffsetsAreInFile, file' = file, ~Writing',
           spool' = spool \/ (spool # <<>> /\ spool' = Tail(spool)),
           saved'.inode = file.inode => saved'.off <= file.size,
           saved'.inode = -1 => saved'.off = 0
    PROVE  OffsetsAreInFile'
<1>1. \A k \in 1 .. Len(spool') : spool'[k].inode = file.inode => spool'[k].end <= file.size
  <2>1. CASE spool' = spool
      BY <2>1 DEF OffsetsAreInFile
  <2>2. CASE spool # <<>> /\ spool' = Tail(spool)
    <3>1. spool \in Seq(SpoolJobs)
        BY DEF AgentShape
    <3>2. \A k \in 1 .. Len(spool') : k + 1 \in 1 .. Len(spool) /\ spool'[k] = spool[k + 1]
        BY <2>2, <3>1, HeadLeaves
    <3> QED BY <3>2 DEF OffsetsAreInFile
  <2> QED BY <2>1, <2>2
<1> QED BY <1>1 DEF OffsetsAreInFile

(* A scan of the file whose offset is on record begins there.                *)
LEMMA ScansBeginAtTheOffset ==
    ASSUME AgentShape, SpoolOrder, saved.inode = file.inode, saved.off <= file.size
    PROVE  Cursor >= saved.off
<1>1. saved # NoStateFile /\ file.inode # 0
    BY DEF SpoolOrder, NoStateFile
<1>2. saved.off \in Nat /\ file.size \in Nat /\ ~(file.size < saved.off)
    BY AgentAssumption DEF AgentShape
<1>3. Cursor = AlignCursor(saved.off)
    BY <1>1, <1>2 DEF Cursor
<1> QED BY <1>2, <1>3, ScansGoOn DEF SpoolOrder

LEMMA OffsetsStep ==
    ASSUME AgentShape, SpoolOrder, InodesAreOld, OffsetsAreInFile, AgentNext, ~blurred'
    PROVE  OffsetsAreInFile'
<1>0. /\ file.inode \in Nat /\ file.size \in Nat /\ saved.off \in Nat /\ saved.inode \in Int
      /\ "phase" \in DOMAIN agent /\ spool \in Seq(SpoolJobs)
      /\ \A k \in 1 .. Len(spool) : spool[k].inode \in Nat /\ spool[k].end \in Nat
  <2>1. \A k \in 1 .. Len(spool) : spool[k] \in SpoolJobs
      BY DEF AgentShape
  <2>2. MaxSize \in Nat
      BY AgentAssumption
  <2> QED BY <2>1, <2>2 DEF AgentShape, SpoolJobs
<1>00. /\ agent' = Off => ~Writing'
       /\ \A p : p \notin {"chunk", "made", "moved"} /\ Goto1(p) => ~Writing'
    BY <1>0 DEF Off, Writing, Goto1
(* The file.                                                                 *)
<1>1. ASSUME NEW n \in 1 .. MaxSize, Grow(n) PROVE OffsetsAreInFile'
  <2>1. file'.inode = file.inode /\ file'.size = n /\ file.size < n
      BY <1>1 DEF Grow, AgentShape
  <2>2. file'.size \in Nat /\ file'.size >= file.size
      BY <1>0, <2>1
  <2> QED BY <1>1, <2>1, <2>2, FilesGrow DEF Grow
<1>2. CASE Rotate
    BY <1>2, FilesGrow DEF Rotate
<1>3. CASE Truncate
    BY <1>3 DEF Truncate
(* Flushes and ends.                                                         *)
<1>4. ASSUME file' = file, saved' = saved, ~Writing',
             spool' = spool \/ (spool # <<>> /\ spool' = Tail(spool))
      PROVE  OffsetsAreInFile'
    BY <1>4, OutsideRunsOffsetsStay DEF OffsetsAreInFile
<1>5. CASE StartRun
  <2>1. agent'.phase = "flush"
      BY <1>5 DEF StartRun
  <2> QED BY <1>4, <1>5, <2>1 DEF StartRun, Writing
<1>6. CASE DropHollow \/ SendRefused
  <2>1. ~Writing'
      BY <1>6 DEF DropHollow, SendRefused, Flushing, Writing
  <2> QED BY <1>4, <1>6, <2>1 DEF DropHollow, SendRefused
<1>7. CASE SendKept
  <2>1. agent'.phase \in {"acked", "acked2"}
      BY <1>0, <1>7 DEF SendKept
  <2>2. ~Writing'
      BY <2>1 DEF Writing
  <2> QED BY <1>4, <1>7, <2>2 DEF SendKept
<1>8. CASE SendFails
    BY <1>00, <1>4, <1>8 DEF SendFails
<1>9. CASE NoteSent
  <2>1. Sent /\ spool # <<>>
      BY <1>9 DEF NoteSent, Sent, AgentShape
  <2>2. Head1 = spool[1] /\ 1 \in 1 .. Len(spool)
      BY <1>0, <2>1 DEF Head1
  <2>3. Head1.inode = file.inode => Head1.end <= file.size
      BY <2>2 DEF OffsetsAreInFile
  <2>4. saved' = saved \/ saved' = [inode |-> Head1.inode, off |-> Head1.end]
      BY <1>9 DEF NoteSent, StateAfterSend
  <2>5. /\ saved'.inode = file.inode => saved'.off <= file.size
        /\ saved'.inode = -1 => saved'.off = 0
      BY <1>0, <2>2, <2>3, <2>4 DEF OffsetsAreInFile
  <2>6. file' = file /\ spool' = spool /\ ~Writing'
    <3>1. agent'.phase \in {"noted", "noted2"}
        BY <1>0, <1>9 DEF NoteSent, Goto1
    <3> QED BY <1>9, <3>1 DEF NoteSent, Writing
  <2> QED BY <2>5, <2>6, OutsideRunsOffsetsStay
<1>10. CASE RemoveSent
  <2>1. spool # <<>>
      BY <1>10 DEF RemoveSent, Sent, AgentShape
  <2>2. ~Writing'
    <3>1. agent'.phase \in {"flush", "final"}
        BY <1>0, <1>10 DEF RemoveSent, Goto1
    <3> QED BY <3>1 DEF Writing
  <2> QED BY <1>4, <1>10, <2>1, <2>2 DEF RemoveSent
<1>11. CASE FlushOver \/ FileOver
  <2>1. ~Writing'
      BY <1>00, <1>11 DEF FlushOver, FileOver
  <2> QED BY <1>4, <1>11, <2>1 DEF FlushOver, FileOver
<1>12. CASE AgentDies
  <2>1. file' = file /\ spool' = spool /\ ~Writing'
      BY <1>00, <1>12 DEF AgentDies
  <2>2. saved' = saved \/ saved' = EmptyState
      BY <1>12 DEF AgentDies
  <2>3. /\ saved'.inode = file.inode => saved'.off <= file.size
        /\ saved'.inode = -1 => saved'.off = 0
      BY <1>0, <2>2 DEF EmptyState, OffsetsAreInFile
  <2> QED BY <2>1, <2>3, OutsideRunsOffsetsStay
(* The run over the file.                                                    *)
<1>13. CASE ScanFile
  <2>1. CASE Goto1("final")
      BY <1>00, <1>4, <1>13, <2>1 DEF ScanFile
  <2>2. CASE ~Goto1("final")
    <3>1. /\ agent'.inode = file.inode /\ agent'.target = file.size /\ agent'.cursor = Cursor
          /\ UNCHANGED <<file, saved, spool>>
        BY <1>13, <2>2 DEF ScanFile
    <3>2. saved.inode = file.inode => saved.off <= Cursor
      <4>1. ASSUME saved.inode = file.inode PROVE Cursor >= saved.off
          BY <4>1, ScansBeginAtTheOffset DEF OffsetsAreInFile
      <4>2. Cursor \in Nat
          BY CursorIsBehind
      <4> QED BY <1>0, <4>1, <4>2
    <3>3. file.size <= file.size
        BY <1>0
    <3> QED BY <3>1, <3>2, <3>3 DEF OffsetsAreInFile
  <2> QED BY <2>1, <2>2
<1>14. ASSUME NEW same \in BOOLEAN, MakeJob(same) PROVE OffsetsAreInFile'
  <2>0. agent.phase = "chunk" /\ Writing /\ End > agent.cursor
      BY <1>14 DEF MakeJob, Writing
  <2>1. /\ agent.inode \in Nat /\ agent.target \in Nat /\ agent.cursor \in Nat
        /\ End \in Nat /\ End <= agent.target
      BY <2>0, EndIsBetween, AgentAssumption DEF AgentShape
  <2>2. ~same
      BY <1>14 DEF MakeJob
  <2>3. /\ agent'.inode = agent.inode /\ agent'.target = agent.target /\ agent'.cursor = End
        /\ UNCHANGED <<file, saved>>
      BY <1>14 DEF MakeJob
  <2>4. spool' = Append(spool, Job(NoPayload))
    <3>1. spool' = IF same THEN [spool EXCEPT ![Len(spool)] = Job(@.payload)]
                    ELSE Append(spool, Job(NoPayload))
        BY <1>14 DEF MakeJob
    <3> QED BY <2>2, <3>1, Zenon
  <2>5. Job(NoPayload).inode = agent.inode /\ Job(NoPayload).end = End
      BY DEF Job
  <2>6. ASSUME NEW k \in 1 .. Len(spool'), spool'[k].inode = file.inode
        PROVE  spool'[k].end <= file.size
    <3> DEFINE j == Job(NoPayload)
    <3>1. CASE k \in 1 .. Len(spool) /\ spool'[k] = spool[k]
        BY <2>6, <3>1 DEF OffsetsAreInFile
    <3>2. CASE spool'[k] = j
      <4>1. agent.inode = file.inode
          BY <2>5, <2>6, <3>2
      <4>2. agent.target <= file.size
          BY <2>0, <4>1 DEF OffsetsAreInFile
      <4> HIDE DEF j
      <4>3. j.end = End
          BY <2>5 DEF j
      <4> QED BY <1>0, <2>1, <3>2, <4>2, <4>3
    <3> HIDE DEF j
    <3>3. \/ k \in 1 .. Len(spool) /\ spool'[k] = spool[k]
          \/ spool'[k] = j
        BY <1>0, <2>4 DEF j
    <3> QED BY <3>1, <3>2, <3>3
  <2>7. saved'.inode = agent'.inode => saved'.off <= agent'.cursor
      BY <1>0, <2>0, <2>1, <2>3 DEF OffsetsAreInFile
  <2> QED BY <2>0, <2>3, <2>6, <2>7 DEF OffsetsAreInFile
<1>15. CASE MovePayload
  <2>1. /\ spool' = [spool EXCEPT ![Len(spool)].payload = agent.tmp] /\ Writing
        /\ UNCHANGED <<file, saved>>
        /\ UNCHANGED <<agent.inode, agent.target, agent.cursor>>
      BY <1>15 DEF MovePayload, Goto1, AgentShape, Writing
  <2>2. \A k \in 1 .. Len(spool) : spool[k] \in SpoolJobs
      BY <1>0
  <2>3. Len(spool') = Len(spool) /\ \A k \in 1 .. Len(spool) :
            spool'[k].inode = spool[k].inode /\ spool'[k].end = spool[k].end
      BY <1>0, <2>1, <2>2 DEF SpoolJobs
  <2> QED BY <2>1, <2>3 DEF OffsetsAreInFile
<1>16. CASE NoteQueued
  <2>1. /\ saved'.inode = agent.inode /\ saved'.off = agent.cursor /\ Writing
        /\ UNCHANGED <<file, spool>>
        /\ UNCHANGED <<agent.inode, agent.target, agent.cursor>>
      BY <1>16 DEF NoteQueued, Goto1, AgentShape, Writing
  <2>2. /\ agent.cursor \in Nat /\ agent.target \in Nat /\ agent.cursor <= agent.target
        /\ agent.inode # -1
      BY <2>1, AgentAssumption DEF AgentShape
  <2>3. agent.inode = file.inode => agent.cursor <= file.size
      BY <1>0, <2>1, <2>2 DEF OffsetsAreInFile
  <2>4. agent.cursor <= agent.cursor
      BY <2>2
  <2> QED BY <2>1, <2>2, <2>3, <2>4 DEF OffsetsAreInFile
<1>17. CASE MoveIsCut
  <2>1. ~Writing' /\ UNCHANGED <<file, saved>>
      BY <1>17, CutMoves
  <2>2. PICK part : spool' = [spool EXCEPT ![Len(spool)].payload = part]
      BY <1>17, CutMoves
  <2>3. Len(spool') = Len(spool) /\ \A k \in 1 .. Len(spool) :
            spool'[k].inode = spool[k].inode /\ spool'[k].end = spool[k].end
      BY <1>0, <2>2, LastPayload
  <2> QED BY <2>1, <2>3 DEF OffsetsAreInFile
<1> QED
    BY <1>1, <1>2, <1>3, <1>5, <1>6, <1>7, <1>8, <1>9, <1>10, <1>11, <1>12, <1>13, <1>14, <1>15,
       <1>16, <1>17 DEF AgentNext, AgentStep

(* A truncation and a chunk that overwrote another are never forgotten.      *)
LEMMA BlurStays ==
    ASSUME AgentNext, ~blurred' PROVE ~blurred
BY DEF AgentNext, AgentStep, Grow, Rotate, Truncate, StartRun, DropHollow, SendKept, SendRefused,
       SendFails, NoteSent, RemoveSent, FlushOver, ScanFile, MakeJob, MovePayload, NoteQueued,
       FileOver, AgentDies, MoveIsCut

LEMMA OffsetInvStep == OffsetInv /\ [AgentNext]_AgentVars => OffsetInv'
<1> SUFFICES ASSUME OffsetInv, [AgentNext]_AgentVars PROVE OffsetInv'
    OBVIOUS
<1>1. SpoolInv' /\ SpoolOrder' /\ RunOrder'
    BY AgentShapeStep, NothingLostStep, OrdersStep DEF OffsetInv, SpoolInv
<1>2. ASSUME AgentNext, ~blurred' PROVE OffsetsAreInFile'
  <2>1. InodesAreOld /\ OffsetsAreInFile /\ AgentShape /\ SpoolOrder
      BY <1>2, BlurStays DEF OffsetInv, SpoolInv, NothingLost
  <2> QED BY <1>2, <2>1, OffsetsStep
<1>3. CASE UNCHANGED AgentVars
  <2>1. UNCHANGED <<file, saved, spool, agent, blurred>>
      BY <1>3 DEF AgentVars
  <2>2. OffsetsAreInFile => OffsetsAreInFile'
      BY <2>1 DEF OffsetsAreInFile, Writing
  <2> QED BY <1>1, <2>1, <2>2 DEF OffsetInv
<1> QED BY <1>1, <1>2, <1>3 DEF OffsetInv

(* Whatever the lines, the sizes, the endpoint and the deaths, the offset on *)
(* record for a source file never goes back.                                 *)
THEOREM RecordsNeverGoBack == AgentSpec => OffsetsGoOn
<1>1. AgentInit => OffsetInv
  <2> SUFFICES ASSUME AgentInit PROVE OffsetInv
      OBVIOUS
  <2>1. OffsetsAreInFile
      BY DEF AgentInit, OffsetsAreInFile, NoStateFile, Off, Writing
  <2> QED BY <2>1, SpoolInitOK, RepeatInitOK DEF OffsetInv, RepeatInv
<1>2. OffsetInv /\ [AgentNext]_AgentVars
        => [(~blurred' /\ saved'.inode = saved.inode) => saved'.off >= saved.off]_AgentVars
  <2> SUFFICES ASSUME OffsetInv, AgentNext, ~blurred', saved'.inode = saved.inode
               PROVE  saved'.off >= saved.off
      OBVIOUS
  <2>0. AgentShape /\ OffsetsAreInFile
      BY BlurStays DEF OffsetInv, SpoolInv
  <2>1. saved.off \in Nat /\ saved.inode \in Int
      BY <2>0, AgentAssumption DEF AgentShape
  <2>2. CASE saved' = saved
      BY <2>1, <2>2
  <2>3. CASE NoteSent
    <3>1. Sent /\ spool # <<>> /\ spool \in Seq(SpoolJobs)
        BY <2>0, <2>3 DEF NoteSent, Sent, AgentShape
    <3>2. Head1 \in SpoolJobs
        BY <3>1 DEF Head1
    <3>3. Head1.end \in Nat
        BY <3>2, AgentAssumption DEF SpoolJobs
    <3>4. CASE saved.inode = Head1.inode /\ Head1.end <= saved.off
        BY <2>1, <2>3, <3>4 DEF NoteSent, StateAfterSend
    <3>5. CASE ~(saved.inode = Head1.inode /\ Head1.end <= saved.off)
      <4>1. saved' = [inode |-> Head1.inode, off |-> Head1.end]
          BY <2>3, <3>5 DEF NoteSent, StateAfterSend
      <4>2. saved.inode = Head1.inode
          BY <4>1
      <4> QED BY <2>1, <3>3, <3>5, <4>1, <4>2
    <3> QED BY <3>4, <3>5
  <2>4. CASE NoteQueued
    <3>1. Writing /\ saved'.inode = agent.inode /\ saved'.off = agent.cursor
        BY <2>4 DEF NoteQueued, Writing
    <3>2. saved.off <= agent.cursor /\ agent.cursor \in Nat
        BY <2>0, <3>1 DEF OffsetsAreInFile, AgentShape
    <3> QED BY <2>1, <3>1, <3>2
  <2>5. CASE AgentDies
    <3>1. saved' = saved \/ (saved' = EmptyState /\ saved.inode = -1)
        BY <2>5 DEF AgentDies, EmptyState
    <3>2. saved' = EmptyState => saved'.off = 0
        BY DEF EmptyState
    <3>3. saved.inode = -1 => saved.off = 0
        BY <2>0 DEF OffsetsAreInFile
    <3> QED BY <2>1, <3>1, <3>2, <3>3
  <2> QED
    BY <2>2, <2>3, <2>4, <2>5 DEF AgentNext, AgentStep, Grow, Rotate, Truncate, StartRun,
       DropHollow, SendKept, SendRefused, SendFails, RemoveSent, FlushOver, ScanFile, MakeJob,
       MovePayload, FileOver, MoveIsCut
<1> QED BY <1>1, <1>2, OffsetInvStep, PTL DEF AgentSpec, OffsetsGoOn
-------------------------------------------------------------------------------
(* What the spool holds *)

(* A step accounts for what it did not take out of the spool, and for what  *)
(* it took out once it is kept or refused.                                   *)
LEMMA AccountedStays ==
    ASSUME \A b \in Bytes : keeps[b] > 0 => keeps'[b] > 0,
           \A b \in Bytes : b \in InSpool => b \in InSpool' \/ keeps'[b] > 0 \/ b \in refused',
           refused \subseteq refused'
    PROVE  Accounted \subseteq Accounted'
BY DEF Accounted

(* A payload goes into a job that has none, and takes nothing from the spool.*)
LEMMA PayloadsFillGaps ==
    ASSUME AgentShape, RunIsSafe, agent.phase = "made",
           NEW p, spool' = [spool EXCEPT ![Len(spool)].payload = p]
    PROVE  InSpool \cap Bytes \subseteq InSpool'
<1> SUFFICES ASSUME NEW b \in Bytes, b \in InSpool PROVE b \in InSpool'
    OBVIOUS
<1>1. PICK k \in DOMAIN spool : b \in spool[k].payload
    BY DEF InSpool
<1>2. spool[Len(spool)].payload = NoPayload
    BY DEF RunIsSafe
<1>3. <<0, 0>> \notin Bytes
    BY DEF Bytes
<1>4. k # Len(spool)
    BY <1>1, <1>2, <1>3 DEF NoPayload
<1>5. k \in DOMAIN spool' /\ spool'[k] = spool[k]
    BY <1>1, <1>2, <1>4
<1> QED BY <1>1, <1>5 DEF InSpool

(* A new job is put behind the others.                                       *)
LEMMA NewJobsAreLast ==
    ASSUME AgentShape, NEW x, spool' = Append(spool, x) PROVE InSpool \subseteq InSpool'
<1> SUFFICES ASSUME NEW b, b \in InSpool PROVE b \in InSpool'
    OBVIOUS
<1>1. PICK k \in DOMAIN spool : b \in spool[k].payload
    BY DEF InSpool
<1>2. k \in DOMAIN spool' /\ spool'[k] = spool[k]
  <2>1. spool \in Seq(SpoolJobs)
      BY DEF AgentShape
  <2> QED BY <1>1, <2>1
<1> QED BY <1>1, <1>2 DEF InSpool

LEMMA QueuedStaysStep ==
    ASSUME SpoolInv, AgentNext, ~blurred' PROVE Accounted \subseteq Accounted'
<1>1. AgentShape /\ RunIsSafe /\ AckedIsKept
    BY BlurStays DEF SpoolInv, NothingLost
<1>2. ASSUME UNCHANGED <<spool, keeps, refused>> PROVE Accounted \subseteq Accounted'
    BY <1>2 DEF Accounted, InSpool
<1>3. CASE \/ \E n \in 1 .. MaxSize : Grow(n)
           \/ Rotate \/ Truncate \/ StartRun \/ NoteSent \/ FlushOver \/ ScanFile
           \/ NoteQueued \/ FileOver \/ AgentDies
    BY <1>2, <1>3 DEF Grow, Rotate, Truncate, StartRun, NoteSent, FlushOver, ScanFile, NoteQueued,
                      FileOver, AgentDies
<1>4. ASSUME spool # <<>>, spool' = Tail(spool), keeps' = keeps, refused \subseteq refused',
             \A b \in Bytes : b \in Head1.payload => keeps[b] > 0 \/ b \in refused'
      PROVE  Accounted \subseteq Accounted'
  <2>1. \A b \in InSpool : b \in InSpool' \/ b \in Head1.payload
      BY <1>1, <1>4, HeadLeaves DEF AgentShape
  <2> QED BY <1>4, <2>1, AccountedStays
<1>5. CASE DropHollow
  <2>1. \A b \in Bytes : b \notin Head1.payload
      BY <1>5 DEF DropHollow, NoPayload, Bytes
  <2> QED BY <1>4, <1>5, <2>1 DEF DropHollow
<1>6. CASE SendRefused
    BY <1>4, <1>6 DEF SendRefused
<1>7. CASE RemoveSent
  <2>1. Sent
      BY <1>7 DEF RemoveSent, Sent
  <2>2. spool # <<>> /\ \A b \in Head1.payload : keeps[b] > 0
      BY <1>1, <2>1 DEF AgentShape, AckedIsKept
  <2> QED BY <1>4, <1>7, <2>2 DEF RemoveSent
<1>8. CASE SendKept \/ SendFails
  <2>1. UNCHANGED <<spool, refused>> /\ (keeps' = keeps \/ Keep(Head1))
      BY <1>8 DEF SendKept, SendFails
  <2>2. \A b \in Bytes : keeps[b] > 0 => keeps'[b] > 0
      BY <1>1, <2>1, KeepCounts
  <2> QED BY <2>1, <2>2, AccountedStays DEF InSpool
<1>9. ASSUME NEW same \in BOOLEAN, MakeJob(same) PROVE Accounted \subseteq Accounted'
  <2>1. ~same /\ UNCHANGED <<keeps, refused>> /\ spool' = Append(spool, Job(NoPayload))
      BY <1>9 DEF MakeJob
  <2> QED BY <1>1, <2>1, NewJobsAreLast, AccountedStays
<1>10. ASSUME agent.phase = "made", UNCHANGED <<keeps, refused>>,
              NEW p, spool' = [spool EXCEPT ![Len(spool)].payload = p]
       PROVE  Accounted \subseteq Accounted'
    BY <1>1, <1>10, PayloadsFillGaps, AccountedStays
<1>11. CASE MovePayload
    BY <1>10, <1>11 DEF MovePayload
<1>12. CASE MoveIsCut
    BY <1>1, <1>10, <1>12, CutMoves
<1> QED BY <1>3, <1>5, <1>6, <1>7, <1>8, <1>9, <1>11, <1>12 DEF AgentNext, AgentStep

(* Whatever the endpoint answers, whenever the agent dies and the file is    *)
(* rotated, flush_spool removes a job only when its bytes were kept or       *)
(* refused, and a new chunk takes the place of none.                          *)
THEOREM QueuedBytesStay == AgentSpec => NothingQueuedIsDropped
<1>1. AgentInit => SpoolInv
    BY SpoolInitOK
<1>2. SpoolInv /\ [AgentNext]_AgentVars => SpoolInv'
    BY AgentShapeStep, NothingLostStep DEF SpoolInv
<1>3. SpoolInv /\ [AgentNext]_AgentVars
        => [~blurred' => Accounted \subseteq Accounted']_AgentVars
    BY QueuedStaysStep
<1> QED BY <1>1, <1>2, <1>3, PTL DEF AgentSpec, NothingQueuedIsDropped
===============================================================================
