--------------------------- MODULE IncidentDeskProofs ---------------------------
(* Theorems of the two jobs behind detection: of IncidentDesk, for any      *)
(* processes, alerts, times and bounds, and of EntityJob, for any alerts,    *)
(* entities, decay table, batch size, processes and bounds.                  *)
EXTENDS IncidentDesk, EntityJob, SequenceTheorems, WellFoundedInduction, TLAPS

USE DEF Never

(* Both ways to commit an incident record a touch of it. *)
LEMMA Touched ==
    ASSUME TypeOK, NEW p \in Procs, Open(p) \/ Update(p)
    PROVE  /\ touches' = Append(touches, [at |-> now[p], base |-> base[p]])
           /\ lastInc' = now[p] /\ row' = "there"
           /\ pc[p] = "save" /\ Ended(p)
BY DEF Open, Update

(* Every step keeps the types.  The time of a run is a time once it started. *)
Started == \A p \in Procs : pc[p] # "idle" => now[p] \in Times

LEMMA TypePreserved == TypeOK /\ Started /\ [Next]_vars => TypeOK' /\ Started'
<1> SUFFICES ASSUME TypeOK, Started, [Next]_vars PROVE TypeOK' /\ Started'
    OBVIOUS
<1> USE DEF alertTab, incTab, run
<1>1. ASSUME NEW a \in Alerts, Raise(a) PROVE TypeOK' /\ Started'
    BY <1>1 DEF TypeOK, Started, Raise
<1>2. ASSUME NEW some \in SUBSET Alerts, BulkUpdate(some) PROVE TypeOK' /\ Started'
    BY <1>2 DEF TypeOK, Started, BulkUpdate
<1>3. ASSUME NEW i \in Incidents, NEW cascade \in BOOLEAN, PatchStatus(i, cascade)
      PROVE  TypeOK' /\ Started'
    BY <1>3 DEF TypeOK, Started, PatchStatus
<1>4. ASSUME NEW p \in Procs, NEW n \in Times, Scan(p, n) PROVE TypeOK' /\ Started'
    BY <1>4 DEF TypeOK, Started, Scan
<1>5. ASSUME NEW p \in Procs, Judge(p) PROVE TypeOK' /\ Started'
  <2>1. Len(touches) \in Nat
      BY DEF TypeOK
  <2> QED
      BY <1>5, <2>1 DEF TypeOK, Started, Judge
<1>6. ASSUME NEW p \in Procs, Lookup(p) PROVE TypeOK' /\ Started'
  <2>1. PICK i \in Known(p) \cup {0} :
            /\ target' = [target EXCEPT ![p] = i]
            /\ pc' = [pc EXCEPT ![p] = IF i = 0 THEN "save" ELSE "link"]
            /\ linked' = [linked EXCEPT ![p] = {}]
      BY <1>6 DEF Lookup
  <2>2. i \in Incidents \cup {0}
      BY DEF TypeOK, Known
  <2>3. target' \in [Procs -> Incidents \cup {0}]
      BY <2>1, <2>2 DEF TypeOK
  <2>4. /\ pc' \in [Procs -> {"idle", "judge", "quiet", "lookup", "link", "save"}]
        /\ linked' \in [Procs -> SUBSET Alerts]
      BY <2>1 DEF TypeOK
  <2>5. pc[p] = "lookup" /\ UNCHANGED <<alertTab, incTab, told, now, got, base, runs, ui>>
      BY <1>6 DEF Lookup
  <2> QED
      BY <2>1, <2>3, <2>4, <2>5 DEF TypeOK, Started
<1>7. ASSUME NEW p \in Procs, Link(p) PROVE TypeOK' /\ Started'
    BY <1>7 DEF TypeOK, Started, Link
<1>8. ASSUME NEW p \in Procs, Open(p) \/ Update(p) PROVE TypeOK' /\ Started'
  <2>1. [at |-> now[p], base |-> base[p]] \in [at : Times, base : Nat]
      BY <1>8, Touched DEF TypeOK, Started
  <2>2. touches' \in Seq([at : Times, base : Nat])
    <3>1. touches \in Seq([at : Times, base : Nat])
        BY DEF TypeOK
    <3>2. touches' = Append(touches, [at |-> now[p], base |-> base[p]])
        BY <1>8, Touched
    <3>3. ASSUME NEW T, NEW s \in Seq(T), NEW e \in T PROVE Append(s, e) \in Seq(T)
        OBVIOUS
    <3> QED
        BY <2>1, <3>1, <3>2, <3>3
  <2>3. lastInc' \in Times /\ row' = "there"
      BY <1>8, Touched DEF Started
  <2>4. links' \subseteq Incidents \X Alerts
    <3>1. CASE Open(p)
      <4>1. PICK i \in Incidents : links' = links \cup ({i} \X got[p])
          BY <3>1 DEF Open, FirstLinks
      <4>2. links \subseteq Incidents \X Alerts /\ got[p] \subseteq Alerts
          BY DEF TypeOK
      <4> QED
          BY <4>1, <4>2
    <3>2. CASE Update(p)
      <4>1. links' = links \cup ({target[p]} \X (got[p] \ linked[p]))
          BY <3>2 DEF Update
      <4>2. /\ links \subseteq Incidents \X Alerts /\ got[p] \subseteq Alerts
            /\ target[p] \in Incidents
          BY <3>2 DEF TypeOK, Update
      <4> QED
          BY <4>1, <4>2
    <3> QED
        BY <1>8, <3>1, <3>2
  <2>5. /\ open' \subseteq Incidents /\ opener' \in [Incidents -> SUBSET Procs]
        /\ evidence' \in [Incidents -> SUBSET Alerts] /\ told' \subseteq open'
    <3>1. CASE Open(p)
      <4>1. PICK i \in Incidents :
                /\ open' = open \cup {i}
                /\ evidence' = [evidence EXCEPT ![i] = got[p]]
                /\ opener' = [opener EXCEPT ![i] = {p}]
          BY <3>1 DEF Open
      <4>2. told' = told
          BY <3>1 DEF Open, Ended
      <4> QED
          BY <4>1, <4>2 DEF TypeOK
    <3>2. CASE Update(p)
        BY <3>2 DEF TypeOK, Update, Ended
    <3> QED
        BY <1>8, <3>1, <3>2
  <2>6. Ended(p)
      BY <1>8, Touched
  <2>7. /\ pc' \in [Procs -> {"idle", "judge", "quiet", "lookup", "link", "save"}]
        /\ now' \in [Procs -> Times \cup {Never}]
        /\ got' \in [Procs -> SUBSET Alerts]
        /\ target' \in [Procs -> Incidents \cup {0}]
        /\ linked' \in [Procs -> SUBSET Alerts]
        /\ base' \in [Procs -> Nat]
        /\ Started'
      BY <2>6 DEF TypeOK, Started, Ended
  <2>8. UNCHANGED <<raised, closed, told, runs, ui>>
      BY <2>6 DEF Ended
  <2>9. TypeOK'
      BY <2>2, <2>3, <2>4, <2>5, <2>7, <2>8 DEF TypeOK
  <2> QED
      BY <2>7, <2>9
<1>9. ASSUME NEW p \in Procs, Quiet(p) \/ Abort(p) PROVE TypeOK' /\ Started'
  <2>1. Ended(p) /\ UNCHANGED <<lastInc, open, evidence, links, opener, touches>>
      BY <1>9 DEF Quiet, Abort
  <2>2. row' \in {"absent", "there"} \cup Procs
      BY <1>9 DEF Quiet, Abort, TypeOK
  <2> QED
      BY <2>1, <2>2 DEF TypeOK, Started, Ended
<1>10. CASE UNCHANGED vars
    BY <1>10 DEF TypeOK, Started, vars
<1> QED
    BY <1>1, <1>2, <1>3, <1>4, <1>5, <1>6, <1>7, <1>8, <1>9, <1>10 DEF Next, Step

LEMMA TypeInit == Init => TypeOK /\ Started
BY DEF Init, TypeOK, Started

(* The tables and the runs keep their types. *)
THEOREM TypeCorrect == Spec => []TypeOK
<1> QED
    BY TypeInit, TypePreserved, PTL DEF Spec

-------------------------------------------------------------------------------

(* Links are read of an incident that was found. *)
LinkHasTarget == \A p \in Procs : pc[p] = "link" => target[p] # 0

LEMMA LinkPreserved == TypeOK /\ LinkHasTarget /\ [Next]_vars => LinkHasTarget'
<1> SUFFICES ASSUME TypeOK, LinkHasTarget, [Next]_vars PROVE LinkHasTarget'
    OBVIOUS
<1> USE DEF alertTab, incTab, run, LinkHasTarget
<1>1. ASSUME NEW p \in Procs, Lookup(p) PROVE LinkHasTarget'
    BY <1>1 DEF Lookup, TypeOK
<1>2. ASSUME NEW p \in Procs, Step(p), ~Lookup(p) PROVE LinkHasTarget'
    BY <1>2 DEF Step, Scan, Judge, Link, Open, Update, Quiet, Abort, Ended, TypeOK
<1>3. CASE UNCHANGED <<run>>
    BY <1>3
<1> QED
    BY <1>1, <1>2, <1>3 DEF Next, Raise, BulkUpdate, PatchStatus, vars

(* A process that is about to open an incident has opened none before: when *)
(* it looked, there was none, and since then only others commit.             *)
OpenersAreOthers ==
    \A p \in Procs : (pc[p] = "save" /\ target[p] = 0) =>
        \A i \in open : p \notin opener[i]

LEMMA OpenersPreserved ==
    TypeOK /\ LinkHasTarget /\ OpenersAreOthers /\ NoProcessOpensTwo /\ [Next]_vars
        => OpenersAreOthers' /\ NoProcessOpensTwo'
<1> SUFFICES ASSUME TypeOK, LinkHasTarget, OpenersAreOthers, NoProcessOpensTwo, [Next]_vars
             PROVE  OpenersAreOthers' /\ NoProcessOpensTwo'
    OBVIOUS
<1> USE DEF alertTab, incTab, run, OpenersAreOthers, NoProcessOpensTwo
<1>1. ASSUME NEW a \in Alerts, Raise(a) PROVE OpenersAreOthers' /\ NoProcessOpensTwo'
    BY <1>1 DEF Raise
<1>2. ASSUME NEW some \in SUBSET Alerts, BulkUpdate(some)
      PROVE  OpenersAreOthers' /\ NoProcessOpensTwo'
    BY <1>2 DEF BulkUpdate
<1>3. ASSUME NEW i \in Incidents, NEW cascade \in BOOLEAN, PatchStatus(i, cascade)
      PROVE  OpenersAreOthers' /\ NoProcessOpensTwo'
    BY <1>3 DEF PatchStatus
<1>4. ASSUME NEW p \in Procs, NEW n \in Times, Scan(p, n)
      PROVE  OpenersAreOthers' /\ NoProcessOpensTwo'
    BY <1>4 DEF Scan, TypeOK
<1>5. ASSUME NEW p \in Procs, Judge(p) PROVE OpenersAreOthers' /\ NoProcessOpensTwo'
    BY <1>5 DEF Judge, TypeOK
<1>6. ASSUME NEW p \in Procs, Lookup(p) PROVE OpenersAreOthers' /\ NoProcessOpensTwo'
    BY <1>6 DEF Lookup, Known, TypeOK
<1>7. ASSUME NEW p \in Procs, Link(p) PROVE OpenersAreOthers' /\ NoProcessOpensTwo'
    BY <1>7 DEF Link, TypeOK, LinkHasTarget
<1>8. ASSUME NEW p \in Procs, Open(p) PROVE OpenersAreOthers' /\ NoProcessOpensTwo'
  <2>1. PICK i \in Incidents : /\ Fresh(i) /\ open' = open \cup {i}
                               /\ opener' = [opener EXCEPT ![i] = {p}]
      BY <1>8 DEF Open
  <2>2. i \notin open /\ opener'[i] = {p} /\ \A k \in open : opener'[k] = opener[k]
      BY <2>1 DEF Fresh, TypeOK
  <2>3. \A k \in open : p \notin opener[k]
      BY <1>8 DEF Open
  <2>4. \A q \in Procs : (pc'[q] = "save" /\ target'[q] = 0) =>
            q # p /\ pc[q] = "save" /\ target[q] = 0
      BY <1>8 DEF Open, Ended, TypeOK
  <2>5. OpenersAreOthers'
      BY <2>1, <2>2, <2>4
  <2>6. NoProcessOpensTwo'
      BY <2>1, <2>2, <2>3
  <2> QED
      BY <2>5, <2>6
<1>9. ASSUME NEW p \in Procs, Update(p) \/ Quiet(p) \/ Abort(p)
      PROVE  OpenersAreOthers' /\ NoProcessOpensTwo'
  <2>1. UNCHANGED <<open, opener>> /\ Ended(p)
      BY <1>9 DEF Update, Quiet, Abort
  <2>2. \A q \in Procs : pc'[q] = "save" => pc[q] = "save" /\ target'[q] = target[q]
      BY <2>1 DEF Ended, TypeOK
  <2> QED
      BY <2>1, <2>2
<1>10. CASE UNCHANGED vars
    BY <1>10 DEF vars
<1> QED
    BY <1>1, <1>2, <1>3, <1>4, <1>5, <1>6, <1>7, <1>8, <1>9, <1>10 DEF Next, Step

LEMMA OpenersInit == Init => LinkHasTarget /\ OpenersAreOthers /\ NoProcessOpensTwo
BY DEF Init, LinkHasTarget, OpenersAreOthers, NoProcessOpensTwo

(* However the runs overlap and fail, no process opens a second incident. *)
THEOREM OneIncidentPerProcess == Spec => []NoProcessOpensTwo
<1> QED
    BY TypeInit, TypePreserved, OpenersInit, LinkPreserved, OpenersPreserved, PTL DEF Spec

-------------------------------------------------------------------------------

(* The state row holds the time of the last touch, and a run past the      *)
(* cooldown test that saw the last touch is a cooldown away from it.         *)
TouchesAreKept ==
    /\ touches = <<>> => lastInc = Never
    /\ touches # <<>> => lastInc = touches[Len(touches)].at
    /\ \A p \in Procs : base[p] <= Len(touches)
    /\ \A p \in Procs :
          (pc[p] \in {"lookup", "link", "save"} /\ base[p] = Len(touches) /\ touches # <<>>)
              => now[p] >= lastInc + Cooldown

Spaced == TouchesAreKept /\ SerialRunsAreSpaced

(* Runs past the cooldown test. *)
Past == {p \in Procs : pc[p] \in {"lookup", "link", "save"}}

(* Steps that record no touch and take no run past the cooldown test. *)
LEMMA SpacedElsewhere ==
    ASSUME TypeOK, Spaced, touches' = touches, lastInc' = lastInc,
           \A p \in Procs : base'[p] = base[p] \/ base'[p] = 0,
           \A p \in Past' : p \in Past /\ base'[p] = base[p] /\ now'[p] = now[p]
    PROVE  Spaced'
<1>1. Len(touches) \in Nat
    BY DEF TypeOK
<1>2. SerialRunsAreSpaced'
    BY DEF Spaced, SerialRunsAreSpaced
<1>3. TouchesAreKept'
    BY <1>1 DEF Spaced, TouchesAreKept, Past
<1> QED
    BY <1>2, <1>3 DEF Spaced

LEMMA SpacedPreserved == TypeOK /\ Started /\ Spaced /\ [Next]_vars => Spaced'
<1> SUFFICES ASSUME TypeOK, Started, Spaced, [Next]_vars PROVE Spaced'
    OBVIOUS
<1> USE DEF alertTab, incTab, run
<1>0. /\ Len(touches) \in Nat /\ Times \subseteq Nat /\ Cooldown \in Nat
      /\ touches \in Seq([at : Times, base : Nat])
    BY IncidentAssumption DEF TypeOK
<1>1. CASE UNCHANGED <<pc, now, base, touches, lastInc>>
    BY <1>1, SpacedElsewhere DEF Past
<1>2. ASSUME NEW p \in Procs, NEW n \in Times, Scan(p, n) PROVE Spaced'
  <2>1. \A q \in Past' : q \in Past /\ now'[q] = now[q]
      BY <1>2 DEF Scan, TypeOK, Past
  <2>2. touches' = touches /\ lastInc' = lastInc /\ base' = base
      BY <1>2 DEF Scan
  <2> QED
      BY <2>1, <2>2, SpacedElsewhere
<1>3. ASSUME NEW p \in Procs, Judge(p) PROVE Spaced'
  <2>1. /\ UNCHANGED <<touches, lastInc, now>>
        /\ base' = [base EXCEPT ![p] = Len(touches)]
        /\ pc' = [pc EXCEPT ![p] =
                    IF ~Cooling(now[p]) /\ Met(got[p]) THEN "lookup" ELSE "quiet"]
        /\ pc[p] = "judge"
      BY <1>3 DEF Judge
  <2>2. touches # <<>> => lastInc \in Times
    <3>1. touches # <<>> => touches[Len(touches)] \in [at : Times, base : Nat]
      <4> DEFINE T == [at : Times, base : Nat]
      <4>1. touches \in Seq(T)
          BY <1>0
      <4> HIDE DEF T
      <4>2. touches # <<>> => Len(touches) \in 1..Len(touches)
          BY <1>0, <4>1, EmptySeq
      <4>3. touches # <<>> => touches[Len(touches)] \in T
          BY <4>1, <4>2, ElementOfSeq
      <4> QED
          BY <4>3 DEF T
    <3> QED
        BY <3>1 DEF Spaced, TouchesAreKept
  <2>3. now[p] \in Times
      BY <2>1 DEF Started
  <2>4. (pc'[p] = "lookup" /\ touches # <<>>) => now[p] >= lastInc + Cooldown
    <3>1. pc'[p] = "lookup" => ~Cooling(now[p])
        BY <2>1 DEF TypeOK
    <3>2. touches # <<>> => lastInc \in Nat
        BY <2>2, IncidentAssumption
    <3>3. now[p] \in Nat /\ Cooldown \in Nat
        BY <2>3, IncidentAssumption
    <3>4. pc'[p] = "lookup" => lastInc = Never \/ ~(now[p] < lastInc + Cooldown)
        BY <3>1 DEF Cooling
    <3> QED
        BY <3>2, <3>3, <3>4
  <2>5. /\ base'[p] = Len(touches) /\ pc'[p] \in {"lookup", "quiet"}
        /\ \A q \in Procs \ {p} : base'[q] = base[q] /\ pc'[q] = pc[q]
      BY <2>1 DEF TypeOK
  <2>6. TouchesAreKept'
      BY <1>0, <2>1, <2>4, <2>5 DEF Spaced, TouchesAreKept
  <2> QED
      BY <2>1, <2>6 DEF Spaced, SerialRunsAreSpaced
<1>4. ASSUME NEW p \in Procs, Lookup(p) \/ Link(p) PROVE Spaced'
  <2>1. touches' = touches /\ lastInc' = lastInc /\ base' = base /\ now' = now
      BY <1>4 DEF Lookup, Link
  <2>2. Past' \subseteq Past
      BY <1>4 DEF Lookup, Link, TypeOK, Past
  <2> QED
      BY <2>1, <2>2, SpacedElsewhere
<1>5. ASSUME NEW p \in Procs, Open(p) \/ Update(p) PROVE Spaced'
  <2> DEFINE t == [at |-> now[p], base |-> base[p]]
  <2>1. /\ touches' = Append(touches, t) /\ lastInc' = now[p]
        /\ pc[p] = "save" /\ Ended(p)
      BY <1>5, Touched
  <2>2. now[p] \in Times /\ base[p] \in Nat
      BY <2>1 DEF Started, TypeOK
  <2>3. /\ Len(touches') = Len(touches) + 1 /\ touches' # <<>>
        /\ touches'[Len(touches) + 1] = t
        /\ \A k \in 1..Len(touches) : touches'[k] = touches[k]
        /\ DOMAIN touches' = 1..(Len(touches) + 1) /\ DOMAIN touches = 1..Len(touches)
      BY <1>0, <2>1, <2>2
  <2>4. \A q \in Procs : base'[q] = IF q = p THEN 0 ELSE base[q]
      BY <2>1 DEF Ended, TypeOK
  <2>5. \A q \in Procs : base'[q] \in Nat /\ base'[q] < Len(touches')
      BY <1>0, <2>3, <2>4 DEF Spaced, TouchesAreKept, TypeOK
  <2>6. TouchesAreKept'
      BY <1>0, <2>1, <2>3, <2>5 DEF TouchesAreKept
  <2>7. (Len(touches) >= 1 /\ base[p] = Len(touches)) =>
            now[p] >= touches[Len(touches)].at + Cooldown
      BY <1>0, <2>1 DEF Spaced, TouchesAreKept
  <2>8. SerialRunsAreSpaced'
    <3> SUFFICES ASSUME NEW k \in 1..(Len(touches) + 1), k > 1, touches'[k].base = k - 1
                 PROVE  touches'[k].at >= touches'[k - 1].at + Cooldown
        BY <2>3 DEF SerialRunsAreSpaced
    <3>1. CASE k = Len(touches) + 1
      <4>1. touches'[k] = t /\ touches'[k - 1] = touches[Len(touches)]
          BY <1>0, <2>3, <3>1
      <4>2. Len(touches) >= 1 /\ base[p] = Len(touches)
          BY <1>0, <3>1, <4>1
      <4> QED
          BY <2>7, <4>1, <4>2
    <3>2. CASE k # Len(touches) + 1
      <4>1. k \in 1..Len(touches) /\ k - 1 \in 1..Len(touches)
          BY <1>0, <3>2
      <4> QED
          BY <2>3, <4>1 DEF Spaced, SerialRunsAreSpaced
    <3> QED
        BY <3>1, <3>2
  <2> QED
      BY <2>6, <2>8 DEF Spaced
<1>6. ASSUME NEW p \in Procs, Quiet(p) \/ Abort(p) PROVE Spaced'
  <2>1. touches' = touches /\ lastInc' = lastInc /\ Ended(p)
      BY <1>6 DEF Quiet, Abort
  <2>2. \A q \in Procs : base'[q] = IF q = p THEN 0 ELSE base[q]
      BY <2>1 DEF Ended, TypeOK
  <2>3. \A q \in Past' : q \in Past /\ q # p /\ now'[q] = now[q]
    <3>1. \A q \in Procs : pc'[q] = IF q = p THEN "idle" ELSE pc[q]
        BY <2>1 DEF Ended, TypeOK
    <3>2. \A q \in Procs : q # p => now'[q] = now[q]
        BY <2>1 DEF Ended, TypeOK
    <3> QED
        BY <3>1, <3>2 DEF Past
  <2>4. base[p] \in Nat /\ \A q \in Past' : base'[q] = base[q]
      BY <2>2, <2>3 DEF TypeOK, Past
  <2> QED
      BY <2>1, <2>2, <2>3, <2>4, SpacedElsewhere
<1> QED
    BY <1>1, <1>2, <1>3, <1>4, <1>5, <1>6
       DEF Next, Step, Raise, BulkUpdate, PatchStatus, vars

LEMMA SpacedInit == Init => Spaced
<1> SUFFICES ASSUME Init PROVE Spaced
    OBVIOUS
<1>1. touches = <<>> /\ DOMAIN touches = {} /\ Len(touches) = 0 /\ lastInc = Never
    BY DEF Init
<1>2. \A p \in Procs : base[p] = 0
    BY DEF Init
<1> QED
    BY <1>1, <1>2 DEF Spaced, TouchesAreKept, SerialRunsAreSpaced

(* Touches of incidents closer than the cooldown are of overlapping runs. *)
THEOREM CooldownHoldsForSerialRuns == Spec => []SerialRunsAreSpaced
<1>1. Spaced => SerialRunsAreSpaced
    BY DEF Spaced
<1> QED
    BY <1>1, TypeInit, TypePreserved, SpacedInit, SpacedPreserved, PTL DEF Spec

-------------------------------------------------------------------------------

(* The links of an incident are written with it and never deleted. *)
LEMMA LinkedPreserved == TypeOK /\ EvidenceIsLinked /\ [Next]_vars => EvidenceIsLinked'
<1> SUFFICES ASSUME TypeOK, EvidenceIsLinked, [Next]_vars PROVE EvidenceIsLinked'
    OBVIOUS
<1> USE DEF alertTab, incTab, run
<1>1. ASSUME NEW p \in Procs, Open(p) PROVE EvidenceIsLinked'
  <2>1. PICK i \in Incidents : /\ open' = open \cup {i}
                               /\ evidence' = [evidence EXCEPT ![i] = got[p]]
                               /\ links' = links \cup ({i} \X got[p])
                               /\ Fresh(i)
      BY <1>1 DEF Open, FirstLinks
  <2>2. /\ evidence'[i] = got[p]
        /\ \A k \in open : k # i /\ evidence'[k] = evidence[k]
      BY <2>1 DEF TypeOK, Fresh
  <2>3. \A k \in open : {k} \X evidence'[k] \subseteq links'
      BY <2>1, <2>2 DEF EvidenceIsLinked
  <2>4. {i} \X evidence'[i] \subseteq links'
      BY <2>1, <2>2
  <2> QED
      BY <2>1, <2>3, <2>4 DEF EvidenceIsLinked
<1>2. ASSUME NEW p \in Procs, Update(p) PROVE EvidenceIsLinked'
  <2>1. links \subseteq links' /\ UNCHANGED <<open, evidence>>
      BY <1>2 DEF Update
  <2> QED
      BY <2>1 DEF EvidenceIsLinked
<1>3. CASE UNCHANGED <<open, evidence, links>>
    BY <1>3 DEF EvidenceIsLinked
<1> QED
    BY <1>1, <1>2, <1>3
       DEF Next, Step, Raise, BulkUpdate, PatchStatus, Scan, Judge, Lookup, Link, Quiet, Abort, vars

(* Every alert the evidence of an incident names is linked to it. *)
THEOREM EvidenceHasLinks == Spec => []EvidenceIsLinked
<1>1. Init => EvidenceIsLinked
    BY DEF Init, EvidenceIsLinked
<1> QED
    BY <1>1, TypeInit, TypePreserved, LinkedPreserved, PTL DEF Spec

-------------------------------------------------------------------------------

(* What a run holds is a window of alerts, enough of them once it passed    *)
(* the condition; and the time of an alert never changes.                    *)
RunsHoldWindows ==
    /\ \A p \in Procs : pc[p] # "idle" =>
          \A a \in got[p] : raised[a] \in Times /\ InWindow(raised[a], now[p])
    /\ \A p \in Past : Met(got[p])
    /\ \A i \in open : \A a \in evidence[i] : raised[a] \in Times

Bursts == RunsHoldWindows /\ IncidentsHaveBursts

LEMMA BurstsPreserved == TypeOK /\ Started /\ Bursts /\ [Next]_vars => Bursts'
<1> SUFFICES ASSUME TypeOK, Started, Bursts, [Next]_vars PROVE Bursts'
    OBVIOUS
<1> USE DEF alertTab, incTab, run, Bursts, RunsHoldWindows, IncidentsHaveBursts
<1>1. ASSUME NEW a \in Alerts, Raise(a) PROVE Bursts'
  <2>1. PICK t \in Times : raised' = [raised EXCEPT ![a] = t]
      BY <1>1 DEF Raise
  <2>2. raised[a] = Never /\ UNCHANGED <<pc, now, got, open, evidence>>
      BY <1>1 DEF Raise
  <2>3. \A b \in Alerts : raised[b] \in Times => raised'[b] = raised[b]
      BY <2>1, <2>2, IncidentAssumption DEF TypeOK
  <2>4. /\ \A p \in Procs : got[p] \subseteq Alerts
        /\ \A i \in open : evidence[i] \subseteq Alerts
      BY DEF TypeOK
  <2>5. RunsHoldWindows'
      BY <2>2, <2>3, <2>4 DEF Past
  <2>6. IncidentsHaveBursts'
      BY <2>2, <2>3, <2>4
  <2> QED
      BY <2>5, <2>6
<1>2. ASSUME NEW p \in Procs, NEW n \in Times, Scan(p, n) PROVE Bursts'
  <2>1. UNCHANGED <<raised, open, evidence>>
      BY <1>2 DEF Scan
  <2>2. \A q \in Procs \ {p} : pc'[q] = pc[q] /\ got'[q] = got[q] /\ now'[q] = now[q]
      BY <1>2 DEF Scan, TypeOK
  <2>3. /\ pc'[p] = "judge" /\ now'[p] = n
        /\ got'[p] = {a \in Alerts : raised[a] # Never /\ InWindow(raised[a], n)}
      BY <1>2 DEF Scan, TypeOK
  <2>4. \A a \in got'[p] : raised[a] \in Times /\ InWindow(raised[a], n)
      BY <2>3 DEF TypeOK
  <2>5. \A q \in Past' : q # p /\ q \in Past
      BY <2>2, <2>3 DEF Past
  <2>6. \A q \in Procs : pc'[q] # "idle" =>
            \A a \in got'[q] : raised'[a] \in Times /\ InWindow(raised'[a], now'[q])
      BY <2>1, <2>2, <2>3, <2>4
  <2>7. \A q \in Past' : Met(got'[q])
      BY <2>2, <2>5 DEF Past
  <2> QED
      BY <2>1, <2>6, <2>7 DEF Met
<1>3. ASSUME NEW p \in Procs, Judge(p) PROVE Bursts'
  <2>1. UNCHANGED <<raised, open, evidence, now, got>> /\ pc[p] = "judge"
      BY <1>3 DEF Judge
  <2>2. /\ \A q \in Procs \ {p} : pc'[q] = pc[q]
        /\ pc'[p] = "lookup" => Met(got[p])
        /\ pc'[p] \in {"lookup", "quiet"}
      BY <1>3 DEF Judge, TypeOK
  <2>3. \A q \in Past' : Met(got[q])
      BY <2>2 DEF Past
  <2> QED
      BY <2>1, <2>2, <2>3 DEF Met
<1>4. ASSUME NEW p \in Procs, Lookup(p) \/ Link(p) PROVE Bursts'
  <2>1. UNCHANGED <<raised, open, evidence, now, got>> /\ pc[p] # "idle"
      BY <1>4 DEF Lookup, Link
  <2>2. Past' \subseteq Past /\ \A q \in Procs : pc'[q] # "idle" => pc[q] # "idle"
      BY <1>4 DEF Lookup, Link, TypeOK, Past
  <2> QED
      BY <2>1, <2>2 DEF Met
<1>5. ASSUME NEW p \in Procs, Ended(p), raised' = raised,
             open' = open, evidence' = evidence
      PROVE  Bursts'
  <2>1. /\ \A q \in Procs \ {p} : pc'[q] = pc[q] /\ got'[q] = got[q] /\ now'[q] = now[q]
        /\ pc'[p] = "idle"
      BY <1>5 DEF Ended, TypeOK
  <2>2. \A q \in Past' : q # p /\ q \in Past
      BY <2>1 DEF Past
  <2>3. \A q \in Past' : Met(got'[q])
      BY <2>1, <2>2 DEF Past
  <2>4. \A q \in Procs : pc'[q] # "idle" =>
            \A a \in got'[q] : raised'[a] \in Times /\ InWindow(raised'[a], now'[q])
      BY <1>5, <2>1
  <2> QED
      BY <1>5, <2>3, <2>4 DEF Met
<1>6. ASSUME NEW p \in Procs, Open(p) PROVE Bursts'
  <2>1. PICK i \in Incidents : /\ Fresh(i) /\ open' = open \cup {i}
                               /\ evidence' = [evidence EXCEPT ![i] = got[p]]
      BY <1>6 DEF Open
  <2>2. /\ evidence'[i] = got[p]
        /\ \A k \in open : k # i /\ evidence'[k] = evidence[k]
      BY <2>1 DEF TypeOK, Fresh
  <2>3. Ended(p) /\ raised' = raised /\ pc[p] = "save"
      BY <1>6 DEF Open, Ended
  <2>4. /\ \A q \in Procs \ {p} : pc'[q] = pc[q] /\ got'[q] = got[q] /\ now'[q] = now[q]
        /\ pc'[p] = "idle"
      BY <2>3 DEF Ended, TypeOK
  <2>5. /\ \A a \in got[p] : raised[a] \in Times /\ InWindow(raised[a], now[p])
        /\ Met(got[p])
      BY <2>3 DEF Past
  <2>6. now[p] \in Nat /\ Times \subseteq Nat /\ Window \in Nat
      BY <2>3, IncidentAssumption DEF Started
  <2>7. \A a, b \in got[p] : raised[a] <= raised[b] + Window
    <3> SUFFICES ASSUME NEW a \in got[p], NEW b \in got[p]
                 PROVE  raised[a] <= raised[b] + Window
        OBVIOUS
    <3>1. raised[a] \in Nat /\ raised[b] \in Nat
        BY <2>5, <2>6
    <3>2. raised[a] <= now[p] /\ now[p] - Window <= raised[b]
        BY <2>5 DEF InWindow
    <3> QED
        BY <2>6, <3>1, <3>2
  <2>8. IncidentsHaveBursts'
      BY <2>1, <2>2, <2>3, <2>5, <2>7 DEF Met
  <2>9. \A q \in Past' : q # p /\ q \in Past
      BY <2>4 DEF Past
  <2>10. \A q \in Past' : Met(got'[q])
      BY <2>4, <2>9 DEF Past
  <2>11. \A q \in Procs : pc'[q] # "idle" =>
            \A a \in got'[q] : raised'[a] \in Times /\ InWindow(raised'[a], now'[q])
      BY <2>3, <2>4
  <2>12. \A k \in open' : \A a \in evidence'[k] : raised'[a] \in Times
      BY <2>1, <2>2, <2>3, <2>5
  <2> QED
      BY <2>8, <2>10, <2>11, <2>12 DEF Met
<1>7. CASE UNCHANGED <<raised, pc, now, got, open, evidence>>
    BY <1>7 DEF Past, Met
<1>8. ASSUME NEW p \in Procs, Update(p) \/ Quiet(p) \/ Abort(p) PROVE Bursts'
  <2>1. Ended(p) /\ raised' = raised /\ open' = open /\ evidence' = evidence
      BY <1>8 DEF Update, Quiet, Abort, Ended
  <2> QED
      BY <1>5, <2>1
<1> QED
    BY <1>1, <1>2, <1>3, <1>4, <1>6, <1>7, <1>8
       DEF Next, Step, BulkUpdate, PatchStatus, vars

LEMMA BurstsInit == Init => Bursts
BY DEF Init, Bursts, RunsHoldWindows, IncidentsHaveBursts, Past

(* Every incident was opened for enough alerts of one window. *)
THEOREM IncidentsAreBursts == Spec => []IncidentsHaveBursts
<1>1. Bursts => IncidentsHaveBursts
    BY DEF Bursts
<1> QED
    BY <1>1, TypeInit, TypePreserved, BurstsInit, BurstsPreserved, PTL DEF Spec

-------------------------------------------------------------------------------
(* The entity scoring job *)

(* What holds at 0 and passes from each position to the next holds of all.  *)
LEMMA UpTo ==
    ASSUME NEW n \in Nat, NEW T, 0 \in T, \A i \in 1 .. n : i - 1 \in T => i \in T
    PROVE  \A i \in 0 .. n : i \in T
<1> SUFFICES ASSUME NEW k \in 0 .. n, k \notin T PROVE FALSE
    OBVIOUS
<1> DEFINE bad == {i \in 0 .. n : i \notin T}
<1>1. bad \subseteq Nat /\ bad # {}
    OBVIOUS
<1>2. PICK x \in bad : \A y \in bad : ~(<<y, x>> \in OpToRel(<, Nat))
  <2> HIDE DEF bad
  <2> QED BY <1>1, WFMin, NatLessThanWellFounded
<1>3. x \in 1 .. n /\ x \notin T
    OBVIOUS
<1>4. x - 1 \in Nat /\ x - 1 < x /\ x - 1 \in bad
    BY <1>3
<1>5. <<x - 1, x>> \in OpToRel(<, Nat)
    BY <1>3, <1>4 DEF OpToRel
<1> QED
    BY <1>2, <1>4, <1>5

-------------------------------------------------------------------------------
(* Sums of a ledger *)

LedgerRow == Entities \X Int \X (AlertIds \cup {0})

(* The partial sums behind Total.                                           *)
Sums(e, from, rows) ==
    CHOOSE sum : sum = [i \in 0 .. Len(rows) |->
                          IF i = 0 THEN from
                          ELSE IF rows[i][1] = e THEN Clamp(sum[i - 1] + rows[i][2])
                          ELSE sum[i - 1]]

(* The total is the last of the partial sums.                               *)
LEMMA TotalIsSum ==
    ASSUME NEW e, NEW from, NEW rows
    PROVE  Total(e, from, rows) = Sums(e, from, rows)[Len(rows)]
BY DEF Total, Sums

(* There are such sums: they are made from those of one position less.      *)
LEMMA SumsExist ==
    ASSUME NEW e, NEW from, NEW S, NEW rows \in Seq(S)
    PROVE  /\ Sums(e, from, rows)[0] = from
           /\ \A i \in 1 .. Len(rows) :
                Sums(e, from, rows)[i] =
                    IF rows[i][1] = e THEN Clamp(Sums(e, from, rows)[i - 1] + rows[i][2])
                    ELSE Sums(e, from, rows)[i - 1]
<1> DEFINE Next1(s, i) == IF rows[i][1] = e THEN Clamp(s + rows[i][2]) ELSE s
           SumsTo(n, f) == f = [i \in 0 .. n |-> IF i = 0 THEN from ELSE Next1(f[i - 1], i)]
           T == {n \in Nat : \E f : SumsTo(n, f)}
<1>1. 0 \in T
  <2> DEFINE g == [i \in 0 .. 0 |-> from]
  <2>1. SumsTo(0, g)
      OBVIOUS
  <2> QED BY <2>1
<1>2. ASSUME NEW n \in 1 .. Len(rows), n - 1 \in T PROVE n \in T
  <2>1. PICK f : SumsTo(n - 1, f)
      BY <1>2
  <2> DEFINE g == [i \in 0 .. n |-> IF i = n THEN Next1(f[n - 1], n) ELSE f[i]]
  <2>2. ASSUME NEW i \in 0 .. n
        PROVE  g[i] = IF i = 0 THEN from ELSE Next1(g[i - 1], i)
    <3>1. \A k \in 0 .. n - 1 : f[k] = IF k = 0 THEN from ELSE Next1(f[k - 1], k)
        BY <2>1
    <3> HIDE DEF Next1
    <3>2. \A k \in 0 .. n - 1 : g[k] = f[k]
        OBVIOUS
    <3>3. CASE i = n
        BY <3>2, <3>3
    <3>4. CASE i \in 1 .. n - 1
      <4>1. i - 1 \in 0 .. n - 1
          BY <3>4
      <4> QED BY <3>1, <3>2, <3>4, <4>1
    <3>5. CASE i = 0
        BY <3>1, <3>2, <3>5
    <3> QED BY <3>3, <3>4, <3>5
  <2> HIDE DEF Next1
  <2>3. SumsTo(n, g)
      BY <2>2
  <2> HIDE DEF SumsTo, g
  <2> QED BY <2>3
<1>3. Len(rows) \in T
  <2> HIDE DEF T
  <2>1. Len(rows) \in Nat
      OBVIOUS
  <2>2. \A i \in 1 .. Len(rows) : i - 1 \in T => i \in T
      BY <1>2
  <2>3. \A i \in 0 .. Len(rows) : i \in T
      BY <1>1, <2>1, <2>2, UpTo
  <2> QED BY <2>1, <2>3
<1>4. PICK f : SumsTo(Len(rows), f)
    BY <1>3
<1>5. SumsTo(Len(rows), Sums(e, from, rows))
  <2>1. \E sum : sum = [i \in 0 .. Len(rows) |->
                          IF i = 0 THEN from
                          ELSE IF rows[i][1] = e THEN Clamp(sum[i - 1] + rows[i][2])
                          ELSE sum[i - 1]]
      BY <1>4
  <2> QED BY <2>1, Zenon DEF Sums
<1> DEFINE sum == Sums(e, from, rows)
<1>6. sum = [i \in 0 .. Len(rows) |-> IF i = 0 THEN from ELSE Next1(sum[i - 1], i)]
    BY <1>5
<1> HIDE DEF sum
<1>7. sum[0] = from
  <2>1. 0 \in 0 .. Len(rows)
      OBVIOUS
  <2> QED BY <1>6, <2>1
<1>8. ASSUME NEW i \in 1 .. Len(rows) PROVE sum[i] = Next1(sum[i - 1], i)
  <2>1. i \in 0 .. Len(rows) /\ i # 0
      OBVIOUS
  <2> HIDE DEF Next1
  <2> QED BY <1>6, <2>1
<1> QED
    BY <1>7, <1>8 DEF sum

(* An empty ledger adds nothing.                                            *)
LEMMA TotalEmpty ==
    ASSUME NEW e, NEW from
    PROVE  Total(e, from, <<>>) = from
<1> DEFINE none == <<>>
<1>1. none \in Seq({}) /\ Len(none) = 0
    OBVIOUS
<1> HIDE DEF none
<1>2. Sums(e, from, none)[0] = from
  <2>1. \A rows \in Seq({}) : Sums(e, from, rows)[0] = from
      BY SumsExist
  <2> QED BY <1>1, <2>1
<1>3. Total(e, from, none) = Sums(e, from, none)[Len(none)]
    BY TotalIsSum
<1> QED
    BY <1>1, <1>2, <1>3 DEF none

(* The sums of a part of the rows are those of the whole.                   *)
LEMMA SumsOfFront ==
    ASSUME NEW e, NEW from, NEW S, NEW rows \in Seq(S), NEW all \in Seq(S),
           Len(rows) <= Len(all), \A i \in 1 .. Len(rows) : all[i] = rows[i]
    PROVE  Sums(e, from, all)[Len(rows)] = Total(e, from, rows)
<1> DEFINE T == {i \in 0 .. Len(rows) : Sums(e, from, all)[i] = Sums(e, from, rows)[i]}
<1>1. 0 \in T
    BY SumsExist
<1>2. ASSUME NEW i \in 1 .. Len(rows), i - 1 \in T PROVE i \in T
  <2>1. Sums(e, from, rows)[i] =
            IF rows[i][1] = e THEN Clamp(Sums(e, from, rows)[i - 1] + rows[i][2])
            ELSE Sums(e, from, rows)[i - 1]
      BY SumsExist
  <2>2. i \in 1 .. Len(all)
      OBVIOUS
  <2>3. Sums(e, from, all)[i] =
            IF all[i][1] = e THEN Clamp(Sums(e, from, all)[i - 1] + all[i][2])
            ELSE Sums(e, from, all)[i - 1]
      BY <2>2, SumsExist
  <2>4. Sums(e, from, all)[i - 1] = Sums(e, from, rows)[i - 1] /\ all[i] = rows[i]
      BY <1>2
  <2> QED BY <2>1, <2>3, <2>4
<1>3. Len(rows) \in T
  <2> HIDE DEF T
  <2>1. Len(rows) \in Nat
      OBVIOUS
  <2>2. \A i \in 1 .. Len(rows) : i - 1 \in T => i \in T
      BY <1>2
  <2>3. \A i \in 0 .. Len(rows) : i \in T
      BY <1>1, <2>1, <2>2, UpTo
  <2> QED BY <2>1, <2>3
<1> QED
    BY <1>3, TotalIsSum

(* One more row adds its delta to the score of its entity.                 *)
LEMMA TotalAppend ==
    ASSUME NEW e, NEW from, NEW S, NEW rows \in Seq(S), NEW entry \in S
    PROVE  Total(e, from, Append(rows, entry)) =
               IF entry[1] = e THEN Clamp(Total(e, from, rows) + entry[2]) ELSE Total(e, from, rows)
<1> DEFINE all == Append(rows, entry)
<1>1. /\ all \in Seq(S) /\ Len(all) = Len(rows) + 1 /\ all[Len(rows) + 1] = entry
      /\ \A i \in 1 .. Len(rows) : all[i] = rows[i]
      /\ Len(rows) \in Nat
    OBVIOUS
<1> HIDE DEF all
<1>2. Sums(e, from, all)[Len(rows)] = Total(e, from, rows)
    BY <1>1, SumsOfFront
<1>3. Len(all) \in 1 .. Len(all) /\ Len(all) - 1 = Len(rows)
    BY <1>1
<1>4. Sums(e, from, all)[Len(all)] =
          IF all[Len(all)][1] = e
          THEN Clamp(Sums(e, from, all)[Len(all) - 1] + all[Len(all)][2])
          ELSE Sums(e, from, all)[Len(all) - 1]
    BY <1>1, <1>3, SumsExist
<1>5. Total(e, from, all) = Sums(e, from, all)[Len(all)]
    BY TotalIsSum
<1> QED
    BY <1>1, <1>2, <1>3, <1>4, <1>5 DEF all

(* A ledger is added up from where the one before it stopped.               *)
LEMMA TotalConcat ==
    ASSUME NEW e, NEW from, NEW S, NEW a \in Seq(S), NEW b \in Seq(S)
    PROVE  Total(e, from, a \o b) = Total(e, Total(e, from, a), b)
<1> DEFINE all == a \o b
           mid == Total(e, from, a)
           T == {k \in 0 .. Len(b) : Sums(e, from, all)[Len(a) + k] = Sums(e, mid, b)[k]}
<1>1. /\ all \in Seq(S) /\ Len(all) = Len(a) + Len(b)
      /\ \A i \in 1 .. Len(a) : all[i] = a[i]
      /\ \A i \in 1 .. Len(b) : all[Len(a) + i] = b[i]
      /\ Len(a) \in Nat /\ Len(b) \in Nat
    OBVIOUS
<1> HIDE DEF all
<1>2. Sums(e, from, all)[Len(a)] = mid
  <2>1. Len(a) <= Len(all)
      BY <1>1
  <2> QED BY <1>1, <2>1, SumsOfFront
<1> HIDE DEF mid
<1>3. 0 \in T
    BY <1>1, <1>2, SumsExist
<1>4. ASSUME NEW k \in 1 .. Len(b), k - 1 \in T PROVE k \in T
  <2>1. Len(a) + k \in 1 .. Len(all) /\ (Len(a) + k) - 1 = Len(a) + (k - 1)
      BY <1>1
  <2>2. Sums(e, from, all)[Len(a) + k] =
            IF all[Len(a) + k][1] = e
            THEN Clamp(Sums(e, from, all)[(Len(a) + k) - 1] + all[Len(a) + k][2])
            ELSE Sums(e, from, all)[(Len(a) + k) - 1]
    <3> DEFINE n == Len(a) + k
    <3>1. n \in 1 .. Len(all)
        BY <2>1
    <3> HIDE DEF n
    <3>2. Sums(e, from, all)[n] =
              IF all[n][1] = e THEN Clamp(Sums(e, from, all)[n - 1] + all[n][2])
              ELSE Sums(e, from, all)[n - 1]
        BY <1>1, <3>1, SumsExist
    <3> QED BY <3>2 DEF n
  <2>3. Sums(e, mid, b)[k] =
            IF b[k][1] = e THEN Clamp(Sums(e, mid, b)[k - 1] + b[k][2])
            ELSE Sums(e, mid, b)[k - 1]
      BY SumsExist
  <2>4. Sums(e, from, all)[Len(a) + (k - 1)] = Sums(e, mid, b)[k - 1] /\ all[Len(a) + k] = b[k]
      BY <1>1, <1>4
  <2> QED BY <2>1, <2>2, <2>3, <2>4
<1>5. Len(b) \in T
  <2> HIDE DEF T
  <2>1. \A k \in 1 .. Len(b) : k - 1 \in T => k \in T
      BY <1>4
  <2>2. \A k \in 0 .. Len(b) : k \in T
      BY <1>1, <1>3, <2>1, UpTo
  <2> QED BY <1>1, <2>2
<1>6. Total(e, from, all) = Sums(e, from, all)[Len(all)] /\ Total(e, mid, b) = Sums(e, mid, b)[Len(b)]
    BY TotalIsSum
<1> QED
    BY <1>1, <1>5, <1>6 DEF all, mid

(* Rows of others change nothing.                                           *)
LEMMA TotalOfOthers ==
    ASSUME NEW e, NEW from, NEW S, NEW rows \in Seq(S), \A i \in DOMAIN rows : rows[i][1] # e
    PROVE  Total(e, from, rows) = from
<1> DEFINE T == {i \in 0 .. Len(rows) : Sums(e, from, rows)[i] = from}
<1>1. 0 \in T
    BY SumsExist
<1>2. ASSUME NEW i \in 1 .. Len(rows), i - 1 \in T PROVE i \in T
    BY <1>2, SumsExist
<1>3. Len(rows) \in T
  <2> HIDE DEF T
  <2>1. Len(rows) \in Nat
      OBVIOUS
  <2>2. \A i \in 1 .. Len(rows) : i - 1 \in T => i \in T
      BY <1>2
  <2>3. \A i \in 0 .. Len(rows) : i \in T
      BY <1>1, <2>1, <2>2, UpTo
  <2> QED BY <2>1, <2>3
<1> QED
    BY <1>3, TotalIsSum

-------------------------------------------------------------------------------
(* A batch of alerts *)

Scores == {Absent} \cup 0 .. MaxScore

Rows == [score : [Entities -> Scores], updated : [Entities -> Nat],
         ledger : Seq(LedgerRow), news : SUBSET Entities]

(* A new entity begins with no points. *)
Norm(s) == IF s = Absent THEN 0 ELSE s

(* What a batch has made of the scores it read first is what its rows of    *)
(* the ledger say, and it writes nothing else.                               *)
Follows(rows, first) ==
    /\ rows \in Rows
    /\ \A e \in Entities : Norm(rows.score[e]) = Total(e, Norm(first[e]), rows.ledger)
    /\ \A e \in Entities : IF e \in Writes(rows) THEN rows.score[e] # Absent
                                                 ELSE rows.score[e] = first[e]

(* An alert that has something to add. *)
Weighs(a) == EntityOf[a] # NoEntity /\ Severity[a] # 0

(* A score stays in range.                                                  *)
LEMMA ClampInRange == \A n \in Int : Clamp(n) \in 0 .. MaxScore /\ Clamp(n) # Absent
BY EntityAssumption DEF Clamp, Absent

(* The last of some positions is one of them.                               *)
LEMMA LastPosition ==
    ASSUME NEW n \in Nat, NEW S \in SUBSET (1 .. n), S # {}
    PROVE  Max(S) \in S
<1> DEFINE T == {k \in 0 .. n : \E x \in S : (\A y \in S : x >= y) \/ x > k}
<1>1. 0 \in T
  <2>1. PICK x \in S : TRUE
      OBVIOUS
  <2>2. x > 0
      BY <2>1
  <2> QED BY <2>2
<1>2. ASSUME NEW k \in 1 .. n, k - 1 \in T PROVE k \in T
  <2>1. PICK x \in S : (\A y \in S : x >= y) \/ x > k - 1
      BY <1>2
  <2>2. CASE x > k
      BY <2>2
  <2>3. CASE x <= k /\ ~(\A y \in S : x >= y)
    <3>1. PICK y \in S : ~(x >= y)
        BY <2>3
    <3>2. x \in Int /\ y \in Int /\ x > k - 1
        BY <2>1, <2>3
    <3>3. y > k
        BY <3>1, <3>2
    <3> QED BY <3>3
  <2>4. x \in Int
      OBVIOUS
  <2> QED BY <2>1, <2>2, <2>3, <2>4
<1>3. n \in T
  <2> HIDE DEF T
  <2>1. \A k \in 1 .. n : k - 1 \in T => k \in T
      BY <1>2
  <2>2. \A k \in 0 .. n : k \in T
      BY <1>1, <2>1, UpTo
  <2> QED BY <2>2
<1>4. \E x \in S : \A y \in S : x >= y
    BY <1>3
<1> QED
    BY <1>4, Zenon DEF Max

(* The decay is a number, whatever the age.                                 *)
LEMMA DecayIsInt == \A age : DecayOf(age) \in Int
<1> SUFFICES ASSUME NEW age PROVE DecayOf(age) \in Int
    OBVIOUS
<1> DEFINE reached == {i \in DOMAIN DecaySteps : age >= DecaySteps[i][1]}
<1>1. CASE reached = {}
    BY <1>1 DEF DecayOf
<1>2. CASE reached # {}
  <2>1. DecaySteps \in Seq(Nat \X Int)
      BY EntityAssumption
  <2>2. Len(DecaySteps) \in Nat /\ reached \in SUBSET (1 .. Len(DecaySteps))
      BY <2>1
  <2>3. DecayOf(age) = DecaySteps[Max(reached)][2]
      BY <1>2 DEF DecayOf
  <2> HIDE DEF reached
  <2>4. Max(reached) \in 1 .. Len(DecaySteps)
      BY <1>2, <2>2, LastPosition
  <2>5. DecaySteps[Max(reached)] \in Nat \X Int
      BY <2>1, <2>4
  <2> QED BY <2>3, <2>5
<1> QED
    BY <1>1, <1>2

(* What an appended row adds to the alerts that were scored.               *)
LEMMA AppendedIsScored ==
    ASSUME NEW rows \in Seq(LedgerRow), NEW entry \in LedgerRow
    PROVE  /\ Scored(rows) \subseteq Scored(Append(rows, entry))
           /\ entry[3] # 0 => entry[3] \in Scored(Append(rows, entry))
<1> DEFINE all == Append(rows, entry)
<1>1. /\ DOMAIN all = 1 .. Len(rows) + 1 /\ DOMAIN rows = 1 .. Len(rows) /\ Len(rows) \in Nat
      /\ \A i \in DOMAIN rows : all[i] = rows[i]
      /\ all[Len(rows) + 1] = entry
    OBVIOUS
<1> HIDE DEF all
<1>2. Scored(rows) \subseteq Scored(all)
    BY <1>1 DEF Scored
<1>3. entry[3] # 0 => entry[3] \in Scored(all)
    BY <1>1 DEF Scored
<1> QED
    BY <1>2, <1>3 DEF all

(* One change of a score, and its row.                                      *)
LEMMA BumpFollows ==
    ASSUME NEW first \in [Entities -> Scores], NEW rows, Follows(rows, first),
           NEW e \in Entities, rows.score[e] # Absent, NEW delta \in Int,
           NEW reason \in AlertIds \cup {0}, NEW when \in Nat
    PROVE  /\ Follows(Bump(rows, e, delta, reason, when), first)
           /\ Bump(rows, e, delta, reason, when).score[e] # Absent
           /\ Scored(rows.ledger) \subseteq Scored(Bump(rows, e, delta, reason, when).ledger)
           /\ delta # 0 /\ reason # 0
                => reason \in Scored(Bump(rows, e, delta, reason, when).ledger)
<1>1. CASE delta = 0
    BY <1>1 DEF Bump
<1>2. CASE delta # 0
  <2> DEFINE entry == <<e, delta, reason>>
             after == Bump(rows, e, delta, reason, when)
  <2>1. /\ rows \in Rows /\ rows.score \in [Entities -> Scores] /\ rows.updated \in [Entities -> Nat]
        /\ rows.ledger \in Seq(LedgerRow) /\ rows.news \in SUBSET Entities
        /\ entry \in LedgerRow /\ entry[1] = e /\ entry[2] = delta /\ entry[3] = reason
        /\ rows.score[e] \in 0 .. MaxScore
      BY DEF Follows, Rows, LedgerRow, Scores
  <2>2. /\ after = [rows EXCEPT !.score[e] = Clamp(rows.score[e] + delta), !.updated[e] = when,
                                !.ledger = Append(rows.ledger, entry)]
        /\ Clamp(rows.score[e] + delta) \in 0 .. MaxScore
        /\ Clamp(rows.score[e] + delta) # Absent
      BY <1>2, <2>1, ClampInRange DEF Bump
  <2>3. /\ after.score = [rows.score EXCEPT ![e] = Clamp(rows.score[e] + delta)]
        /\ after.updated = [rows.updated EXCEPT ![e] = when]
        /\ after.ledger = Append(rows.ledger, entry) /\ after.news = rows.news
        /\ after = [score |-> after.score, updated |-> after.updated,
                    ledger |-> after.ledger, news |-> after.news]
      BY <2>1, <2>2 DEF Rows
  <2> HIDE DEF after, entry
  <2>4. after \in Rows
    <3>1. after.score \in [Entities -> Scores] /\ after.updated \in [Entities -> Nat]
        BY <2>1, <2>2, <2>3 DEF Scores
    <3>2. after.ledger \in Seq(LedgerRow) /\ after.news \in SUBSET Entities
        BY <2>1, <2>3
    <3> QED BY <2>3, <3>1, <3>2 DEF Rows
  <2>5. ASSUME NEW d \in Entities
        PROVE  Norm(after.score[d]) = Total(d, Norm(first[d]), after.ledger)
    <3>1. Norm(rows.score[d]) = Total(d, Norm(first[d]), rows.ledger)
        BY DEF Follows
    <3>2. Total(d, Norm(first[d]), after.ledger) =
            IF entry[1] = d THEN Clamp(Total(d, Norm(first[d]), rows.ledger) + entry[2])
                          ELSE Total(d, Norm(first[d]), rows.ledger)
        BY <2>1, <2>3, TotalAppend
    <3>3. CASE d = e
      <4>1. Norm(rows.score[e]) = rows.score[e]
          BY <2>1 DEF Norm
      <4>2. after.score[e] = Clamp(rows.score[e] + delta)
          BY <2>1, <2>3
      <4>3. Norm(after.score[e]) = after.score[e]
          BY <2>2, <4>2 DEF Norm
      <4> QED BY <2>1, <3>1, <3>2, <3>3, <4>1, <4>2, <4>3
    <3>4. CASE d # e
        BY <2>1, <2>3, <3>1, <3>2, <3>4
    <3> QED BY <3>3, <3>4
  <2>6. ASSUME NEW d \in Entities
        PROVE  IF d \in Writes(after) THEN after.score[d] # Absent ELSE after.score[d] = first[d]
    <3>1. /\ DOMAIN after.ledger = 1 .. Len(rows.ledger) + 1 /\ Len(rows.ledger) \in Nat
          /\ DOMAIN rows.ledger = 1 .. Len(rows.ledger)
          /\ \A i \in DOMAIN rows.ledger : after.ledger[i] = rows.ledger[i]
          /\ after.ledger[Len(rows.ledger) + 1] = entry
        BY <2>1, <2>3
    <3>2. Writes(after) = Writes(rows) \cup {e}
      <4>1. ASSUME NEW x \in Writes(after) PROVE x \in Writes(rows) \cup {e}
          BY <2>1, <2>3, <3>1, <4>1 DEF Writes
      <4>2. Writes(rows) \subseteq Writes(after)
          BY <2>3, <3>1 DEF Writes
      <4>3. e \in Writes(after)
        <5>1. Len(rows.ledger) + 1 \in DOMAIN after.ledger /\ after.ledger[Len(rows.ledger) + 1][1] = e
            BY <2>1, <3>1
        <5> QED BY <5>1 DEF Writes
      <4> QED BY <4>1, <4>2, <4>3
    <3>3. IF d \in Writes(rows) THEN rows.score[d] # Absent ELSE rows.score[d] = first[d]
        BY DEF Follows
    <3> QED BY <2>1, <2>2, <2>3, <3>2, <3>3
  <2>7. after.score[e] # Absent
      BY <2>1, <2>2, <2>3
  <2>8. Scored(rows.ledger) \subseteq Scored(after.ledger) /\ (reason # 0 => reason \in Scored(after.ledger))
      BY <2>1, <2>3, AppendedIsScored
  <2>9. Follows(after, first)
      BY <2>4, <2>5, <2>6 DEF Follows
  <2> QED
      BY <2>7, <2>8, <2>9 DEF after
<1> QED
    BY <1>1, <1>2

(* The row of an entity that had none.                                      *)
LEMMA TouchFollows ==
    ASSUME NEW first \in [Entities -> Scores], NEW rows, Follows(rows, first),
           NEW e \in Entities, NEW a \in AlertIds
    PROVE  /\ Follows(Touch(rows, e, a), first)
           /\ Touch(rows, e, a).score[e] # Absent
           /\ Touch(rows, e, a).ledger = rows.ledger
<1>1. CASE rows.score[e] # Absent
    BY <1>1 DEF Touch
<1>2. CASE rows.score[e] = Absent
  <2> DEFINE after == Touch(rows, e, a)
  <2>1. /\ rows \in Rows /\ rows.score \in [Entities -> Scores] /\ rows.updated \in [Entities -> Nat]
        /\ rows.ledger \in Seq(LedgerRow) /\ rows.news \in SUBSET Entities
        /\ TriggeredAt[a] \in Nat
      BY EntityAssumption DEF Follows, Rows
  <2>2. after = [rows EXCEPT !.score[e] = 0, !.updated[e] = TriggeredAt[a],
                             !.news = rows.news \cup {e}]
      BY <1>2 DEF Touch
  <2>3. /\ after.score = [rows.score EXCEPT ![e] = 0]
        /\ after.updated = [rows.updated EXCEPT ![e] = TriggeredAt[a]]
        /\ after.ledger = rows.ledger /\ after.news = rows.news \cup {e}
        /\ after = [score |-> after.score, updated |-> after.updated,
                    ledger |-> after.ledger, news |-> after.news]
      BY <2>1, <2>2 DEF Rows
  <2> HIDE DEF after
  <2>4. after \in Rows
    <3>1. 0 \in Scores
        BY EntityAssumption DEF Scores
    <3>2. after.score \in [Entities -> Scores] /\ after.updated \in [Entities -> Nat]
        BY <2>1, <2>3, <3>1
    <3>3. after.ledger \in Seq(LedgerRow) /\ after.news \in SUBSET Entities
        BY <2>1, <2>3
    <3> QED BY <2>3, <3>2, <3>3 DEF Rows
  <2>5. ASSUME NEW d \in Entities
        PROVE  /\ Norm(after.score[d]) = Norm(rows.score[d])
               /\ d # e => after.score[d] = rows.score[d]
      BY <1>2, <2>1, <2>3 DEF Norm, Absent
  <2>6. Writes(after) = Writes(rows) \cup {e}
      BY <2>3 DEF Writes
  <2>7. after.score[e] = 0 /\ 0 # Absent
      BY <2>1, <2>3 DEF Absent
  <2>8. Follows(after, first)
      BY <2>3, <2>4, <2>5, <2>6, <2>7 DEF Follows
  <2> QED
      BY <2>3, <2>7, <2>8 DEF after
<1> QED
    BY <1>1, <1>2

(* The body of the loop: decay, severity, and the rows of both.             *)
LEMMA AlertFollows ==
    ASSUME NEW first \in [Entities -> Scores], NEW rows, Follows(rows, first),
           NEW a \in AlertIds, NEW when \in Nat
    PROVE  /\ Follows(ScoreAlert(rows, a, when), first)
           /\ Scored(rows.ledger) \subseteq Scored(ScoreAlert(rows, a, when).ledger)
           /\ Weighs(a) => a \in Scored(ScoreAlert(rows, a, when).ledger)
<1>1. CASE EntityOf[a] = NoEntity
    BY <1>1 DEF ScoreAlert, Weighs
<1>2. CASE EntityOf[a] # NoEntity
  <2> DEFINE e == EntityOf[a]
             seen == Touch(rows, e, a)
             delta == DecayOf(when - seen.updated[e])
             decayed == Bump(seen, e, delta, 0, when)
  <2>1. e \in Entities /\ Severity[a] \in Int /\ a \in AlertIds \cup {0} /\ a # 0
      BY <1>2, EntityAssumption DEF AlertIds
  <2>2. ScoreAlert(rows, a, when) = Bump(decayed, e, Severity[a], a, when)
      BY <1>2 DEF ScoreAlert
  <2> HIDE DEF e
  <2>3. Follows(seen, first) /\ seen.score[e] # Absent /\ seen.ledger = rows.ledger
      BY <2>1, TouchFollows
  <2>4. delta \in Int
      BY DecayIsInt
  <2> HIDE DEF seen, delta
  <2>5. /\ Follows(decayed, first) /\ decayed.score[e] # Absent
        /\ Scored(seen.ledger) \subseteq Scored(decayed.ledger)
    <3>1. \A d \in Int, none \in AlertIds \cup {0} :
            /\ Follows(Bump(seen, e, d, none, when), first)
            /\ Bump(seen, e, d, none, when).score[e] # Absent
            /\ Scored(seen.ledger) \subseteq Scored(Bump(seen, e, d, none, when).ledger)
      <4> SUFFICES ASSUME NEW d \in Int, NEW none \in AlertIds \cup {0}
                   PROVE  /\ Follows(Bump(seen, e, d, none, when), first)
                          /\ Bump(seen, e, d, none, when).score[e] # Absent
                          /\ Scored(seen.ledger) \subseteq Scored(Bump(seen, e, d, none, when).ledger)
          OBVIOUS
      <4>1. Follows(Bump(seen, e, d, none, when), first)
          BY <2>1, <2>3, BumpFollows
      <4>2. Bump(seen, e, d, none, when).score[e] # Absent
          BY <2>1, <2>3, BumpFollows
      <4>3. Scored(seen.ledger) \subseteq Scored(Bump(seen, e, d, none, when).ledger)
          BY <2>1, <2>3, BumpFollows
      <4> QED BY <4>1, <4>2, <4>3
    <3>2. 0 \in AlertIds \cup {0}
        OBVIOUS
    <3> QED BY <2>4, <3>1, <3>2
  <2> HIDE DEF decayed
  <2>6. /\ Follows(Bump(decayed, e, Severity[a], a, when), first)
        /\ Scored(decayed.ledger) \subseteq Scored(Bump(decayed, e, Severity[a], a, when).ledger)
        /\ Severity[a] # 0 /\ a # 0 => a \in Scored(Bump(decayed, e, Severity[a], a, when).ledger)
      BY <2>1, <2>5, BumpFollows
  <2> QED
      BY <2>1, <2>2, <2>3, <2>5, <2>6 DEF Weighs
<1> QED
    BY <1>1, <1>2

(* What the first alerts of a batch make of the rows.                       *)
After(rows, batch, when) ==
    CHOOSE after : after = [i \in 0 .. Len(batch) |->
                              IF i = 0 THEN rows ELSE ScoreAlert(after[i - 1], batch[i], when)]

(* There is such a loop: step n is made from step n - 1.                    *)
LEMMA AfterExists ==
    ASSUME NEW rows, NEW batch \in Seq(AlertIds), NEW when
    PROVE  /\ ScoreBatch(rows, batch, when) = After(rows, batch, when)[Len(batch)]
           /\ After(rows, batch, when)[0] = rows
           /\ \A i \in 1 .. Len(batch) :
                After(rows, batch, when)[i] = ScoreAlert(After(rows, batch, when)[i - 1], batch[i], when)
<1> DEFINE AfterTo(n, f) == f = [i \in 0 .. n |-> IF i = 0 THEN rows ELSE ScoreAlert(f[i - 1], batch[i], when)]
           T == {n \in Nat : \E f : AfterTo(n, f)}
<1>1. 0 \in T
  <2> DEFINE g == [i \in 0 .. 0 |-> rows]
  <2>1. AfterTo(0, g)
      OBVIOUS
  <2> QED BY <2>1
<1>2. ASSUME NEW n \in 1 .. Len(batch), n - 1 \in T PROVE n \in T
  <2>1. PICK f : AfterTo(n - 1, f)
      BY <1>2
  <2> DEFINE g == [i \in 0 .. n |-> IF i = n THEN ScoreAlert(f[n - 1], batch[n], when) ELSE f[i]]
  <2>2. ASSUME NEW i \in 0 .. n
        PROVE  g[i] = IF i = 0 THEN rows ELSE ScoreAlert(g[i - 1], batch[i], when)
    <3>1. \A k \in 0 .. n - 1 : f[k] = IF k = 0 THEN rows ELSE ScoreAlert(f[k - 1], batch[k], when)
        BY <2>1
    <3>2. \A k \in 0 .. n - 1 : g[k] = f[k]
        OBVIOUS
    <3>3. CASE i = n
        BY <3>2, <3>3
    <3>4. CASE i \in 1 .. n - 1
      <4>1. i - 1 \in 0 .. n - 1
          BY <3>4
      <4> QED BY <3>1, <3>2, <3>4, <4>1
    <3>5. CASE i = 0
        BY <3>1, <3>2, <3>5
    <3> QED BY <3>3, <3>4, <3>5
  <2>3. AfterTo(n, g)
      BY <2>2
  <2> HIDE DEF AfterTo, g
  <2> QED BY <2>3
<1>3. Len(batch) \in T
  <2> HIDE DEF T
  <2>1. Len(batch) \in Nat
      OBVIOUS
  <2>2. \A i \in 1 .. Len(batch) : i - 1 \in T => i \in T
      BY <1>2
  <2>3. \A i \in 0 .. Len(batch) : i \in T
      BY <1>1, <2>1, <2>2, UpTo
  <2> QED BY <2>1, <2>3
<1>4. PICK f : AfterTo(Len(batch), f)
    BY <1>3
<1> DEFINE after == After(rows, batch, when)
<1>5. after = [i \in 0 .. Len(batch) |-> IF i = 0 THEN rows ELSE ScoreAlert(after[i - 1], batch[i], when)]
  <2>1. \E s : s = [i \in 0 .. Len(batch) |-> IF i = 0 THEN rows ELSE ScoreAlert(s[i - 1], batch[i], when)]
      BY <1>4
  <2> QED BY <2>1, Zenon DEF After
<1>6. ScoreBatch(rows, batch, when) = after[Len(batch)]
    BY DEF ScoreBatch, After
<1> HIDE DEF after
<1>7. after[0] = rows
  <2>1. 0 \in 0 .. Len(batch)
      OBVIOUS
  <2> QED BY <1>5, <2>1
<1>8. ASSUME NEW i \in 1 .. Len(batch) PROVE after[i] = ScoreAlert(after[i - 1], batch[i], when)
  <2>1. i \in 0 .. Len(batch) /\ i # 0
      OBVIOUS
  <2> QED BY <1>5, <2>1
<1> QED
    BY <1>6, <1>7, <1>8 DEF after

(* A batch leaves scores that follow from its rows, and no weighty alert    *)
(* without one.                                                              *)
LEMMA BatchFollows ==
    ASSUME NEW rows, NEW batch \in Seq(AlertIds), NEW when \in Nat,
           rows \in Rows, rows.ledger = <<>>, rows.news = {}
    PROVE  /\ Follows(ScoreBatch(rows, batch, when), rows.score)
           /\ \A a \in Range(batch) : Weighs(a) => a \in Scored(ScoreBatch(rows, batch, when).ledger)
<1>a. /\ ScoreBatch(rows, batch, when) = After(rows, batch, when)[Len(batch)]
      /\ After(rows, batch, when)[0] = rows
      /\ \A i \in 1 .. Len(batch) :
           After(rows, batch, when)[i] = ScoreAlert(After(rows, batch, when)[i - 1], batch[i], when)
    BY AfterExists
<1> DEFINE after == After(rows, batch, when)
           T == {i \in 0 .. Len(batch) :
                   /\ Follows(after[i], rows.score)
                   /\ \A k \in 1 .. i : Weighs(batch[k]) => batch[k] \in Scored(after[i].ledger)}
<1>0. /\ ScoreBatch(rows, batch, when) = after[Len(batch)] /\ after[0] = rows
      /\ \A i \in 1 .. Len(batch) : after[i] = ScoreAlert(after[i - 1], batch[i], when)
    BY <1>a
<1>00. rows.score \in [Entities -> Scores] /\ Len(batch) \in Nat
    BY DEF Rows
<1> HIDE DEF after
<1>1. 0 \in T
  <2>1. Writes(rows) = {}
      BY DEF Writes
  <2>2. \A e \in Entities : Norm(rows.score[e]) = Total(e, Norm(rows.score[e]), rows.ledger)
      BY TotalEmpty
  <2>3. Follows(rows, rows.score)
      BY <2>1, <2>2 DEF Follows
  <2> QED BY <1>0, <2>3
<1>2. ASSUME NEW i \in 1 .. Len(batch), i - 1 \in T PROVE i \in T
  <2>1. /\ Follows(after[i - 1], rows.score) /\ batch[i] \in AlertIds
        /\ after[i] = ScoreAlert(after[i - 1], batch[i], when)
        /\ \A k \in 1 .. i - 1 : Weighs(batch[k]) => batch[k] \in Scored(after[i - 1].ledger)
      BY <1>0, <1>2
  <2>2. /\ Follows(after[i], rows.score)
        /\ Scored(after[i - 1].ledger) \subseteq Scored(after[i].ledger)
        /\ Weighs(batch[i]) => batch[i] \in Scored(after[i].ledger)
      BY <1>00, <2>1, AlertFollows
  <2>3. ASSUME NEW k \in 1 .. i, Weighs(batch[k]) PROVE batch[k] \in Scored(after[i].ledger)
    <3>1. k = i \/ k \in 1 .. i - 1
        OBVIOUS
    <3> QED BY <2>1, <2>2, <2>3, <3>1
  <2> QED BY <2>2, <2>3
<1>3. Len(batch) \in T
  <2> HIDE DEF T
  <2>2. \A i \in 1 .. Len(batch) : i - 1 \in T => i \in T
      BY <1>2
  <2>3. \A i \in 0 .. Len(batch) : i \in T
      BY <1>00, <1>1, <2>2, UpTo
  <2> QED BY <1>00, <2>3
<1>4. \A a \in Range(batch) : \E k \in 1 .. Len(batch) : a = batch[k]
    BY DEF Range
<1> QED
    BY <1>0, <1>3, <1>4

-------------------------------------------------------------------------------
(* The invariant of the job *)

Modes == {"realtime", "backfill"}

RunsGoing == [phase : {"run"}, mode : Modes, last : 0 .. AlertCount, now : 0 .. MaxTime]

BatchesRead ==
    {x \in [phase : {"batch"}, mode : Modes, now : 0 .. MaxTime, batch : Seq(AlertIds), read : Rows] :
        x.batch # <<>> /\ x.read.ledger = <<>> /\ x.read.news = {}}

JobStates == {Idle} \cup RunsGoing \cup BatchesRead

EntityShape ==
    /\ alert \in [AlertIds -> {"free", "open", "there", "gone"}]
    /\ score \in [Entities -> Scores]
    /\ updated \in [Entities -> Nat]
    /\ ledger \in Seq(LedgerRow)
    /\ checkpoint \in 0 .. AlertCount
    /\ job \in [Jobs -> JobStates]
    /\ clock \in 0 .. MaxTime

(* The alerts a row of the ledger is still owed for.                        *)
Owed == {a \in ScoresSaved \ Scored(ledger) : Weighs(a)}

Passed(n) == \A a \in Owed : a <= n => a \in late \cup jumped

(* What a run has behind it, or is about to score.                          *)
RunPassed(j) ==
    /\ job[j].phase = "run" => Passed(job[j].last)
    /\ job[j].phase = "batch" =>
         \A a \in Owed : a <= Last(job[j].batch) => a \in Range(job[j].batch) \cup late \cup jumped

NothingIsPassed == Passed(checkpoint) /\ \A j \in Jobs : RunPassed(j)

ScoresAddUp == \A e \in Entities \ stale : Norm(score[e]) = LedgerScore(e)

EntityInv == EntityShape /\ NothingIsPassed /\ ScoresAddUp

(* A process is idle, has a run under way, or has read a batch.             *)
LEMMA JobCases ==
    ASSUME EntityShape, NEW j \in Jobs
    PROVE  /\ job[j] = Idle \/ job[j] \in RunsGoing \/ job[j] \in BatchesRead
           /\ job[j].phase = "idle" => job[j] = Idle
           /\ job[j].phase = "run" => job[j] \in RunsGoing
           /\ job[j].phase = "batch" => job[j] \in BatchesRead
           /\ job[j].phase \in {"idle", "run", "batch"}
<1>1. job[j] = Idle \/ job[j] \in RunsGoing \/ job[j] \in BatchesRead
    BY DEF EntityShape, JobStates
<1> QED
    BY <1>1 DEF Idle, RunsGoing, BatchesRead

LEMMA EntityInitOK == EntityInit => EntityInv
<1> SUFFICES ASSUME EntityInit PROVE EntityInv
    OBVIOUS
<1>1. EntityShape
    BY EntityAssumption DEF EntityInit, EntityShape, Scores, JobStates
<1>2. ScoresSaved = {}
    BY DEF EntityInit, ScoresSaved
<1>3. NothingIsPassed
    BY <1>2 DEF EntityInit, NothingIsPassed, Passed, RunPassed, Owed, Idle
<1>4. ScoresAddUp
  <2> SUFFICES ASSUME NEW e \in Entities PROVE Norm(score[e]) = LedgerScore(e)
      BY DEF ScoresAddUp
  <2>1. Norm(score[e]) = 0
      BY DEF EntityInit, Norm
  <2>2. LedgerScore(e) = 0
      BY TotalEmpty DEF EntityInit, LedgerScore
  <2> QED BY <2>1, <2>2
<1> QED
    BY <1>1, <1>3, <1>4 DEF EntityInv

(* What the commit of a batch writes.                                       *)
LEMMA CommitWrites ==
    ASSUME EntityShape, NEW j \in Jobs, job[j] \in BatchesRead,
           NEW rows, rows = ScoreBatch(job[j].read, job[j].batch, job[j].now)
    PROVE  /\ Follows(rows, job[j].read.score)
           /\ rows.ledger \in Seq(LedgerRow)
           /\ \A a \in Range(job[j].batch) : Weighs(a) => a \in Scored(rows.ledger)
           /\ Last(job[j].batch) \in AlertIds
<1>1. /\ job[j].read \in Rows /\ job[j].batch \in Seq(AlertIds) /\ job[j].now \in Nat
      /\ job[j].read.ledger = <<>> /\ job[j].read.news = {} /\ job[j].batch # <<>>
    BY EntityAssumption DEF BatchesRead
<1> DEFINE read == job[j].read
           batch == job[j].batch
           when == job[j].now
<1> HIDE DEF read, batch, when
<1>2. /\ read \in Rows /\ batch \in Seq(AlertIds) /\ when \in Nat
      /\ read.ledger = <<>> /\ read.news = {} /\ batch # <<>>
      /\ rows = ScoreBatch(read, batch, when)
    BY <1>1 DEF read, batch, when
<1>3. /\ Follows(ScoreBatch(read, batch, when), read.score)
      /\ \A a \in Range(batch) : Weighs(a) => a \in Scored(ScoreBatch(read, batch, when).ledger)
    BY <1>2, BatchFollows
<1>4. rows.ledger \in Seq(LedgerRow)
    BY <1>2, <1>3 DEF Follows, Rows
<1>5. Last(batch) \in AlertIds
    BY <1>2 DEF Last
<1> QED
    BY <1>2, <1>3, <1>4, <1>5 DEF read, batch

LEMMA EntityShapeStep == EntityShape /\ [EntityNext]_EntityVars => EntityShape'
<1> SUFFICES ASSUME EntityShape, [EntityNext]_EntityVars PROVE EntityShape'
    OBVIOUS
<1> USE DEF EntityShape, entityRows
<1>1. ASSUME NEW a \in AlertIds, TakeAlertId(a) PROVE EntityShape'
    BY <1>1 DEF TakeAlertId
<1>2. ASSUME NEW a \in AlertIds, CommitAlert(a) PROVE EntityShape'
    BY <1>2 DEF CommitAlert
<1>3. ASSUME NEW a \in AlertIds, RollbackAlert(a) PROVE EntityShape'
    BY <1>3 DEF RollbackAlert
<1>4. CASE EntityTick
    BY <1>4, EntityAssumption DEF EntityTick
<1>5. ASSUME NEW j \in Jobs, StartRealtime(j) PROVE EntityShape'
  <2>1. [phase |-> "run", mode |-> "realtime", last |-> checkpoint, now |-> clock] \in JobStates
      BY DEF JobStates, RunsGoing, Modes
  <2> QED BY <1>5, <2>1 DEF StartRealtime
<1>6. ASSUME NEW j \in Jobs, NEW from \in 0 .. AlertCount, StartBackfill(j, from) PROVE EntityShape'
  <2>1. [phase |-> "run", mode |-> "backfill", last |-> from, now |-> clock] \in JobStates
      BY DEF JobStates, RunsGoing, Modes
  <2> QED BY <1>6, <2>1 DEF StartBackfill
<1>7. ASSUME NEW j \in Jobs, ReadBatch(j) PROVE EntityShape'
  <2>1. PICK batch \in NextBatches(j) :
          job' = [job EXCEPT ![j] = [phase |-> "batch", mode |-> job[j].mode, now |-> job[j].now,
                                     batch |-> batch,
                                     read |-> [score |-> score, updated |-> updated,
                                               ledger |-> <<>>, news |-> {}]]]
      BY <1>7 DEF ReadBatch
  <2>2. job[j] \in RunsGoing
      BY <1>7, JobCases DEF ReadBatch
  <2>3. batch \in Seq(AlertIds) /\ batch # <<>>
    <3>1. PICK n \in 1 .. BatchSize : batch \in [1 .. n -> {a \in ScoresSaved : a > job[j].last}]
        BY DEF NextBatches
    <3>2. n \in Nat /\ n > 0 /\ batch \in [1 .. n -> AlertIds]
        BY <3>1, EntityAssumption DEF ScoresSaved
    <3>3. batch \in Seq(AlertIds) /\ Len(batch) = n
        BY <3>2
    <3> QED BY <3>2, <3>3
  <2> DEFINE read == [score |-> score, updated |-> updated, ledger |-> <<>>, news |-> {}]
  <2>4. read \in Rows /\ read.ledger = <<>> /\ read.news = {}
      BY DEF Rows
  <2> HIDE DEF read
  <2> DEFINE x == [phase |-> "batch", mode |-> job[j].mode, now |-> job[j].now,
                   batch |-> batch, read |-> read]
  <2>5. x \in BatchesRead
      BY <2>2, <2>3, <2>4 DEF BatchesRead, RunsGoing
  <2>6. job' = [job EXCEPT ![j] = x]
      BY <2>1 DEF read
  <2> HIDE DEF x
  <2> QED BY <1>7, <2>5, <2>6 DEF ReadBatch, JobStates
<1>8. ASSUME NEW j \in Jobs, CommitBatch(j) PROVE EntityShape'
  <2>1. job[j] \in BatchesRead
      BY <1>8, JobCases DEF CommitBatch
  <2> DEFINE rows == ScoreBatch(job[j].read, job[j].batch, job[j].now)
  <2>2. /\ score' = [e \in Entities |-> IF e \in Writes(rows) THEN rows.score[e] ELSE score[e]]
        /\ updated' = [e \in Entities |-> IF e \in Writes(rows) THEN rows.updated[e] ELSE updated[e]]
        /\ ledger' = ledger \o rows.ledger
        /\ checkpoint' = Last(job[j].batch)
        /\ job' = [job EXCEPT ![j] = [phase |-> "run", mode |-> job[j].mode, now |-> job[j].now,
                                      last |-> Last(job[j].batch)]]
        /\ alert' = alert /\ clock' = clock
      BY <1>8 DEF CommitBatch
  <2>3. Follows(rows, job[j].read.score) /\ Last(job[j].batch) \in AlertIds
      BY <2>1, CommitWrites
  <2> HIDE DEF rows
  <2>4. /\ rows.score \in [Entities -> Scores] /\ rows.updated \in [Entities -> Nat]
        /\ rows.ledger \in Seq(LedgerRow)
      BY <2>3 DEF Follows, Rows
  <2>5. score' \in [Entities -> Scores] /\ updated' \in [Entities -> Nat] /\ ledger' \in Seq(LedgerRow)
      BY <2>2, <2>4
  <2> DEFINE x == [phase |-> "run", mode |-> job[j].mode, now |-> job[j].now,
                   last |-> Last(job[j].batch)]
  <2>6. x \in RunsGoing /\ checkpoint' \in 0 .. AlertCount
      BY <2>1, <2>2, <2>3, EntityAssumption DEF RunsGoing, BatchesRead, AlertIds
  <2> HIDE DEF x
  <2>7. job' \in [Jobs -> JobStates]
      BY <2>2, <2>6 DEF JobStates, x
  <2> QED BY <2>2, <2>5, <2>6, <2>7
<1>9. ASSUME NEW j \in Jobs, AbortRun(j) PROVE EntityShape'
    BY <1>9 DEF AbortRun, JobStates
<1>10. ASSUME NEW j \in Jobs, EndRun(j) PROVE EntityShape'
  <2>1. job[j].last \in 0 .. AlertCount
      BY <1>10, JobCases DEF EndRun, RunsGoing
  <2> QED BY <1>10, <2>1 DEF EndRun, JobStates
<1>11. CASE UNCHANGED EntityVars
    BY <1>11 DEF EntityVars
<1> QED
    BY <1>1, <1>2, <1>3, <1>4, <1>5, <1>6, <1>7, <1>8, <1>9, <1>10, <1>11 DEF EntityNext

(* What a ledger says of an alert, the longer one says too.                 *)
LEMMA ScoredOfBoth ==
    ASSUME NEW a \in Seq(LedgerRow), NEW b \in Seq(LedgerRow)
    PROVE  Scored(a) \cup Scored(b) \subseteq Scored(a \o b)
<1> DEFINE all == a \o b
<1>1. /\ DOMAIN all = 1 .. Len(a) + Len(b) /\ Len(a) \in Nat /\ Len(b) \in Nat
      /\ DOMAIN a = 1 .. Len(a) /\ DOMAIN b = 1 .. Len(b)
      /\ \A i \in DOMAIN a : all[i] = a[i]
      /\ \A i \in DOMAIN b : all[Len(a) + i] = b[i]
    OBVIOUS
<1> HIDE DEF all
<1>2. Scored(a) \subseteq Scored(all)
    BY <1>1 DEF Scored
<1>3. ASSUME NEW x \in Scored(b) PROVE x \in Scored(all)
  <2>1. PICK i \in DOMAIN b : b[i][3] = x
      BY DEF Scored
  <2>2. Len(a) + i \in DOMAIN all /\ all[Len(a) + i] = b[i]
      BY <1>1
  <2>3. x # 0
      BY DEF Scored
  <2> QED BY <2>1, <2>2, <2>3 DEF Scored
<1> QED
    BY <1>2, <1>3 DEF all

(* Steps that neither add alerts nor let runs pass any.                     *)
LEMMA OwedStay ==
    ASSUME ScoresSaved' = ScoresSaved, ledger' = ledger,
           late \subseteq late', jumped \subseteq jumped'
    PROVE  /\ Owed' = Owed
           /\ \A n : Passed(n) => Passed(n)'
           /\ \A j \in Jobs : RunPassed(j) /\ job'[j] = job[j] => RunPassed(j)'
<1>1. Owed' = Owed
    BY DEF Owed
<1>2. \A n : Passed(n) => Passed(n)'
    BY <1>1 DEF Passed
<1>3. ASSUME NEW j \in Jobs, RunPassed(j), job'[j] = job[j] PROVE RunPassed(j)'
    BY <1>1, <1>2, <1>3 DEF RunPassed
<1> QED
    BY <1>1, <1>2, <1>3

LEMMA NothingIsPassedStep ==
    EntityShape /\ NothingIsPassed /\ [EntityNext]_EntityVars => NothingIsPassed'
<1> SUFFICES ASSUME EntityShape, NothingIsPassed, [EntityNext]_EntityVars PROVE NothingIsPassed'
    OBVIOUS
<1>0. Passed(checkpoint) /\ (\A j \in Jobs : RunPassed(j)) /\ job \in [Jobs -> JobStates]
    BY DEF NothingIsPassed, EntityShape
<1>1. ASSUME NEW a \in AlertIds, TakeAlertId(a) PROVE NothingIsPassed'
  <2>1. ScoresSaved' = ScoresSaved
      BY <1>1 DEF TakeAlertId, ScoresSaved, EntityShape
  <2>2. ledger' = ledger /\ late' = late /\ jumped' = jumped /\ checkpoint' = checkpoint /\ job' = job
      BY <1>1 DEF TakeAlertId, entityRows
  <2> QED BY <1>0, <2>1, <2>2, OwedStay DEF NothingIsPassed
<1>2. ASSUME NEW a \in AlertIds, CommitAlert(a) PROVE NothingIsPassed'
  <2>1. ScoresSaved' = ScoresSaved \cup {a}
      BY <1>2 DEF CommitAlert, ScoresSaved, EntityShape
  <2>2. /\ ledger' = ledger /\ jumped' = jumped /\ checkpoint' = checkpoint /\ job' = job
        /\ late \subseteq late'
        /\ (checkpoint >= a \/ \E j \in Jobs : Reach(j) >= a) => a \in late'
      BY <1>2 DEF CommitAlert, entityRows
  <2>3. Owed' \subseteq Owed \cup {a}
      BY <2>1, <2>2 DEF Owed
  <2>4. Passed(checkpoint)'
    <3> SUFFICES ASSUME NEW b \in Owed', b <= checkpoint PROVE b \in late' \cup jumped'
        BY <2>2 DEF Passed
    <3>1. CASE b = a
        BY <2>2, <3>1 DEF EntityShape, AlertIds
    <3>2. CASE b \in Owed
        BY <1>0, <2>2, <3>2 DEF Passed
    <3> QED BY <2>3, <3>1, <3>2
  <2>5. ASSUME NEW j \in Jobs PROVE RunPassed(j)'
    <3>0. RunPassed(j)
        BY <1>0
    <3>1. ASSUME job[j].phase = "run", NEW b \in Owed', b <= job[j].last
          PROVE  b \in late' \cup jumped'
      <4>1. CASE b = a
        <5>1. Reach(j) >= a
          <6>1. Reach(j) = job[j].last /\ job[j].last \in Int
              BY <3>1, JobCases DEF Reach, RunsGoing
          <6> QED BY <3>1, <4>1, <6>1 DEF AlertIds
        <5> QED BY <2>2, <4>1, <5>1
      <4>2. CASE b \in Owed
          BY <2>2, <3>0, <3>1, <4>2 DEF RunPassed, Passed
      <4> QED BY <2>3, <4>1, <4>2
    <3>2. ASSUME job[j].phase = "batch", NEW b \in Owed', b <= Last(job[j].batch)
          PROVE  b \in Range(job[j].batch) \cup late' \cup jumped'
      <4>1. CASE b = a
        <5>1. Reach(j) >= a
          <6>1. Reach(j) = Last(job[j].batch) /\ Last(job[j].batch) \in Int
              BY <3>2, JobCases, CommitWrites DEF Reach, AlertIds
          <6> QED BY <3>2, <4>1, <6>1 DEF AlertIds
        <5> QED BY <2>2, <4>1, <5>1
      <4>2. CASE b \in Owed
          BY <2>2, <3>0, <3>2, <4>2 DEF RunPassed
      <4> QED BY <2>3, <4>1, <4>2
    <3> QED BY <2>2, <3>1, <3>2 DEF RunPassed, Passed
  <2> QED BY <2>4, <2>5 DEF NothingIsPassed
<1>3. ASSUME NEW a \in AlertIds, RollbackAlert(a) PROVE NothingIsPassed'
  <2>1. ScoresSaved' = ScoresSaved
      BY <1>3 DEF RollbackAlert, ScoresSaved, EntityShape
  <2>2. ledger' = ledger /\ late' = late /\ jumped' = jumped /\ checkpoint' = checkpoint /\ job' = job
      BY <1>3 DEF RollbackAlert, entityRows
  <2> QED BY <1>0, <2>1, <2>2, OwedStay DEF NothingIsPassed
<1>4. CASE EntityTick \/ UNCHANGED EntityVars
  <2>1. /\ ledger' = ledger /\ late' = late /\ jumped' = jumped
        /\ checkpoint' = checkpoint /\ job' = job /\ alert' = alert
      BY <1>4 DEF EntityTick, EntityVars, entityRows
  <2>2. ScoresSaved' = ScoresSaved
      BY <2>1 DEF ScoresSaved
  <2> QED BY <1>0, <2>1, <2>2, OwedStay DEF NothingIsPassed
<1>5. ASSUME NEW j \in Jobs, StartRealtime(j) PROVE NothingIsPassed'
  <2>1. /\ ledger' = ledger /\ late' = late /\ jumped' = jumped
        /\ checkpoint' = checkpoint /\ alert' = alert
        /\ job'[j].phase = "run" /\ job'[j].last = checkpoint
        /\ \A k \in Jobs : k # j => job'[k] = job[k]
      BY <1>0, <1>5 DEF StartRealtime, entityRows
  <2>2. ScoresSaved' = ScoresSaved
      BY <2>1 DEF ScoresSaved
  <2>3. Passed(checkpoint)' /\ \A k \in Jobs : k # j => RunPassed(k)'
      BY <1>0, <2>1, <2>2, OwedStay
  <2>4. RunPassed(j)'
      BY <2>1, <2>3 DEF RunPassed, Passed
  <2> QED BY <2>3, <2>4 DEF NothingIsPassed
<1>6. ASSUME NEW j \in Jobs, NEW from \in 0 .. AlertCount, StartBackfill(j, from) PROVE NothingIsPassed'
  <2>1. /\ ledger' = ledger /\ late' = late /\ jumped \subseteq jumped'
        /\ {a \in ScoresSaved \ Scored(ledger) : a <= from} \subseteq jumped'
        /\ checkpoint' = checkpoint /\ alert' = alert
        /\ job'[j].phase = "run" /\ job'[j].last = from
        /\ \A k \in Jobs : k # j => job'[k] = job[k]
      BY <1>0, <1>6 DEF StartBackfill, entityRows
  <2>2. ScoresSaved' = ScoresSaved
      BY <2>1 DEF ScoresSaved
  <2>3. Owed' = Owed /\ Passed(checkpoint)' /\ \A k \in Jobs : k # j => RunPassed(k)'
      BY <1>0, <2>1, <2>2, OwedStay
  <2>4. RunPassed(j)'
      BY <2>1, <2>3 DEF RunPassed, Passed, Owed
  <2> QED BY <2>3, <2>4 DEF NothingIsPassed
<1>7. ASSUME NEW j \in Jobs, ReadBatch(j) PROVE NothingIsPassed'
  <2>1. PICK batch \in NextBatches(j) :
          job' = [job EXCEPT ![j] = [phase |-> "batch", mode |-> job[j].mode, now |-> job[j].now,
                                     batch |-> batch,
                                     read |-> [score |-> score, updated |-> updated,
                                               ledger |-> <<>>, news |-> {}]]]
      BY <1>7 DEF ReadBatch
  <2>2. /\ ledger' = ledger /\ late' = late /\ jumped' = jumped
        /\ checkpoint' = checkpoint /\ alert' = alert /\ job[j].phase = "run"
        /\ job'[j].phase = "batch" /\ job'[j].batch = batch
        /\ \A k \in Jobs : k # j => job'[k] = job[k]
      BY <1>0, <1>7, <2>1 DEF ReadBatch, entityRows
  <2>3. ScoresSaved' = ScoresSaved
      BY <2>2 DEF ScoresSaved
  <2>4. Owed' = Owed /\ Passed(checkpoint)' /\ \A k \in Jobs : k # j => RunPassed(k)'
      BY <1>0, <2>2, <2>3, OwedStay
  <2>5. ASSUME NEW b \in Owed, b <= Last(batch) PROVE b \in Range(batch) \cup late \cup jumped
    <3>1. CASE b <= job[j].last
        BY <1>0, <2>2, <3>1 DEF RunPassed, Passed
    <3>2. CASE ~(b <= job[j].last)
      <4>1. job[j].last \in Int /\ b \in Int /\ b \in ScoresSaved
          BY <2>2, JobCases DEF RunsGoing, Owed, ScoresSaved, AlertIds
      <4>2. b \in {a \in ScoresSaved : a > job[j].last}
          BY <3>2, <4>1
      <4>3. b \in Range(batch) \/ b > Last(batch)
          BY <4>2 DEF NextBatches
      <4>4. Last(batch) \in Int
        <5>1. PICK n \in 1 .. BatchSize : batch \in [1 .. n -> {a \in ScoresSaved : a > job[j].last}]
            BY DEF NextBatches
        <5>2. n \in Nat /\ n > 0 /\ batch \in [1 .. n -> AlertIds]
            BY <5>1, EntityAssumption DEF ScoresSaved
        <5>3. batch \in Seq(AlertIds) /\ Len(batch) = n
            BY <5>2
        <5> QED BY <5>2, <5>3 DEF Last, AlertIds
      <4> QED BY <2>5, <4>1, <4>3, <4>4
    <3> QED BY <3>1, <3>2
  <2>6. RunPassed(j)'
      BY <2>2, <2>4, <2>5 DEF RunPassed
  <2> QED BY <2>4, <2>6 DEF NothingIsPassed
<1>8. ASSUME NEW j \in Jobs, CommitBatch(j) PROVE NothingIsPassed'
  <2>1. job[j] \in BatchesRead /\ job[j].phase = "batch"
      BY <1>8, JobCases DEF CommitBatch
  <2> DEFINE rows == ScoreBatch(job[j].read, job[j].batch, job[j].now)
  <2>2. /\ ledger' = ledger \o rows.ledger
        /\ checkpoint' = Last(job[j].batch)
        /\ job'[j].phase = "run" /\ job'[j].last = Last(job[j].batch)
        /\ \A k \in Jobs : k # j => job'[k] = job[k]
        /\ alert' = alert /\ late' = late /\ jumped' = jumped
      BY <1>0, <1>8 DEF CommitBatch
  <2>3. /\ rows.ledger \in Seq(LedgerRow)
        /\ \A a \in Range(job[j].batch) : Weighs(a) => a \in Scored(rows.ledger)
      BY <2>1, CommitWrites
  <2> HIDE DEF rows
  <2>4. Scored(ledger) \cup Scored(rows.ledger) \subseteq Scored(ledger')
      BY <2>2, <2>3, ScoredOfBoth DEF EntityShape
  <2>5. ScoresSaved' = ScoresSaved
      BY <2>2 DEF ScoresSaved
  <2>6. Scored(ledger)' = Scored(ledger')
      BY DEF Scored
  <2>7. Owed' \subseteq Owed /\ \A a \in Owed' : a \notin Range(job[j].batch)
      BY <2>3, <2>4, <2>5, <2>6 DEF Owed
  <2>8. ASSUME NEW b \in Owed', b <= Last(job[j].batch) PROVE b \in late \cup jumped
      BY <1>0, <2>1, <2>7, <2>8 DEF RunPassed
  <2>9. Passed(checkpoint)'
      BY <2>2, <2>8 DEF Passed
  <2>10. RunPassed(j)'
      BY <2>2, <2>8 DEF RunPassed, Passed
  <2>11. ASSUME NEW k \in Jobs, k # j PROVE RunPassed(k)'
    <3>1. RunPassed(k) /\ job'[k] = job[k]
        BY <1>0, <2>2, <2>11
    <3> QED BY <2>2, <2>7, <3>1 DEF RunPassed, Passed
  <2> QED BY <2>9, <2>10, <2>11 DEF NothingIsPassed
<1>9. ASSUME NEW j \in Jobs, AbortRun(j) \/ EndRun(j) PROVE NothingIsPassed'
  <2>1. /\ ledger' = ledger /\ late' = late /\ jumped' = jumped /\ alert' = alert
        /\ job'[j] = Idle
        /\ \A k \in Jobs : k # j => job'[k] = job[k]
        /\ checkpoint' = checkpoint \/ (job[j].phase = "run" /\ checkpoint' = job[j].last)
      BY <1>0, <1>9 DEF AbortRun, EndRun, entityRows
  <2>2. ScoresSaved' = ScoresSaved
      BY <2>1 DEF ScoresSaved
  <2>3. Owed' = Owed /\ \A k \in Jobs : k # j => RunPassed(k)'
      BY <1>0, <2>1, <2>2, OwedStay
  <2>4. RunPassed(j)'
      BY <2>1 DEF RunPassed, Idle
  <2>5. Passed(checkpoint)'
      BY <1>0, <2>1, <2>3 DEF RunPassed, Passed
  <2> QED BY <2>3, <2>4, <2>5 DEF NothingIsPassed
<1> QED
    BY <1>1, <1>2, <1>3, <1>4, <1>5, <1>6, <1>7, <1>8, <1>9 DEF EntityNext

LEMMA ScoresAddUpStep ==
    EntityShape /\ ScoresAddUp /\ [EntityNext]_EntityVars => ScoresAddUp'
<1> SUFFICES ASSUME EntityShape, ScoresAddUp, [EntityNext]_EntityVars PROVE ScoresAddUp'
    OBVIOUS
<1>1. CASE score' = score /\ ledger' = ledger /\ stale' = stale
    BY <1>1 DEF ScoresAddUp, LedgerScore
<1>2. ASSUME NEW j \in Jobs, CommitBatch(j) PROVE ScoresAddUp'
  <2>1. job[j] \in BatchesRead
      BY <1>2, JobCases DEF CommitBatch
  <2> DEFINE rows == ScoreBatch(job[j].read, job[j].batch, job[j].now)
             first == job[j].read.score
  <2>2. /\ score' = [e \in Entities |-> IF e \in Writes(rows) THEN rows.score[e] ELSE score[e]]
        /\ ledger' = ledger \o rows.ledger
        /\ stale' = stale \cup {e \in Writes(rows) : first[e] # score[e]}
      BY <1>2 DEF CommitBatch
  <2>3. Follows(rows, first) /\ rows.ledger \in Seq(LedgerRow)
      BY <2>1, CommitWrites
  <2> HIDE DEF rows, first
  <2> SUFFICES ASSUME NEW e \in Entities, e \notin stale'
               PROVE  Norm(score'[e]) = Total(e, 0, ledger')
      BY DEF ScoresAddUp, LedgerScore
  <2>4. Norm(score[e]) = Total(e, 0, ledger)
      BY <2>2 DEF ScoresAddUp, LedgerScore
  <2>5. Total(e, 0, ledger') = Total(e, Total(e, 0, ledger), rows.ledger)
      BY <2>2, <2>3, TotalConcat DEF EntityShape
  <2>6. CASE e \in Writes(rows)
    <3>1. score'[e] = rows.score[e] /\ first[e] = score[e]
        BY <2>2, <2>6
    <3>2. Norm(rows.score[e]) = Total(e, Norm(first[e]), rows.ledger)
        BY <2>3 DEF Follows
    <3> QED BY <2>4, <2>5, <3>1, <3>2
  <2>7. CASE e \notin Writes(rows)
    <3>1. score'[e] = score[e]
        BY <2>2, <2>7
    <3>2. \A i \in DOMAIN rows.ledger : rows.ledger[i][1] # e
        BY <2>7 DEF Writes
    <3>3. Total(e, Total(e, 0, ledger), rows.ledger) = Total(e, 0, ledger)
        BY <2>3, <3>2, TotalOfOthers
    <3> QED BY <2>4, <2>5, <3>1, <3>3
  <2> QED BY <2>6, <2>7
<1>3. (\E j \in Jobs : CommitBatch(j)) \/ (score' = score /\ ledger' = ledger /\ stale' = stale)
    BY DEF EntityNext, EntityVars, entityRows, TakeAlertId, CommitAlert, RollbackAlert, EntityTick,
           StartRealtime, StartBackfill, ReadBatch, AbortRun, EndRun
<1> QED
    BY <1>1, <1>2, <1>3

LEMMA EntityInvariant == EntitySpec => []EntityInv
<1>1. EntityInv /\ [EntityNext]_EntityVars => EntityInv'
    BY EntityShapeStep, NothingIsPassedStep, ScoresAddUpStep DEF EntityInv
<1> QED
    BY EntityInitOK, <1>1, PTL DEF EntitySpec

(* Type correctness of the scoring job.                                     *)
THEOREM EntityTypes == EntitySpec => []EntityTypeOK
<1>1. EntityInv => EntityTypeOK
  <2> SUFFICES ASSUME EntityShape PROVE EntityTypeOK
      BY DEF EntityInv
  <2>1. \A i \in DOMAIN ledger : ledger[i] \in Entities \X Int \X (AlertIds \cup {0})
      BY DEF EntityShape, LedgerRow
  <2>2. \A j \in Jobs : job[j].phase \in {"idle", "run", "batch"}
      BY JobCases
  <2> QED BY <2>1, <2>2 DEF EntityShape, EntityTypeOK, Scores
<1> QED
    BY EntityInvariant, <1>1, PTL

(* An alert with something to add, behind the checkpoint and without a row  *)
(* in the ledger, was committed late or left behind by a backfill, in every  *)
(* interleaving of runs, crashes and transactions.                           *)
THEOREM NoAlertIsLost == EntitySpec => []OnlyLateAlertsAreSkipped
<1>1. EntityInv => OnlyLateAlertsAreSkipped
    BY DEF EntityInv, NothingIsPassed, Passed, Owed, Weighs, OnlyLateAlertsAreSkipped
<1> QED
    BY EntityInvariant, <1>1, PTL

(* An entity no two overlapping runs wrote has the score its ledger adds up  *)
(* to, decay and clamping included.                                          *)
THEOREM ScoresAreTheirLedgers == EntitySpec => []ScoreIsItsLedger
<1>1. EntityInv => ScoreIsItsLedger
    BY DEF EntityInv, ScoresAddUp, Norm, ScoreIsItsLedger
<1> QED
    BY EntityInvariant, <1>1, PTL
===============================================================================
