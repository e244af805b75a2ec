-------------------------- MODULE ParseEngineProofs ---------------------------
(* Theorems of ParseRun, for a file of any length and any batch size, error *)
(* threshold and number of samples, of EngineWorker, for any events,        *)
(* workers, batches and troubles, and of AuditLog, for any ids and faults.   *)
EXTENDS ParseRun, EngineWorker, AuditLog, FiniteSetTheorems, TLAPS

(* The parse stands in its loop. *)
Looping == pc \in {"lines", "commit", "publish"}

(* No line will be read any more. *)
Closing == pc \in {"final", "flush", "finish"}

(* What the loop has read is the prefix of the file up to line. *)
PrefixRead == \A l \in Lines : outcome[l] = "unread" <=> l > line

FailedLines == {l \in Lines : outcome[l] = "fail"}

(* The counter of failed lines counts them, and stays below the threshold   *)
(* while the loop goes on.                                                  *)
FailuresCounted ==
    /\ failed = Cardinality(FailedLines)
    /\ pc = "open" => line = 0
    /\ pc = "open" \/ Looping => failed < MaxLineErrors
    /\ Closing => line = NumLines \/ failed = MaxLineErrors

(* An event waits in the batch or was handed over, never both. *)
BatchIsUnpublished ==
    /\ batch \cap offered = {}
    /\ \A l \in batch \cup offered : l <= line
    /\ \A l \in Lines : copies[l] <= 1 /\ (copies[l] > 0 => l \in offered)

(* Every event is in the batch or handed over, every row is pending or      *)
(* committed, as long as the parse has not been cut short.                  *)
NothingLost ==
    pc \notin {"done", "dead"} =>
        /\ status = "parsing"
        /\ \A l \in Lines :
            /\ outcome[l] = "event" => l \in batch \cup offered
            /\ (PersistEvents /\ outcome[l] \in Created) => l \in pending \cup rows
        /\ pc \in {"publish", "flush", "finish"} => pending = {}
        /\ pc = "finish" => batch = {}

(* What waits in the batch has a row: pending before the commit, committed  *)
(* when the publication starts.                                             *)
BatchHasRows ==
    PersistEvents =>
        /\ pc \notin {"done", "dead"} => batch \subseteq pending \cup rows
        /\ pc \in {"publish", "flush"} => batch \subseteq rows

(* Handed to the publisher, and lost by it. *)
Unarrived == {l \in offered : copies[l] = 0}

(* The batch is as long as the events created since the last multiple of    *)
(* its limit, at most, and only failed publications lose events.            *)
LossesAreBatches ==
    /\ \A l \in Lines : outcome[l] = "event" => l \in batch \cup offered
    /\ Cardinality(batch) <= BatchEvents
    /\ pc = "lines" => Cardinality(batch) <= created % BatchEvents
    /\ pc = "open" => batch = {}
    /\ Cardinality(Unarrived) <= BatchEvents * lapses

(* What a parse that ended without a fatal error has done with its lines.   *)
AllHandedOver ==
    status \in {"processed", "parsed_with_errors"} =>
        \A l \in Lines :
            /\ outcome[l] = "event" => l \in offered
            /\ (PersistEvents /\ outcome[l] \in Created) => l \in rows

RunInv ==
    /\ TypeOK
    /\ PrefixRead
    /\ FailuresCounted
    /\ BatchIsUnpublished
    /\ NothingLost
    /\ BatchHasRows
    /\ PublishedAfterCommit
    /\ LossesAreBatches
    /\ AllHandedOver
    /\ StatusTellsTheTruth

-------------------------------------------------------------------------------

LEMMA TypeInitially == Init => TypeOK
BY ParseAssumption DEF Init, TypeOK, Lines

LEMMA TypePreserved == TypeOK /\ [Next]_vars => TypeOK'
<1> SUFFICES ASSUME TypeOK, [Next]_vars PROVE TypeOK'
    OBVIOUS
<1> USE ParseAssumption DEF TypeOK, Lines, Outcomes, Created
<1>1. CASE Open
    BY <1>1 DEF Open
<1>2. ASSUME NEW o \in Created, ReadEvent(o) PROVE TypeOK'
    BY <1>2 DEF ReadEvent
<1>3. CASE ReadSkip
    BY <1>3 DEF ReadSkip
<1>4. CASE ReadFailure
    BY <1>4 DEF ReadFailure
<1>5. CASE EndOfFile
    BY <1>5 DEF EndOfFile
<1>6. CASE Commit
    BY <1>6 DEF Commit, CommittedRows, AfterLoop
<1>7. ASSUME NEW sent \in SUBSET batch, Publish(sent) PROVE TypeOK'
    BY <1>7 DEF Publish, BatchAfterPublish
<1>8. CASE Finish
    BY <1>8 DEF Finish, FinalStatus
<1>9. CASE Fatal
    BY <1>9 DEF Fatal
<1>10. CASE Crash
    BY <1>10 DEF Crash
<1>11. CASE Terminated \/ UNCHANGED vars
    BY <1>11 DEF Terminated, vars
<1> QED
    BY <1>1, <1>2, <1>3, <1>4, <1>5, <1>6, <1>7, <1>8, <1>9, <1>10, <1>11 DEF Next

(* The variables of a parse keep their types. *)
THEOREM TypeCorrect == Spec => []TypeOK
BY TypeInitially, TypePreserved, PTL DEF Spec

-------------------------------------------------------------------------------

LEMMA FailedLinesFinite == IsFiniteSet(FailedLines)
<1>1. IsFiniteSet(Lines)
    BY FS_Interval, ParseAssumption DEF Lines
<1> QED
    BY <1>1, FS_Subset DEF FailedLines

(* Reading a line: the prefix grows by that line. *)
LEMMA PrefixPreserved == RunInv /\ [Next]_vars => PrefixRead'
<1> SUFFICES ASSUME RunInv, [Next]_vars PROVE PrefixRead'
    OBVIOUS
<1> USE ParseAssumption DEF RunInv, TypeOK, PrefixRead, Lines
<1>1. CASE UNCHANGED <<line, outcome>>
    BY <1>1
<1>2. ASSUME NEW o \in Outcomes, line < NumLines, line' = line + 1,
             outcome' = [outcome EXCEPT ![line + 1] = o]
      PROVE  PrefixRead'
  <2>1. line + 1 \in Lines
      BY <1>2
  <2>2. ASSUME NEW l \in Lines PROVE outcome'[l] = "unread" <=> l > line'
    <3>1. CASE l = line + 1
        BY <1>2, <2>1, <3>1 DEF Outcomes
    <3>2. CASE l # line + 1
        BY <1>2, <2>1, <3>2
    <3> QED
        BY <3>1, <3>2
  <2> QED
      BY <2>2
<1>3. CASE \/ \E o \in Created : ReadEvent(o)
           \/ ReadSkip \/ ReadFailure
    BY <1>2, <1>3 DEF ReadEvent, ReadSkip, ReadFailure, Created, Outcomes
<1>4. CASE \/ Open \/ EndOfFile \/ Commit
           \/ \E sent \in SUBSET batch : Publish(sent)
           \/ Finish \/ Fatal \/ Crash \/ Terminated \/ UNCHANGED vars
    BY <1>1, <1>4 DEF Open, EndOfFile, Commit, Publish, Finish, Fatal, Crash, Terminated, vars
<1> QED
    BY <1>3, <1>4 DEF Next

(* Only a failing line adds to the failed lines, and it adds one. *)
LEMMA FailuresPreserved == RunInv /\ [Next]_vars => FailuresCounted'
<1> SUFFICES ASSUME RunInv, [Next]_vars PROVE FailuresCounted'
    OBVIOUS
<1> USE ParseAssumption DEF RunInv, TypeOK, FailuresCounted, Looping, Closing, Lines
<1>1. CASE ReadFailure
  <2>1. line + 1 \in Lines /\ outcome[line + 1] = "unread"
      BY <1>1 DEF ReadFailure, PrefixRead
  <2>2. FailedLines' = FailedLines \cup {line + 1} /\ line + 1 \notin FailedLines
      BY <1>1, <2>1 DEF ReadFailure, FailedLines
  <2>3. Cardinality(FailedLines') = Cardinality(FailedLines) + 1
      BY <2>2, FailedLinesFinite, FS_AddElement
  <2> QED
      BY <1>1, <2>3 DEF ReadFailure
<1>2. ASSUME NEW o \in {"event", "rowonly", "skip"}, line < NumLines,
             outcome' = [outcome EXCEPT ![line + 1] = o]
      PROVE  FailedLines' = FailedLines
  <2>1. line + 1 \in Lines /\ outcome[line + 1] = "unread"
      BY <1>2 DEF PrefixRead
  <2> QED
      BY <1>2, <2>1 DEF FailedLines
<1>3. CASE ReadSkip
  <2>1. FailedLines' = FailedLines
      BY <1>2, <1>3 DEF ReadSkip
  <2> QED
      BY <1>3, <2>1 DEF ReadSkip
<1>4. ASSUME NEW o \in Created, ReadEvent(o) PROVE FailuresCounted'
  <2>1. FailedLines' = FailedLines
      BY <1>2, <1>4 DEF ReadEvent, Created
  <2>2. pc' \in {"commit", "lines"} /\ failed' = failed /\ pc = "lines"
      BY <1>4 DEF ReadEvent
  <2> QED
      BY <2>1, <2>2
<1>5. CASE Open \/ EndOfFile \/ Commit \/ Finish \/ Fatal \/ Crash
           \/ Terminated \/ UNCHANGED vars
  <2>1. UNCHANGED <<failed, outcome, line>>
      BY <1>5 DEF Open, EndOfFile, Commit, Finish, Fatal, Crash, Terminated, vars
  <2>2. FailedLines' = FailedLines
      BY <2>1 DEF FailedLines
  <2> QED
      BY <1>5, <2>1, <2>2 DEF Open, EndOfFile, Commit, Finish, Fatal, Crash, Terminated,
                              vars, AtEndOfFile, AfterLoop
<1>6. ASSUME NEW sent \in SUBSET batch, Publish(sent) PROVE FailuresCounted'
  <2>1. FailedLines' = FailedLines
      BY <1>6 DEF Publish, FailedLines
  <2> QED
      BY <1>6, <2>1 DEF Publish
<1> QED
    BY <1>1, <1>3, <1>4, <1>5, <1>6 DEF Next

(* A line enters the batch when it is read, for the first time, and leaves  *)
(* it with its only publication.                                            *)
LEMMA BatchPreserved == RunInv /\ [Next]_vars => BatchIsUnpublished'
<1> SUFFICES ASSUME RunInv, [Next]_vars PROVE BatchIsUnpublished'
    OBVIOUS
<1> USE ParseAssumption DEF RunInv, TypeOK, BatchIsUnpublished, Lines
<1>1. ASSUME NEW o \in Created, ReadEvent(o) PROVE BatchIsUnpublished'
  <2>1. /\ line' = line + 1 /\ batch' \in {batch, batch \cup {line + 1}}
        /\ UNCHANGED <<offered, copies>>
      BY <1>1 DEF ReadEvent
  <2>2. line + 1 \notin batch \cup offered
      OBVIOUS
  <2> QED
      BY <2>1, <2>2
<1>2. ASSUME NEW sent \in SUBSET batch, Publish(sent) PROVE BatchIsUnpublished'
  <2>1. /\ batch' = {} /\ offered' = offered \cup batch /\ line' = line
        /\ copies' = [l \in Lines |-> IF l \in sent THEN copies[l] + 1 ELSE copies[l]]
      BY <1>2 DEF Publish, BatchAfterPublish
  <2>2. ASSUME NEW l \in Lines
        PROVE  copies'[l] <= 1 /\ (copies'[l] > 0 => l \in offered')
    <3>1. CASE l \in sent
      <4>1. copies[l] = 0 /\ l \in batch
          BY <1>2, <3>1
      <4> QED
          BY <2>1, <3>1, <4>1
    <3>2. CASE l \notin sent
        BY <2>1, <3>2
    <3> QED
        BY <3>1, <3>2
  <2> QED
      BY <2>1, <2>2
<1>3. CASE \/ Open \/ ReadSkip \/ ReadFailure \/ EndOfFile \/ Commit
           \/ Finish \/ Fatal \/ Crash \/ Terminated \/ UNCHANGED vars
  <2>1. UNCHANGED <<batch, offered, copies>> /\ line' \in {line, line + 1}
      BY <1>3 DEF Open, ReadSkip, ReadFailure, EndOfFile, Commit, Finish, Fatal, Crash,
                  Terminated, vars
  <2> QED
      BY <2>1
<1> QED
    BY <1>1, <1>2, <1>3 DEF Next

(* What is read is batched and pending; a commit moves the pending rows, a  *)
(* publication hands over the whole batch, and a normal end finds both      *)
(* empty.                                                                   *)
LEMMA NothingLostPreserved ==
    RunInv /\ [Next]_vars => NothingLost' /\ AllHandedOver'
<1> SUFFICES ASSUME RunInv, [Next]_vars PROVE NothingLost' /\ AllHandedOver'
    OBVIOUS
<1> USE ParseAssumption DEF RunInv, TypeOK, NothingLost, AllHandedOver, Created, Lines
<1>1. ASSUME NEW o \in Created, ReadEvent(o) PROVE NothingLost' /\ AllHandedOver'
  <2>1. /\ pc = "lines" /\ pc' \in {"commit", "lines"}
        /\ outcome' = [outcome EXCEPT ![line + 1] = o]
        /\ pending' = IF PersistEvents THEN pending \cup {line + 1} ELSE pending
        /\ batch' = IF o = "event" THEN batch \cup {line + 1} ELSE batch
        /\ UNCHANGED <<status, rows, offered>>
      BY <1>1 DEF ReadEvent
  <2>2. ASSUME NEW l \in Lines
        PROVE  /\ outcome'[l] = "event" => l \in batch' \cup offered'
               /\ (PersistEvents /\ outcome'[l] \in Created) => l \in pending' \cup rows'
    <3>1. CASE l = line + 1
        BY <2>1, <3>1
    <3>2. CASE l # line + 1
        BY <2>1, <3>2
    <3> QED
        BY <3>1, <3>2
  <2> QED
      BY <2>1, <2>2
<1>2. CASE ReadSkip \/ ReadFailure
  <2>1. /\ pc = "lines" /\ pc' \in {"lines", "commit", "final"}
        /\ UNCHANGED <<status, rows, offered, pending, batch>>
      BY <1>2 DEF ReadSkip, ReadFailure
  <2>2. \A l \in Lines : outcome'[l] = outcome[l] \/ outcome'[l] \in {"skip", "fail"}
      BY <1>2 DEF ReadSkip, ReadFailure
  <2> QED
      BY <2>1, <2>2
<1>3. CASE Commit
    BY <1>3 DEF Commit, CommittedRows, AfterLoop
<1>4. ASSUME NEW sent \in SUBSET batch, Publish(sent) PROVE NothingLost' /\ AllHandedOver'
    BY <1>4 DEF Publish, BatchAfterPublish
<1>5. CASE Finish
    BY <1>5 DEF Finish, FinalStatus
<1>6. CASE Open \/ EndOfFile \/ Fatal \/ Crash
    BY <1>6 DEF Open, EndOfFile, Fatal, Crash
<1>7. CASE Terminated \/ UNCHANGED vars
    BY <1>7 DEF Terminated, vars
<1> QED
    BY <1>1, <1>2, <1>3, <1>4, <1>5, <1>6, <1>7 DEF Next

(* Division by the batch size. *)
LEMMA Division ==
    ASSUME NEW c \in Nat, NEW b \in Nat \ {0}
    PROVE  c = b * (c \div b) + (c % b) /\ (c \div b) \in Nat /\ (c % b) \in 0..(b - 1)
OBVIOUS

LEMMA Remainder ==
    ASSUME NEW b \in Nat \ {0}, NEW q \in Nat, NEW r \in 0..(b - 1)
    PROVE  (b * q + r) % b = r
OBVIOUS

LEMMA OneMoreTime ==
    ASSUME NEW b \in Nat, NEW k \in Nat
    PROVE  b * (k + 1) = b * k + b /\ b * k \in Nat
OBVIOUS

(* The remainder counts on until the next multiple. *)
LEMMA RemainderCounts ==
    ASSUME NEW c \in Nat, NEW b \in Nat \ {0}, (c + 1) % b # 0
    PROVE  (c + 1) % b = (c % b) + 1
<1> DEFINE q == c \div b
           r == c % b
<1>1. c = b * q + r /\ q \in Nat /\ r \in 0..(b - 1)
    BY Division
<1> HIDE DEF q, r
<1>2. CASE r + 1 = b
  <2>1. b * (q + 1) = b * q + b /\ b * (q + 1) \in Nat
      BY OneMoreTime, <1>1
  <2>2. c + 1 = b * (q + 1) + 0 /\ q + 1 \in Nat /\ 0 \in 0..(b - 1)
      BY <1>1, <1>2, <2>1
  <2>3. (b * (q + 1) + 0) % b = 0
      BY Remainder, <2>2
  <2> QED
      BY <2>2, <2>3
<1>3. CASE r + 1 < b
  <2>1. c + 1 = b * q + (r + 1) /\ r + 1 \in 0..(b - 1)
      BY <1>1, <1>3
  <2>2. (b * q + (r + 1)) % b = r + 1
      BY Remainder, <1>1, <2>1
  <2> QED
      BY <2>1, <2>2 DEF r
<1> QED
    BY <1>1, <1>2, <1>3

LEMMA LinesAreFinite ==
    ASSUME NEW S, S \subseteq Lines PROVE IsFiniteSet(S) /\ Cardinality(S) \in Nat
<1>1. IsFiniteSet(Lines)
    BY FS_Interval, ParseAssumption DEF Lines
<1>2. S \in SUBSET Lines
    OBVIOUS
<1> QED
    BY <1>1, <1>2, FS_Subset, FS_CardinalityType

(* A line lengthens the batch by one at most and the remainder by one; a    *)
(* full batch is published before the next line; a publication that failed  *)
(* loses what the batch held.                                                *)
LEMMA LossesPreserved == RunInv /\ [Next]_vars => LossesAreBatches'
<1> SUFFICES ASSUME RunInv, [Next]_vars PROVE LossesAreBatches'
    OBVIOUS
<1>0. TypeOK /\ TypeOK'
    BY TypePreserved DEF RunInv
<1>1. /\ BatchEvents \in Nat \ {0} /\ created \in Nat /\ lapses \in Nat
      /\ batch \subseteq Lines /\ offered \subseteq Lines /\ Unarrived \subseteq Lines
    BY <1>0, ParseAssumption DEF TypeOK, Unarrived
<1>2. Cardinality(batch) \in Nat /\ Cardinality(Unarrived) \in Nat /\ IsFiniteSet(batch) /\ IsFiniteSet(Unarrived)
    BY <1>1, LinesAreFinite
<1>3. LossesAreBatches
    BY DEF RunInv
<1>4. created % BatchEvents \in 0..(BatchEvents - 1)
    BY <1>1, Division
<1>5. ASSUME UNCHANGED <<outcome, batch, offered, copies, created, lapses>>,
             pc' # "open" \/ pc = "open", pc' = "lines" => pc \in {"open", "lines"} \/ batch = {}
      PROVE  LossesAreBatches'
  <2>1. pc' = "lines" => Cardinality(batch) <= created % BatchEvents
    <3>1. CASE batch = {}
      <4>1. Cardinality(batch) = 0
          BY <3>1, FS_EmptySet
      <4>2. \A r \in 0..(BatchEvents - 1) : 0 <= r
          BY <1>1
      <4> QED
          BY <1>4, <4>1, <4>2
    <3>2. CASE pc = "lines"
        BY <1>3, <3>2 DEF LossesAreBatches
    <3>3. pc' = "lines" => batch = {} \/ pc = "lines"
        BY <1>3, <1>5 DEF LossesAreBatches
    <3> QED
        BY <3>1, <3>2, <3>3
  <2> QED
      BY <1>3, <1>5, <2>1 DEF LossesAreBatches, Unarrived
<1>6. CASE \/ Open \/ EndOfFile \/ Commit \/ Finish \/ Fatal \/ Crash \/ Terminated \/ UNCHANGED vars
    BY <1>5, <1>6 DEF Open, EndOfFile, Commit, AfterLoop, Finish, Fatal, Crash, Terminated, vars
<1>7. CASE ReadSkip \/ ReadFailure
  <2>1. /\ UNCHANGED <<batch, offered, copies, created, lapses>> /\ pc = "lines"
        /\ pc' \in {"lines", "commit", "final"} /\ line + 1 \in Lines
        /\ \E o \in {"skip", "fail"} : outcome' = [outcome EXCEPT ![line + 1] = o]
      BY <1>0, <1>7, ParseAssumption DEF ReadSkip, ReadFailure, Lines, TypeOK
  <2>2. \A l \in Lines : outcome'[l] = "event" => outcome[l] = "event"
      BY <1>0, <2>1 DEF TypeOK
  <2> QED
      BY <1>3, <2>1, <2>2 DEF LossesAreBatches, Unarrived
<1>8. ASSUME NEW o \in Created, ReadEvent(o) PROVE LossesAreBatches'
  <2>1. /\ UNCHANGED <<offered, copies, lapses>> /\ created' = created + 1 /\ pc = "lines"
        /\ outcome' = [outcome EXCEPT ![line + 1] = o]
        /\ batch' = IF o = "event" THEN batch \cup {line + 1} ELSE batch
        /\ pc' = IF (created + 1) % BatchEvents = 0 THEN "commit" ELSE "lines"
      BY <1>8 DEF ReadEvent
  <2>2. Cardinality(batch') <= Cardinality(batch) + 1 /\ Cardinality(batch') \in Nat
    <3>1. CASE batch' = batch
        BY <1>2, <3>1
    <3>2. CASE batch' = batch \cup {line + 1}
      <4>1. Cardinality(batch \cup {line + 1}) =
                IF line + 1 \in batch THEN Cardinality(batch) ELSE Cardinality(batch) + 1
          BY <1>2, FS_AddElement
      <4> QED
          BY <1>2, <3>2, <4>1
    <3> QED
        BY <2>1, <3>1, <3>2
  <2>3. Cardinality(batch) <= created % BatchEvents
      BY <1>3, <2>1 DEF LossesAreBatches
  <2>4. Cardinality(batch') <= BatchEvents
      BY <1>1, <1>2, <1>4, <2>2, <2>3
  <2>5. pc' = "lines" => Cardinality(batch') <= created' % BatchEvents
    <3>1. SUFFICES ASSUME pc' = "lines" PROVE Cardinality(batch') <= created' % BatchEvents
        OBVIOUS
    <3>2. (created + 1) % BatchEvents # 0
        BY <2>1, <3>1
    <3>3. (created + 1) % BatchEvents = (created % BatchEvents) + 1
        BY <1>1, <3>2, RemainderCounts
    <3>4. Cardinality(batch') <= (created % BatchEvents) + 1
        BY <1>2, <1>4, <2>2, <2>3
    <3> QED
        BY <2>1, <3>3, <3>4
  <2>6. \A l \in Lines : outcome'[l] = "event" => l \in batch' \cup offered'
    <3>1. ASSUME NEW l \in Lines, outcome'[l] = "event", l # line + 1 PROVE l \in batch' \cup offered'
        BY <1>0, <1>3, <2>1, <3>1 DEF LossesAreBatches, TypeOK
    <3>2. ASSUME NEW l \in Lines, outcome'[l] = "event", l = line + 1 PROVE l \in batch' \cup offered'
        BY <1>0, <2>1, <3>2 DEF TypeOK
    <3> QED
        BY <3>1, <3>2
  <2>7. Unarrived' = Unarrived /\ pc' # "open"
      BY <2>1 DEF Unarrived
  <2> QED
      BY <1>3, <2>1, <2>4, <2>5, <2>6, <2>7 DEF LossesAreBatches
<1>9. ASSUME NEW sent \in SUBSET batch, Publish(sent) PROVE LossesAreBatches'
  <2>1. /\ UNCHANGED <<outcome, created>> /\ batch' = {} /\ offered' = offered \cup batch
        /\ copies' = [l \in Lines |-> IF l \in sent THEN copies[l] + 1 ELSE copies[l]]
        /\ lapses' = IF sent = batch THEN lapses ELSE lapses + 1
        /\ pc' \in {"lines", "finish"}
      BY <1>9 DEF Publish, BatchAfterPublish
  <2>2. Cardinality(batch') = 0
      BY <2>1, FS_EmptySet
  <2>3. created % BatchEvents >= 0 /\ 0 <= BatchEvents
      BY <1>1, <1>4
  <2>4. Unarrived' \subseteq Unarrived \cup (batch \ sent)
    <3> SUFFICES ASSUME NEW l \in Unarrived' PROVE l \in Unarrived \cup (batch \ sent)
        OBVIOUS
    <3>1. l \in Lines /\ l \in offered \cup batch /\ copies'[l] = 0
        BY <1>1, <2>1 DEF Unarrived
    <3>2. copies[l] \in Nat /\ l \notin sent /\ copies[l] = 0
        BY <1>0, <2>1, <3>1 DEF TypeOK
    <3> QED
        BY <3>1, <3>2 DEF Unarrived
  <2>5. Cardinality(Unarrived') <= BatchEvents * lapses'
    <3>1. Unarrived \cup batch \subseteq Lines /\ Unarrived' \in SUBSET (Unarrived \cup batch)
        BY <1>1, <2>4
    <3>2. IsFiniteSet(Unarrived \cup batch) /\ IsFiniteSet(Unarrived')
        BY <3>1, LinesAreFinite, FS_Subset
    <3>3. Cardinality(Unarrived') \in Nat /\ Cardinality(Unarrived \cup batch) \in Nat
        BY <3>2, FS_CardinalityType
    <3>4. CASE sent = batch
      <4>1. Unarrived' \in SUBSET Unarrived
          BY <2>4, <3>4
      <4>2. Cardinality(Unarrived') <= Cardinality(Unarrived)
          BY <4>1, <1>2, FS_Subset
      <4>3. BatchEvents * lapses \in Nat
          BY <1>1, OneMoreTime
      <4> QED
          BY <1>2, <1>3, <2>1, <3>3, <3>4, <4>2, <4>3 DEF LossesAreBatches
    <3>5. CASE sent # batch
      <4>1. Cardinality(Unarrived') <= Cardinality(Unarrived \cup batch)
          BY <3>1, <3>2, FS_Subset
      <4>2. Cardinality(Unarrived \cup batch) <= Cardinality(Unarrived) + Cardinality(batch)
        <5>1. Cardinality(Unarrived \cup batch) = Cardinality(Unarrived) + Cardinality(batch) - Cardinality(Unarrived \cap batch)
            BY <1>2, FS_Union
        <5>2. Cardinality(Unarrived \cap batch) \in Nat
          <6>1. Unarrived \cap batch \subseteq Lines
              BY <1>1
          <6> QED
              BY <6>1, LinesAreFinite
        <5> QED
            BY <1>2, <5>1, <5>2
      <4>3. BatchEvents * (lapses + 1) = BatchEvents * lapses + BatchEvents /\ BatchEvents * lapses \in Nat
          BY <1>1, OneMoreTime
      <4>4. lapses' = lapses + 1
          BY <2>1, <3>5
      <4>5. Cardinality(Unarrived) <= BatchEvents * lapses /\ Cardinality(batch) <= BatchEvents
          BY <1>3 DEF LossesAreBatches
      <4>6. Cardinality(Unarrived') <= BatchEvents * lapses + BatchEvents
          BY <1>1, <1>2, <3>3, <4>1, <4>2, <4>3, <4>5
      <4> QED
          BY <4>3, <4>4, <4>6
    <3> QED
        BY <3>4, <3>5
  <2>6. \A l \in Lines : outcome'[l] = "event" => l \in batch' \cup offered'
      BY <1>3, <2>1 DEF LossesAreBatches
  <2> QED
      BY <2>1, <2>2, <2>3, <2>5, <2>6 DEF LossesAreBatches
<1> QED
    BY <1>6, <1>7, <1>8, <1>9 DEF Next

(* What misses the stream waits in the batch or was lost by the publisher.  *)
LEMMA LossesAreMissing ==
    ASSUME TypeOK, BatchIsUnpublished, LossesAreBatches, NothingLost, AllHandedOver
    PROVE  NothingLeftBehind
<1>1. /\ BatchEvents \in Nat \ {0} /\ lapses \in Nat
      /\ batch \subseteq Lines /\ Unarrived \subseteq Lines /\ Missing \subseteq Lines
    BY ParseAssumption DEF TypeOK, Unarrived, Missing
<1>2. /\ IsFiniteSet(batch) /\ Cardinality(batch) \in Nat
      /\ IsFiniteSet(Unarrived) /\ Cardinality(Unarrived) \in Nat
      /\ Cardinality(Missing) \in Nat
    BY <1>1, LinesAreFinite
<1>3. Missing \subseteq Unarrived \cup batch
    BY DEF Missing, Unarrived, LossesAreBatches
<1>4. Cardinality(Missing) <= BatchEvents * (lapses + 1)
  <2>1. Missing \in SUBSET (Unarrived \cup batch) /\ Unarrived \cup batch \subseteq Lines
      BY <1>1, <1>3
  <2>2. IsFiniteSet(Unarrived \cup batch) /\ Cardinality(Unarrived \cup batch) \in Nat
      BY <2>1, LinesAreFinite
  <2>3. Cardinality(Missing) <= Cardinality(Unarrived \cup batch)
      BY <2>1, <2>2, FS_Subset
  <2>4. Cardinality(Unarrived \cup batch) = Cardinality(Unarrived) + Cardinality(batch) - Cardinality(Unarrived \cap batch)
      BY <1>2, FS_Union
  <2>5. Unarrived \cap batch \subseteq Lines
      BY <1>1
  <2>6. Cardinality(Unarrived \cap batch) \in Nat
      BY <2>5, LinesAreFinite
  <2>7. BatchEvents * (lapses + 1) = BatchEvents * lapses + BatchEvents /\ BatchEvents * lapses \in Nat
      BY <1>1, OneMoreTime
  <2>8. Cardinality(Unarrived) <= BatchEvents * lapses /\ Cardinality(batch) <= BatchEvents
      BY DEF LossesAreBatches
  <2>9. Cardinality(Missing) <= BatchEvents * lapses + BatchEvents
      BY <1>1, <1>2, <2>2, <2>3, <2>4, <2>6, <2>7, <2>8
  <2> QED
      BY <2>7, <2>9
<1>5. ASSUME status \in {"processed", "parsed_with_errors"}
      PROVE  Cardinality(Missing) <= BatchEvents * lapses
  <2>1. Missing \in SUBSET Unarrived
      BY <1>5 DEF AllHandedOver, Missing, Unarrived
  <2>2. Cardinality(Missing) <= Cardinality(Unarrived)
      BY <1>2, <2>1, FS_Subset
  <2>3. Cardinality(Unarrived) <= BatchEvents * lapses /\ BatchEvents * lapses \in Nat
      BY <1>1, OneMoreTime DEF LossesAreBatches
  <2> QED
      BY <1>2, <2>2, <2>3
<1> QED
    BY <1>4, <1>5 DEF NothingLeftBehind, AllHandedOver

(* The publication starts from a commit, which has emptied the pending rows. *)
LEMMA RowsPreserved == RunInv /\ [Next]_vars => BatchHasRows' /\ PublishedAfterCommit'
<1> SUFFICES ASSUME RunInv, [Next]_vars PROVE BatchHasRows' /\ PublishedAfterCommit'
    OBVIOUS
<1> USE ParseAssumption DEF RunInv, TypeOK, BatchHasRows, PublishedAfterCommit, Lines
<1>1. ASSUME NEW o \in Created, ReadEvent(o) PROVE BatchHasRows' /\ PublishedAfterCommit'
  <2>1. /\ pc = "lines" /\ pc' \in {"commit", "lines"}
        /\ pending' = IF PersistEvents THEN pending \cup {line + 1} ELSE pending
        /\ batch' \in {batch, batch \cup {line + 1}}
        /\ UNCHANGED <<rows, copies>>
      BY <1>1 DEF ReadEvent
  <2> QED
      BY <2>1
<1>2. CASE ReadSkip \/ ReadFailure
    BY <1>2 DEF ReadSkip, ReadFailure
<1>3. CASE Commit
    BY <1>3 DEF Commit, CommittedRows, AfterLoop
<1>4. ASSUME NEW sent \in SUBSET batch, Publish(sent)
      PROVE  BatchHasRows' /\ PublishedAfterCommit'
  <2>1. /\ pc \in {"publish", "flush"} /\ batch' = {} /\ rows' = rows
        /\ copies' = [l \in Lines |-> IF l \in sent THEN copies[l] + 1 ELSE copies[l]]
      BY <1>4 DEF Publish, BatchAfterPublish
  <2> QED
      BY <1>4, <2>1
<1>5. CASE Open \/ EndOfFile \/ Finish \/ Fatal \/ Crash
    BY <1>5 DEF Open, EndOfFile, Finish, Fatal, Crash
<1>6. CASE Terminated \/ UNCHANGED vars
    BY <1>6 DEF Terminated, vars
<1> QED
    BY <1>1, <1>2, <1>3, <1>4, <1>5, <1>6 DEF Next

(* The final status is computed from the counter, which counts the lines.   *)
LEMMA StatusPreserved == RunInv /\ [Next]_vars => StatusTellsTheTruth'
<1> SUFFICES ASSUME RunInv, [Next]_vars PROVE StatusTellsTheTruth'
    OBVIOUS
<1> USE ParseAssumption DEF RunInv, TypeOK, StatusTellsTheTruth, Lines
<1>1. CASE Finish
  <2>1. UNCHANGED <<outcome, failed>> /\ pc = "finish" /\ status' = FinalStatus
      BY <1>1 DEF Finish
  <2>2. line = NumLines \/ failed = MaxLineErrors
      BY <2>1 DEF FailuresCounted, Closing
  <2>3. line = NumLines => \A l \in Lines : outcome[l] # "unread"
      BY DEF PrefixRead
  <2>4. failed = 0 => \A l \in Lines : outcome[l] # "fail"
    <3>1. failed = 0 => FailedLines = {}
        BY FailedLinesFinite, FS_EmptySet DEF FailuresCounted
    <3> QED
        BY <3>1 DEF FailedLines
  <2>5. Cardinality({l \in Lines : outcome[l] = "fail"}) = failed
      BY DEF FailuresCounted, FailedLines
  <2>6. CASE failed = 0
      BY <2>1, <2>2, <2>3, <2>4, <2>6 DEF FinalStatus
  <2>7. CASE failed > 0
    <3>1. status' = "parsed_with_errors"
        BY <2>1, <2>7 DEF FinalStatus
    <3>2. CASE line = NumLines
        BY <2>1, <2>3, <3>1, <3>2
    <3>3. CASE failed = MaxLineErrors
        BY <2>1, <2>5, <3>1, <3>3
    <3> QED
        BY <2>2, <3>2, <3>3
  <2> QED
      BY <2>6, <2>7
<1>2. CASE status' = "error"
    BY <1>2
<1>3. CASE status' = status /\ pc \notin {"done", "dead"}
    BY <1>3 DEF NothingLost
<1>4. CASE UNCHANGED vars
    BY <1>4 DEF vars
<1>5. [Next]_vars => Finish \/ status' = "error" \/ UNCHANGED vars
                     \/ (status' = status /\ pc \notin {"done", "dead"})
    BY DEF Next, Open, ReadEvent, ReadSkip, ReadFailure, EndOfFile, Commit, Publish,
           Fatal, Crash, Terminated
<1> QED
    BY <1>1, <1>2, <1>3, <1>4, <1>5

LEMMA RunInvInitially == Init => RunInv
<1> SUFFICES ASSUME Init PROVE RunInv
    OBVIOUS
<1>1. FailedLines = {}
    BY DEF Init, FailedLines
<1>2. FailuresCounted
    BY <1>1, FS_EmptySet, ParseAssumption DEF Init, FailuresCounted, Looping, Closing
<1>3. PrefixRead /\ BatchIsUnpublished
    BY DEF Init, PrefixRead, BatchIsUnpublished, Lines
<1>4. NothingLost /\ BatchHasRows
    BY DEF Init, NothingLost, BatchHasRows, Created
<1>5. PublishedAfterCommit /\ AllHandedOver /\ StatusTellsTheTruth
    BY DEF Init, PublishedAfterCommit, AllHandedOver, StatusTellsTheTruth
<1>6. LossesAreBatches
  <2>1. /\ Cardinality(batch) = 0 /\ Cardinality(Unarrived) = 0 /\ batch = {}
        /\ pc = "open" /\ lapses = 0
      BY FS_EmptySet DEF Init, Unarrived
  <2>2. \A l \in Lines : outcome[l] # "event"
      BY DEF Init
  <2>3. BatchEvents * 0 = 0 /\ 0 <= BatchEvents
      BY ParseAssumption
  <2> QED
      BY <2>1, <2>2, <2>3 DEF LossesAreBatches
<1> QED
    BY <1>2, <1>3, <1>4, <1>5, <1>6, TypeInitially DEF RunInv

LEMMA RunInvariant == Spec => []RunInv
<1>1. RunInv /\ [Next]_vars => RunInv'
    BY TypePreserved, PrefixPreserved, FailuresPreserved, BatchPreserved, LossesPreserved,
       NothingLostPreserved, RowsPreserved, StatusPreserved DEF RunInv
<1> QED
    BY <1>1, RunInvInitially, PTL DEF Spec

(* No line of the file is published twice by one parse. *)
THEOREM PublicationsAreSingle == Spec => []PublishedAtMostOnce
<1>1. RunInv => PublishedAtMostOnce
    BY DEF RunInv, BatchIsUnpublished, PublishedAtMostOnce
<1> QED
    BY <1>1, RunInvariant, PTL

(* A published event has a committed row when rows are kept. *)
THEOREM RowsPrecedeMessages == Spec => []PublishedAfterCommit
<1>1. RunInv => PublishedAfterCommit
    BY DEF RunInv
<1> QED
    BY <1>1, RunInvariant, PTL

(* A parse that ends normally has offered and committed everything, so that *)
(* its events miss the stream a failed publication at a time, a batch each. *)
THEOREM NormalEndIsComplete == Spec => []NothingLeftBehind
<1>1. RunInv => NothingLeftBehind
    BY LossesAreMissing DEF RunInv
<1> QED
    BY <1>1, RunInvariant, PTL

(* The final status describes the file that was read. *)
THEOREM StatusIsTrue == Spec => []StatusTellsTheTruth
<1>1. RunInv => StatusTellsTheTruth
    BY DEF RunInv
<1> QED
    BY <1>1, RunInvariant, PTL

-------------------------------------------------------------------------------
(* The queue of events *)

Between == {"cycle", "reconcile", "claim"}
AtEvent == {"eval", "notify", "fail"}

(* What a worker has claimed and not let go. *)
Load(w) == queue[w] \cup ({cur[w]} \ {0})

(* A worker has a local queue within a batch and an event only while it     *)
(* works on one, which is out of the queue by then.                          *)
LoadsAreBatches ==
    \A w \in Engines :
        /\ at[w] \in Between => queue[w] = {}
        /\ at[w] \in AtEvent <=> cur[w] # 0
        /\ cur[w] \notin queue[w]
        /\ Cardinality(Load(w)) <= ClaimBatch

(* Workers that will still evaluate an event, whatever its row says. *)
Holders(e) == {w \in Engines : e \in queue[w] \/ (at[w] = "eval" /\ cur[w] = e)}

(* The evaluations that may still come without further trouble: one for     *)
(* each holder, and one more for whoever claims the row next.                *)
Owed(e) ==
    IF estate[e] \in {"absent", "pending"} \/ (estate[e] = "processing" /\ e \in overdue)
      THEN Cardinality(Holders(e)) + 1
      ELSE IF estate[e] = "processing" /\ Holders(e) = {} THEN 1 ELSE Cardinality(Holders(e))

EvaluationsAreOwed ==
    \A e \in Events : /\ IsFiniteSet(Holders(e))
                      /\ evals[e] + Owed(e) <= 1 + overdues + requeues

EngineInv == EngineTypeOK /\ LoadsAreBatches /\ EvaluationsAreOwed

LEMMA EngineInitOK == EngineInit => EngineInv
<1> SUFFICES ASSUME EngineInit PROVE EngineInv
    OBVIOUS
<1> USE EngineAssumption DEF EngineInit
<1>1. EngineTypeOK
    BY DEF EngineTypeOK, UploadStatuses
<1>2. LoadsAreBatches
  <2> SUFFICES ASSUME NEW w \in Engines
               PROVE  /\ at[w] \in Between => queue[w] = {}
                      /\ at[w] \in AtEvent <=> cur[w] # 0
                      /\ cur[w] \notin queue[w]
                      /\ Cardinality(Load(w)) <= ClaimBatch
      BY DEF LoadsAreBatches
  <2>1. Load(w) = {}
      BY DEF Load
  <2> QED BY <2>1, FS_EmptySet DEF Between, AtEvent
<1>3. EvaluationsAreOwed
  <2> SUFFICES ASSUME NEW e \in Events
               PROVE  IsFiniteSet(Holders(e)) /\ evals[e] + Owed(e) <= 1 + overdues + requeues
      BY DEF EvaluationsAreOwed
  <2>1. Holders(e) = {}
      BY DEF Holders
  <2> QED BY <2>1, FS_EmptySet DEF Owed
<1> QED BY <1>1, <1>2, <1>3 DEF EngineInv

LEMMA EngineTypes == EngineTypeOK /\ LoadsAreBatches /\ [EngineNext]_EngineVars => EngineTypeOK'
<1> SUFFICES ASSUME EngineTypeOK, LoadsAreBatches, [EngineNext]_EngineVars PROVE EngineTypeOK'
    OBVIOUS
<1> USE DEF EngineTypeOK
<1>0. {"parsing", "parsed", "processing_engine", "processed", "parsed_with_errors"} \subseteq UploadStatuses
    BY DEF UploadStatuses
<1>1. ASSUME NEW S \in SUBSET Events \ {{}}, ParserInsert(S) PROVE EngineTypeOK'
    BY <1>1 DEF ParserInsert, loop, spent
<1>2. CASE ParserEnd
    BY <1>0, <1>2 DEF ParserEnd, eventRows, loop, spent
<1>3. CASE ParserDies
    BY <1>3 DEF ParserDies, eventRows, loop
<1>4. CASE ParserRetries
    BY <1>4 DEF ParserRetries, eventRows, loop, spent
<1>5. CASE UiRequeueErrors
    BY <1>5 DEF UiRequeueErrors, PutBack, loop
<1>6. ASSUME NEW b \in BOOLEAN, UiRequeueUpload(b) PROVE EngineTypeOK'
    BY <1>0, <1>6 DEF UiRequeueUpload, PutBack, loop
<1>7. ASSUME NEW w \in Engines, EngineStep(w) PROVE EngineTypeOK'
  <2>1. CASE StartCycle(w)
    <3>1. cycle' \in [Engines -> Nat]
        BY <2>1, EngineAssumption DEF StartCycle
    <3>2. at' \in [Engines -> {"cycle", "reconcile", "claim", "work", "eval", "notify", "fail"}]
        BY <2>1 DEF StartCycle, Goto
    <3> QED BY <2>1, <3>1, <3>2 DEF StartCycle, PutBack, spent
  <2>2. CASE Reconcile(w)
      BY <1>0, <2>2 DEF Reconcile, AfterReconcile, Goto, eventRows, spent
  <2>3. CASE ClaimNothing(w) \/ QueueDone(w)
      BY <2>3 DEF ClaimNothing, QueueDone, Goto, eventRows, spent
  <2>4. ASSUME NEW S \in SUBSET Events, ClaimEvents(w, S) PROVE EngineTypeOK'
      BY <2>4 DEF ClaimEvents, Claimable, Goto, spent
  <2>5. ASSUME NEW e \in Events, TakeEvent(w, e) PROVE EngineTypeOK'
      BY <1>0, <2>5 DEF TakeEvent, Goto, eventRows, spent
  <2>6. CASE CommitEvent(w)
    <3>1. cur[w] \in Events
        BY <2>6 DEF CommitEvent, LoadsAreBatches, AtEvent
    <3>2. upload' \in UploadStatuses
        BY <1>0, <2>6 DEF CommitEvent, UploadAfter
    <3> QED BY <2>6, <3>1, <3>2 DEF CommitEvent, Goto, spent
  <2>7. CASE Notified(w)
      BY <2>7 DEF Notified, LetGo, Goto, eventRows, spent
  <2>8. CASE MarkEventError(w)
      BY <2>8 DEF MarkEventError, LetGo, Goto, spent
  <2> QED BY <1>7, <2>1, <2>2, <2>3, <2>4, <2>5, <2>6, <2>7, <2>8 DEF EngineStep
<1>8. ASSUME NEW w \in Engines, FailEvent(w) \/ NotifyRaises(w) \/ ErrorIsLost(w) \/ EngineDies(w)
      PROVE EngineTypeOK'
  <2>1. CASE FailEvent(w)
      BY <2>1 DEF FailEvent, Goto, eventRows
  <2>2. CASE NotifyRaises(w)
      BY <2>2 DEF NotifyRaises, Goto, eventRows
  <2>3. CASE ErrorIsLost(w)
      BY <2>3 DEF ErrorIsLost, LetGo, Goto, eventRows
  <2>4. CASE EngineDies(w)
      BY <2>4 DEF EngineDies, Goto, eventRows
  <2> QED BY <1>8, <2>1, <2>2, <2>3, <2>4
<1>9. ASSUME NEW e \in Events, Ages(e) PROVE EngineTypeOK'
    BY <1>9 DEF Ages, loop
<1>10. CASE UNCHANGED EngineVars
    BY <1>10 DEF EngineVars, eventRows, loop, spent
<1>11. ASSUME NEW e \in Events, Lapses(e) PROVE EngineTypeOK'
    BY <1>11 DEF Lapses, eventRows, loop
<1> QED BY <1>1, <1>2, <1>3, <1>4, <1>5, <1>6, <1>7, <1>8, <1>9, <1>10, <1>11 DEF EngineNext

(* Only claims, takings, letting go and deaths change what a worker holds.  *)
LEMMA EngineLoads ==
    EngineTypeOK /\ LoadsAreBatches /\ [EngineNext]_EngineVars => LoadsAreBatches'
<1> SUFFICES ASSUME EngineTypeOK, LoadsAreBatches, [EngineNext]_EngineVars PROVE LoadsAreBatches'
    OBVIOUS
<1> USE EngineAssumption
<1> DEFINE Fits(v) == /\ at[v] \in Between => queue[v] = {}
                      /\ at[v] \in AtEvent <=> cur[v] # 0
                      /\ cur[v] \notin queue[v]
                      /\ Cardinality(Load(v)) <= ClaimBatch
<1>0. \A v \in Engines : Fits(v) /\ IsFiniteSet(Load(v))
  <2>1. \A v \in Engines : Load(v) \subseteq Events
      BY DEF Load, EngineTypeOK
  <2> QED BY <2>1, FS_Subset DEF LoadsAreBatches
<1>1. ASSUME UNCHANGED <<at, queue, cur>> PROVE LoadsAreBatches'
    BY <1>1 DEF LoadsAreBatches, Load
<1>2. ASSUME NEW w \in Engines, Fits(w)',
             \A v \in Engines \ {w} : at'[v] = at[v] /\ queue'[v] = queue[v] /\ cur'[v] = cur[v]
      PROVE  LoadsAreBatches'
  <2>1. ASSUME NEW v \in Engines PROVE Fits(v)'
      BY <1>2, <1>0, <2>1 DEF Load
  <2> QED BY <2>1 DEF LoadsAreBatches
<1>3. ASSUME NEW w \in Engines, at'[w] \in Between, queue'[w] = {}, cur'[w] = 0 PROVE Fits(w)'
  <2>1. Load(w)' = {}
      BY <1>3 DEF Load
  <2> QED BY <1>3, <2>1, FS_EmptySet DEF Between, AtEvent
<1>4. ASSUME NEW S \in SUBSET Events \ {{}}, ParserInsert(S) PROVE LoadsAreBatches'
    BY <1>1, <1>4 DEF ParserInsert, loop
<1>5. CASE ParserEnd \/ ParserDies \/ ParserRetries \/ UiRequeueErrors
           \/ (\E b \in BOOLEAN : UiRequeueUpload(b)) \/ (\E e \in Events : Lapses(e))
           \/ UNCHANGED EngineVars
    BY <1>1, <1>5 DEF ParserEnd, ParserDies, ParserRetries, UiRequeueErrors, UiRequeueUpload,
                      Lapses, EngineVars, loop
<1>6. ASSUME NEW e \in Events, Ages(e) PROVE LoadsAreBatches'
    BY <1>1, <1>6 DEF Ages, loop
<1>7. ASSUME NEW w \in Engines, EngineStep(w) PROVE LoadsAreBatches'
  <2>1. CASE StartCycle(w) \/ Reconcile(w) \/ ClaimNothing(w) \/ QueueDone(w)
    <3>1. /\ at'[w] \in Between /\ queue'[w] = {} /\ cur'[w] = 0
          /\ \A v \in Engines \ {w} : at'[v] = at[v] /\ queue'[v] = queue[v] /\ cur'[v] = cur[v]
        BY <2>1, <1>0 DEF StartCycle, Reconcile, ClaimNothing, QueueDone, Goto, EngineTypeOK,
                          Between, AtEvent
    <3> QED BY <3>1, <1>2, <1>3
  <2>2. ASSUME NEW S \in SUBSET Events, ClaimEvents(w, S) PROVE LoadsAreBatches'
    <3>1. /\ at'[w] = "work" /\ queue'[w] = S /\ cur'[w] = 0
          /\ \A v \in Engines \ {w} : at'[v] = at[v] /\ queue'[v] = queue[v] /\ cur'[v] = cur[v]
        BY <2>2, <1>0 DEF ClaimEvents, Claimable, Goto, EngineTypeOK, Between, AtEvent
    <3>2. Load(w)' = S /\ Cardinality(S) <= ClaimBatch
        BY <2>2, <3>1 DEF ClaimEvents, Claimable, Load
    <3>3. Fits(w)'
        BY <3>1, <3>2 DEF Between, AtEvent
    <3> QED BY <3>1, <3>3, <1>2
  <2>3. ASSUME NEW e \in Events, TakeEvent(w, e) PROVE LoadsAreBatches'
    <3>1. /\ at'[w] = "eval" /\ queue'[w] = queue[w] \ {e} /\ cur'[w] = e
          /\ e \in queue[w] /\ cur[w] = 0
          /\ \A v \in Engines \ {w} : at'[v] = at[v] /\ queue'[v] = queue[v] /\ cur'[v] = cur[v]
        BY <2>3, <1>0 DEF TakeEvent, Goto, EngineTypeOK, Between, AtEvent
    <3>2. Load(w)' = Load(w)
        BY <3>1 DEF Load
    <3>3. Fits(w)'
        BY <3>1, <3>2, <1>0 DEF Between, AtEvent
    <3> QED BY <3>1, <3>3, <1>2
  <2>4. CASE CommitEvent(w)
    <3>1. /\ at'[w] = "notify" /\ at[w] = "eval" /\ queue' = queue /\ cur' = cur
          /\ \A v \in Engines \ {w} : at'[v] = at[v]
        BY <2>4 DEF CommitEvent, Goto, EngineTypeOK
    <3>2. Fits(w)'
        BY <3>1, <1>0 DEF Between, AtEvent, Load
    <3> QED BY <3>1, <3>2, <1>2
  <2>5. CASE Notified(w) \/ MarkEventError(w)
    <3>1. /\ at'[w] = "work" /\ queue' = queue /\ cur'[w] = 0
          /\ \A v \in Engines \ {w} : at'[v] = at[v] /\ cur'[v] = cur[v]
        BY <2>5 DEF Notified, MarkEventError, LetGo, Goto, EngineTypeOK
    <3>2. Load(w)' \subseteq Load(w) /\ 0 \notin queue[w]
        BY <3>1 DEF Load, EngineTypeOK
    <3>3. Cardinality(Load(w)') <= Cardinality(Load(w))
        BY <3>2, <1>0, FS_Subset
    <3>4. Cardinality(Load(w)') \in Nat /\ Cardinality(Load(w)) \in Nat
        BY <3>2, <1>0, FS_Subset, FS_CardinalityType
    <3>5. Fits(w)'
        BY <3>1, <3>2, <3>3, <3>4, <1>0 DEF Between, AtEvent
    <3> QED BY <3>1, <3>5, <1>2
  <2> QED BY <1>7, <2>1, <2>2, <2>3, <2>4, <2>5 DEF EngineStep
<1>8. ASSUME NEW w \in Engines, FailEvent(w) \/ NotifyRaises(w) PROVE LoadsAreBatches'
  <2>1. /\ at'[w] = "fail" /\ at[w] \in AtEvent /\ queue' = queue /\ cur' = cur
        /\ \A v \in Engines \ {w} : at'[v] = at[v]
      BY <1>8 DEF FailEvent, NotifyRaises, Goto, EngineTypeOK, AtEvent
  <2>2. Fits(w)'
      BY <2>1, <1>0 DEF Between, AtEvent, Load
  <2> QED BY <2>1, <2>2, <1>2
<1>9. ASSUME NEW w \in Engines, ErrorIsLost(w) PROVE LoadsAreBatches'
  <2>1. /\ at'[w] = "work" /\ queue' = queue /\ cur'[w] = 0
        /\ \A v \in Engines \ {w} : at'[v] = at[v] /\ cur'[v] = cur[v]
      BY <1>9 DEF ErrorIsLost, LetGo, Goto, EngineTypeOK
  <2>2. Load(w)' \subseteq Load(w) /\ 0 \notin queue[w]
      BY <2>1 DEF Load, EngineTypeOK
  <2>3. Cardinality(Load(w)') <= Cardinality(Load(w))
      BY <2>2, <1>0, FS_Subset
  <2>4. Cardinality(Load(w)') \in Nat /\ Cardinality(Load(w)) \in Nat
      BY <2>2, <1>0, FS_Subset, FS_CardinalityType
  <2>5. Fits(w)'
      BY <2>1, <2>2, <2>3, <2>4, <1>0 DEF Between, AtEvent
  <2> QED BY <2>1, <2>5, <1>2
<1>10. ASSUME NEW w \in Engines, EngineDies(w) PROVE LoadsAreBatches'
  <2>1. /\ at'[w] \in Between /\ queue'[w] = {} /\ cur'[w] = 0
        /\ \A v \in Engines \ {w} : at'[v] = at[v] /\ queue'[v] = queue[v] /\ cur'[v] = cur[v]
      BY <1>10 DEF EngineDies, Goto, EngineTypeOK, Between
  <2> QED BY <2>1, <1>2, <1>3
<1> QED BY <1>4, <1>5, <1>6, <1>7, <1>8, <1>9, <1>10 DEF EngineNext

(* What a step that gives no worker an event leaves of the holders. *)
LEMMA HoldersShrink ==
    ASSUME NEW e \in Events, IsFiniteSet(Holders(e)), Holders(e)' \subseteq Holders(e)
    PROVE  /\ IsFiniteSet(Holders(e)')
           /\ Cardinality(Holders(e)') \in Nat /\ Cardinality(Holders(e)) \in Nat
           /\ Cardinality(Holders(e)') <= Cardinality(Holders(e))
           /\ Holders(e) = {} => Cardinality(Holders(e)) = 0
    BY FS_Subset, FS_CardinalityType, FS_EmptySet

(* A row that is not touched owes no more than before, and one that is      *)
(* owes at most one evaluation more.                                         *)
LEMMA OwedFalls ==
    ASSUME NEW e \in Events, IsFiniteSet(Holders(e)), Holders(e)' \subseteq Holders(e),
           estate'[e] = estate[e], e \in overdue' => e \in overdue
    PROVE  Owed(e)' <= Owed(e) /\ Owed(e)' \in Nat /\ Owed(e) \in Nat
<1>1. /\ Cardinality(Holders(e)') \in Nat /\ Cardinality(Holders(e)) \in Nat
      /\ Cardinality(Holders(e)') <= Cardinality(Holders(e))
    BY HoldersShrink
<1>2. Holders(e) # {} => Cardinality(Holders(e)) >= 1
    BY <1>1, FS_EmptySet
<1>3. Holders(e) = {} => Cardinality(Holders(e)) = 0 /\ Holders(e)' = {}
    BY FS_EmptySet
<1> QED BY <1>1, <1>2, <1>3 DEF Owed

LEMMA OwedByHolders ==
    ASSUME NEW e \in Events, IsFiniteSet(Holders(e))
    PROVE  /\ Owed(e) \in Nat /\ Cardinality(Holders(e)) \in Nat
           /\ Cardinality(Holders(e)) <= Owed(e) /\ Owed(e) <= Cardinality(Holders(e)) + 1
    BY FS_CardinalityType, FS_EmptySet DEF Owed

LEMMA EngineOwes == EngineInv /\ [EngineNext]_EngineVars => EvaluationsAreOwed'
<1> SUFFICES ASSUME EngineInv, [EngineNext]_EngineVars, NEW e \in Events
             PROVE  /\ IsFiniteSet(Holders(e)')
                    /\ evals'[e] + Owed(e)' <= 1 + overdues' + requeues'
    BY DEF EvaluationsAreOwed
<1> DEFINE Bounded == /\ IsFiniteSet(Holders(e)')
                      /\ evals'[e] + Owed(e)' <= 1 + overdues' + requeues'
<1>0. /\ EngineTypeOK /\ LoadsAreBatches /\ IsFiniteSet(Holders(e))
      /\ evals[e] + Owed(e) <= 1 + overdues + requeues
      /\ evals[e] \in Nat /\ overdues \in Nat /\ requeues \in Nat
      /\ Owed(e) \in Nat /\ Cardinality(Holders(e)) \in Nat
      /\ Cardinality(Holders(e)) <= Owed(e) /\ Owed(e) <= Cardinality(Holders(e)) + 1
    BY OwedByHolders DEF EngineInv, EvaluationsAreOwed, EngineTypeOK
<1>1. ASSUME Holders(e)' \subseteq Holders(e), estate'[e] = estate[e], e \in overdue' => e \in overdue,
             UNCHANGED <<evals, overdues, requeues>>
      PROVE  Bounded
  <2>1. IsFiniteSet(Holders(e)') /\ Owed(e)' <= Owed(e) /\ Owed(e)' \in Nat
      BY <1>0, <1>1, HoldersShrink, OwedFalls
  <2> QED BY <1>0, <1>1, <2>1
<1>2. ASSUME at' = at, queue' = queue, cur' = cur PROVE Holders(e)' = Holders(e)
    BY <1>2 DEF Holders
<1>3. ASSUME UNCHANGED <<at, queue, cur, evals>>,
             \/ overdues' = overdues + 1 /\ requeues' = requeues
             \/ overdues' = overdues /\ requeues' = requeues + 1
      PROVE  Bounded
  <2>1. Holders(e)' = Holders(e)
      BY <1>2, <1>3
  <2>2. IsFiniteSet(Holders(e)') /\ Owed(e)' \in Nat /\ Owed(e)' <= Cardinality(Holders(e)) + 1
      BY <1>0, <2>1, FS_EmptySet DEF Owed
  <2> QED BY <1>0, <1>3, <2>2
<1>4. ASSUME NEW S \in SUBSET Events \ {{}}, ParserInsert(S) PROVE Bounded
  <2>1. Holders(e)' = Holders(e)
      BY <1>2, <1>4 DEF ParserInsert, loop
  <2>2. Owed(e)' = Owed(e)
      BY <1>4, <2>1 DEF ParserInsert, Owed
  <2> QED BY <1>0, <1>4, <2>1, <2>2 DEF ParserInsert, spent
<1>5. CASE ParserEnd \/ ParserDies \/ ParserRetries \/ (\E d \in Events : Lapses(d))
           \/ UNCHANGED EngineVars
  <2>1. UNCHANGED <<at, queue, cur, estate, overdue, evals, overdues, requeues>>
      BY <1>5 DEF ParserEnd, ParserDies, ParserRetries, Lapses, EngineVars, eventRows, loop, spent
  <2> QED BY <1>1, <1>2, <2>1
<1>6. CASE UiRequeueErrors \/ \E b \in BOOLEAN : UiRequeueUpload(b)
    BY <1>3, <1>6 DEF UiRequeueErrors, UiRequeueUpload, loop
<1>7. ASSUME NEW d \in Events, Ages(d) PROVE Bounded
  <2>1. CASE Held(d)
      BY <1>3, <1>7, <2>1 DEF Ages, loop
  <2>2. CASE ~Held(d)
    <3>1. UNCHANGED <<at, queue, cur, estate, evals, overdues, requeues>> /\ overdue' = overdue \cup {d}
        BY <1>7, <2>2 DEF Ages, loop
    <3>2. CASE d = e
      <4>1. Holders(e) = {} /\ Holders(e)' = {}
          BY <1>2, <2>2, <3>1, <3>2 DEF Held, Holders
      <4>2. Owed(e)' = Owed(e)
          BY <1>7, <3>1, <3>2, <4>1, FS_EmptySet DEF Owed, Ages
      <4> QED BY <1>0, <3>1, <4>1, <4>2
    <3>3. CASE d # e
        BY <1>1, <1>2, <3>1, <3>3
    <3> QED BY <3>2, <3>3
  <2> QED BY <2>1, <2>2
<1>8. ASSUME NEW w \in Engines, EngineStep(w) PROVE Bounded
  <2>1. CASE StartCycle(w)
    <3>1. Holders(e)' = Holders(e)
        BY <1>0, <2>1 DEF StartCycle, Goto, Holders, EngineTypeOK
    <3>2. UNCHANGED <<evals, overdues, requeues>>
        BY <2>1 DEF StartCycle, spent
    <3>3. Owed(e)' = Owed(e)
      <4>1. CASE e \in Requeued /\ estate[e] = "processing"
        <5>1. e \in overdue
            BY <4>1 DEF Requeued
        <5>2. estate'[e] = "pending"
            BY <2>1, <4>1 DEF StartCycle, PutBack
        <5> QED BY <3>1, <4>1, <5>1, <5>2 DEF Owed
      <4>2. CASE ~(e \in Requeued /\ estate[e] = "processing")
        <5>1. estate'[e] = estate[e] /\ (e \in overdue' <=> e \in overdue)
            BY <2>1, <4>2 DEF StartCycle, PutBack
        <5> QED BY <3>1, <5>1 DEF Owed
      <4> QED BY <4>1, <4>2
    <3> QED BY <1>0, <3>1, <3>2, <3>3
  <2>2. CASE Reconcile(w) \/ ClaimNothing(w) \/ QueueDone(w) \/ Notified(w)
    <3>1. UNCHANGED <<estate, overdue, evals, overdues, requeues>>
        BY <2>2 DEF Reconcile, ClaimNothing, QueueDone, Notified, eventRows, spent
    <3>2. Holders(e)' \subseteq Holders(e)
        BY <1>0, <2>2 DEF Reconcile, ClaimNothing, QueueDone, Notified, LetGo, Goto, Holders, EngineTypeOK
    <3> QED BY <1>1, <3>1, <3>2
  <2>3. ASSUME NEW S \in SUBSET Events, ClaimEvents(w, S) PROVE Bounded
    <3>1. UNCHANGED <<cur, evals, overdues, requeues>> /\ overdue' = overdue \ S
        BY <2>3 DEF ClaimEvents, Claimable, spent
    <3>2. CASE e \in S
      <4>1. Holders(e)' \subseteq Holders(e) \cup {w}
          BY <1>0, <2>3 DEF ClaimEvents, Claimable, Goto, Holders, EngineTypeOK
      <4>2. /\ IsFiniteSet(Holders(e) \cup {w})
            /\ Cardinality(Holders(e) \cup {w}) <= Cardinality(Holders(e)) + 1
        <5>1. \/ Cardinality(Holders(e) \cup {w}) = Cardinality(Holders(e))
              \/ Cardinality(Holders(e) \cup {w}) = Cardinality(Holders(e)) + 1
            BY <1>0, FS_AddElement
        <5> QED BY <1>0, <5>1, FS_AddElement
      <4>3. /\ IsFiniteSet(Holders(e)')
            /\ Cardinality(Holders(e)') <= Cardinality(Holders(e) \cup {w})
          BY <4>1, <4>2, FS_Subset
      <4>4. Cardinality(Holders(e)') \in Nat /\ Cardinality(Holders(e) \cup {w}) \in Nat
          BY <4>2, <4>3, FS_CardinalityType
      <4>5. estate[e] = "pending" /\ estate'[e] = "processing" /\ e \notin overdue'
          BY <2>3, <3>1, <3>2 DEF ClaimEvents, Claimable
      <4>6. Owed(e) = Cardinality(Holders(e)) + 1 /\ Owed(e)' <= Cardinality(Holders(e)) + 1
            /\ Owed(e)' \in Nat
          BY <1>0, <4>2, <4>3, <4>4, <4>5 DEF Owed
      <4> QED BY <1>0, <3>1, <4>3, <4>6
    <3>3. CASE e \notin S
      <4>1. Holders(e)' \subseteq Holders(e)
          BY <1>0, <2>3, <3>3 DEF ClaimEvents, Claimable, Goto, Holders, EngineTypeOK
      <4>2. estate'[e] = estate[e]
          BY <2>3, <3>3 DEF ClaimEvents, Claimable
      <4> QED BY <1>1, <3>1, <4>1, <4>2
    <3> QED BY <3>2, <3>3
  <2>4. ASSUME NEW d \in Events, TakeEvent(w, d) PROVE Bounded
    <3>1. UNCHANGED <<estate, overdue, evals, overdues, requeues>>
        BY <2>4 DEF TakeEvent, eventRows, spent
    <3>2. Holders(e)' \subseteq Holders(e)
        BY <1>0, <2>4 DEF TakeEvent, Goto, Holders, EngineTypeOK
    <3> QED BY <1>1, <3>1, <3>2
  <2>5. CASE CommitEvent(w)
    <3>1. /\ UNCHANGED <<queue, cur, overdues, requeues>> /\ overdue' = overdue \ {cur[w]}
          /\ at[w] = "eval" /\ at' = [at EXCEPT ![w] = "notify"]
          /\ estate' = [estate EXCEPT ![cur[w]] = "done"]
          /\ evals' = [evals EXCEPT ![cur[w]] = @ + 1]
        BY <2>5 DEF CommitEvent, Goto, spent
    <3>2. CASE cur[w] = e
      <4>1. w \in Holders(e) /\ e \notin queue[w]
          BY <1>0, <3>1, <3>2 DEF Holders, LoadsAreBatches
      <4>2. Holders(e)' = Holders(e) \ {w}
          BY <1>0, <3>1, <4>1 DEF Holders, EngineTypeOK
      <4>3. IsFiniteSet(Holders(e)') /\ Cardinality(Holders(e)') = Cardinality(Holders(e)) - 1
          BY <1>0, <4>1, <4>2, FS_RemoveElement
      <4>4. estate'[e] = "done" /\ evals'[e] = evals[e] + 1
          BY <1>0, <3>1, <3>2 DEF EngineTypeOK
      <4>5. Owed(e)' = Cardinality(Holders(e)) - 1
          BY <4>3, <4>4 DEF Owed
      <4> QED BY <1>0, <3>1, <4>3, <4>4, <4>5
    <3>3. CASE cur[w] # e
      <4>1. Holders(e)' = Holders(e)
          BY <1>0, <3>1, <3>3 DEF Holders, EngineTypeOK
      <4>2. estate'[e] = estate[e] /\ evals'[e] = evals[e] /\ (e \in overdue' <=> e \in overdue)
          BY <1>0, <3>1, <3>3 DEF EngineTypeOK
      <4>3. Owed(e)' = Owed(e)
          BY <4>1, <4>2 DEF Owed
      <4> QED BY <1>0, <3>1, <4>1, <4>2, <4>3
    <3> QED BY <3>2, <3>3
  <2>6. CASE MarkEventError(w)
    <3>1. UNCHANGED <<evals, overdues, requeues>> /\ overdue' = overdue \ {cur[w]}
          /\ estate' = [estate EXCEPT ![cur[w]] = "error"]
        BY <2>6 DEF MarkEventError, spent
    <3>2. Holders(e)' \subseteq Holders(e)
        BY <1>0, <2>6 DEF MarkEventError, LetGo, Goto, Holders, EngineTypeOK
    <3>3. CASE cur[w] = e
      <4>1. estate'[e] = "error"
          BY <1>0, <3>1, <3>3 DEF EngineTypeOK
      <4>2. /\ IsFiniteSet(Holders(e)') /\ Cardinality(Holders(e)') \in Nat
            /\ Cardinality(Holders(e)') <= Cardinality(Holders(e))
          BY <1>0, <3>2, HoldersShrink
      <4>3. Owed(e)' = Cardinality(Holders(e)')
          BY <4>1 DEF Owed
      <4> QED BY <1>0, <3>1, <4>2, <4>3
    <3>4. CASE cur[w] # e
        BY <1>0, <1>1, <3>1, <3>2, <3>4 DEF EngineTypeOK
    <3> QED BY <3>3, <3>4
  <2> QED BY <1>8, <2>1, <2>2, <2>3, <2>4, <2>5, <2>6 DEF EngineStep
<1>9. ASSUME NEW w \in Engines, FailEvent(w) \/ NotifyRaises(w) \/ ErrorIsLost(w) \/ EngineDies(w)
      PROVE  Bounded
  <2>1. UNCHANGED <<estate, overdue, evals, overdues, requeues>>
      BY <1>9 DEF FailEvent, NotifyRaises, ErrorIsLost, EngineDies, eventRows
  <2>2. Holders(e)' \subseteq Holders(e)
    <3>1. CASE FailEvent(w) \/ NotifyRaises(w)
        BY <1>0, <3>1 DEF FailEvent, NotifyRaises, Goto, Holders, EngineTypeOK
    <3>2. CASE ErrorIsLost(w)
        BY <1>0, <3>2 DEF ErrorIsLost, LetGo, Goto, Holders, EngineTypeOK
    <3>3. CASE EngineDies(w)
        BY <1>0, <3>3 DEF EngineDies, Goto, Holders, EngineTypeOK
    <3> QED BY <1>9, <3>1, <3>2, <3>3
  <2> QED BY <1>1, <2>1, <2>2
<1> QED BY <1>4, <1>5, <1>6, <1>7, <1>8, <1>9 DEF EngineNext

(* The rows of the events, the workers of the engine and the parser keep     *)
(* their types.                                                              *)
THEOREM EngineTypeCorrect == EngineSpec => []EngineTypeOK
<1>1. EngineInv /\ [EngineNext]_EngineVars => EngineInv'
    BY EngineTypes, EngineLoads, EngineOwes DEF EngineInv
<1>2. EngineInv => EngineTypeOK
    BY DEF EngineInv
<1> QED BY <1>1, <1>2, EngineInitOK, PTL DEF EngineSpec

(* However many workers, events and requeues: an event is evaluated once,   *)
(* and once more at most for every claim that outlived the limit in a live   *)
(* worker and every requeue of the operator.                                 *)
THEOREM TroubleRepeats == EngineSpec => []RepeatsNeedTrouble
<1>1. EngineInv /\ [EngineNext]_EngineVars => EngineInv'
    BY EngineTypes, EngineLoads, EngineOwes DEF EngineInv
<1>2. EngineInv => RepeatsNeedTrouble
  <2> SUFFICES ASSUME EngineInv, NEW e \in Events PROVE evals[e] <= 1 + overdues + requeues
      BY DEF RepeatsNeedTrouble
  <2>1. Owed(e) \in Nat /\ evals[e] + Owed(e) <= 1 + overdues + requeues
      BY OwedByHolders DEF EngineInv, EvaluationsAreOwed
  <2> QED BY <2>1 DEF EngineInv, EngineTypeOK
<1> QED BY <1>1, <1>2, EngineInitOK, PTL DEF EngineSpec

(* Claimed events that nobody will settle: a worker that has committed its  *)
(* event and is notifying no longer counts.                                  *)
Adrift == {e \in Events : /\ estate[e] = "processing"
                          /\ \A w \in Engines : e \notin queue[w] /\ (cur[w] = e => at[w] = "notify")}

AdriftNeedFaults == Cardinality(Adrift) <= faults * ClaimBatch

LEMMA AdriftIsFinite == IsFiniteSet(Adrift)
    BY EngineAssumption, FS_Subset DEF Adrift

(* Only a death or a lost mark sets events adrift, and only the worker's.   *)
LEMMA AdriftGrowsByFaults ==
    ASSUME EngineTypeOK, LoadsAreBatches, [EngineNext]_EngineVars
    PROVE  \/ Adrift' \subseteq Adrift /\ faults' \in {faults, faults + 1}
           \/ faults' = faults + 1 /\ \E w \in Engines : Adrift' \subseteq Adrift \cup Load(w)
<1> DEFINE Calmly == Adrift' \subseteq Adrift /\ faults' \in {faults, faults + 1}
           Lost(w) == faults' = faults + 1 /\ Adrift' \subseteq Adrift \cup Load(w)
<1>0. 0 \notin Events
    BY EngineAssumption
<1>1. ASSUME UNCHANGED <<at, queue, cur>>, \A e \in Events : estate'[e] = "processing" => estate[e] = "processing",
             faults' \in {faults, faults + 1}
      PROVE  Calmly
    BY <1>1 DEF Adrift
<1>2. ASSUME NEW S \in SUBSET Events \ {{}}, ParserInsert(S) PROVE Calmly
    BY <1>1, <1>2 DEF ParserInsert, loop, spent
<1>3. CASE ParserEnd \/ ParserDies \/ ParserRetries \/ (\E d \in Events : Lapses(d))
           \/ UNCHANGED EngineVars
  <2>1. UNCHANGED <<at, queue, cur, estate>> /\ faults' \in {faults, faults + 1}
      BY <1>3 DEF ParserEnd, ParserDies, ParserRetries, Lapses, EngineVars, eventRows, loop, spent
  <2> QED BY <1>1, <2>1
<1>4. CASE UiRequeueErrors \/ \E b \in BOOLEAN : UiRequeueUpload(b)
    BY <1>1, <1>4 DEF UiRequeueErrors, UiRequeueUpload, PutBack, loop
<1>5. ASSUME NEW e \in Events, Ages(e) PROVE Calmly
    BY <1>1, <1>5 DEF Ages, loop
<1>6. ASSUME NEW w \in Engines, EngineStep(w) PROVE Calmly
  <2>0. at[w] \in Between \cup {"work"} => cur[w] = 0
      BY <1>6 DEF LoadsAreBatches, Between, AtEvent
  <2>1. CASE StartCycle(w)
    <3>1. UNCHANGED <<queue, cur, faults>> /\ \A v \in Engines \ {w} : at'[v] = at[v]
        BY <2>1 DEF StartCycle, Goto, spent, EngineTypeOK
    <3>2. \A e \in Events : estate'[e] = "processing" => estate[e] = "processing"
        BY <2>1 DEF StartCycle, PutBack
    <3>3. cur[w] = 0
        BY <2>0, <2>1 DEF StartCycle, Between
    <3> QED BY <1>0, <3>1, <3>2, <3>3 DEF Adrift
  <2>2. CASE Reconcile(w) \/ ClaimNothing(w) \/ QueueDone(w)
    <3>1. UNCHANGED <<estate, queue, cur, faults>> /\ \A v \in Engines \ {w} : at'[v] = at[v]
        BY <2>2 DEF Reconcile, ClaimNothing, QueueDone, Goto, eventRows, spent, EngineTypeOK
    <3>2. cur[w] = 0
        BY <2>0, <2>2 DEF Reconcile, ClaimNothing, QueueDone, Between
    <3> QED BY <1>0, <3>1, <3>2 DEF Adrift
  <2>3. ASSUME NEW S \in SUBSET Events, ClaimEvents(w, S) PROVE Calmly
    <3>1. UNCHANGED <<cur, faults>> /\ queue' = [queue EXCEPT ![w] = S] /\ queue[w] = {} /\ cur[w] = 0
        BY <2>0, <2>3 DEF ClaimEvents, Claimable, spent, LoadsAreBatches, Between
    <3>2. \A v \in Engines \ {w} : at'[v] = at[v]
        BY <2>3 DEF ClaimEvents, Claimable, Goto, EngineTypeOK
    <3>3. \A e \in Events \ S : estate'[e] = estate[e]
        BY <2>3 DEF ClaimEvents, Claimable
    <3>4. ASSUME NEW e \in Adrift' PROVE e \in Adrift
      <4>1. e \in Events /\ e \notin S
          BY <3>1, <3>4 DEF Adrift, EngineTypeOK
      <4> QED BY <1>0, <3>1, <3>2, <3>3, <3>4, <4>1 DEF Adrift, EngineTypeOK
    <3> QED BY <3>1, <3>4
  <2>4. ASSUME NEW d \in Events, TakeEvent(w, d) PROVE Calmly
    <3>1. /\ UNCHANGED <<estate, faults>> /\ cur[w] = 0
          /\ queue' = [queue EXCEPT ![w] = @ \ {d}] /\ cur' = [cur EXCEPT ![w] = d]
          /\ at' = [at EXCEPT ![w] = "eval"]
        BY <2>0, <2>4 DEF TakeEvent, Goto, eventRows, spent
    <3>2. ASSUME NEW e \in Adrift' PROVE e \in Adrift
      <4>1. e \in Events /\ e # d
          BY <3>1, <3>2 DEF Adrift, EngineTypeOK
      <4> QED BY <1>0, <3>1, <3>2, <4>1 DEF Adrift, EngineTypeOK
    <3> QED BY <3>1, <3>2
  <2>5. CASE CommitEvent(w)
    <3>1. /\ UNCHANGED <<queue, cur, faults>> /\ at' = [at EXCEPT ![w] = "notify"]
          /\ estate' = [estate EXCEPT ![cur[w]] = "done"]
        BY <2>5 DEF CommitEvent, Goto, spent
    <3> QED BY <3>1 DEF Adrift, EngineTypeOK
  <2>6. CASE Notified(w)
    <3>1. /\ UNCHANGED <<estate, queue, faults>> /\ at[w] = "notify"
          /\ at' = [at EXCEPT ![w] = "work"] /\ cur' = [cur EXCEPT ![w] = 0]
        BY <2>6 DEF Notified, LetGo, Goto, eventRows, spent
    <3> QED BY <3>1 DEF Adrift, EngineTypeOK
  <2>7. CASE MarkEventError(w)
    <3>1. /\ UNCHANGED <<queue, faults>>
          /\ at' = [at EXCEPT ![w] = "work"] /\ cur' = [cur EXCEPT ![w] = 0]
          /\ estate' = [estate EXCEPT ![cur[w]] = "error"]
        BY <2>7 DEF MarkEventError, LetGo, Goto, spent
    <3>2. ASSUME NEW e \in Adrift' PROVE e \in Adrift
      <4>1. e \in Events /\ e # cur[w] /\ estate[e] = "processing"
          BY <3>1, <3>2 DEF Adrift, EngineTypeOK
      <4> QED BY <3>1, <3>2, <4>1 DEF Adrift, EngineTypeOK
    <3> QED BY <3>1, <3>2
  <2> QED BY <1>6, <2>1, <2>2, <2>3, <2>4, <2>5, <2>6, <2>7 DEF EngineStep
<1>7. ASSUME NEW w \in Engines, FailEvent(w) \/ NotifyRaises(w) PROVE Calmly
  <2>1. UNCHANGED <<estate, queue, cur>> /\ at' = [at EXCEPT ![w] = "fail"] /\ faults' = faults + 1
      BY <1>7 DEF FailEvent, NotifyRaises, Goto, eventRows
  <2> QED BY <2>1 DEF Adrift, EngineTypeOK
<1>8. ASSUME NEW w \in Engines, ErrorIsLost(w) \/ EngineDies(w) PROVE Lost(w)
  <2>1. /\ estate' = estate /\ faults' = faults + 1 /\ cur' = [cur EXCEPT ![w] = 0]
        /\ \A v \in Engines \ {w} : queue'[v] = queue[v] /\ at'[v] = at[v]
      BY <1>8 DEF ErrorIsLost, EngineDies, LetGo, Goto, eventRows, EngineTypeOK
  <2>2. ASSUME NEW e \in Adrift', e \notin Load(w) PROVE e \in Adrift
    <3>1. e \in Events /\ estate[e] = "processing"
        BY <2>1, <2>2 DEF Adrift
    <3>2. e \notin queue[w] /\ cur[w] # e
        BY <1>0, <2>2, <3>1 DEF Load
    <3>3. ASSUME NEW v \in Engines \ {w} PROVE e \notin queue[v] /\ (cur[v] = e => at[v] = "notify")
        BY <2>1, <2>2 DEF Adrift, EngineTypeOK
    <3> QED BY <3>1, <3>2, <3>3 DEF Adrift
  <2> QED BY <2>1, <2>2
<1> QED BY <1>2, <1>3, <1>4, <1>5, <1>6, <1>7, <1>8 DEF EngineNext

LEMMA AdriftStep == EngineInv /\ AdriftNeedFaults /\ [EngineNext]_EngineVars => AdriftNeedFaults'
<1> SUFFICES ASSUME EngineInv, AdriftNeedFaults, [EngineNext]_EngineVars PROVE AdriftNeedFaults'
    OBVIOUS
<1>1. /\ IsFiniteSet(Adrift) /\ IsFiniteSet(Adrift') /\ Cardinality(Adrift) \in Nat
      /\ Cardinality(Adrift') \in Nat /\ faults \in Nat /\ ClaimBatch \in Nat
  <2>1. IsFiniteSet(Adrift')
      BY EngineAssumption, FS_Subset DEF Adrift
  <2> QED BY <2>1, AdriftIsFinite, FS_CardinalityType, EngineAssumption DEF EngineInv, EngineTypeOK
<1>2. (faults + 1) * ClaimBatch = faults * ClaimBatch + ClaimBatch
    BY <1>1
<1>3. CASE Adrift' \subseteq Adrift /\ faults' \in {faults, faults + 1}
  <2>1. Cardinality(Adrift') <= Cardinality(Adrift)
      BY <1>1, <1>3, FS_Subset
  <2>2. faults * ClaimBatch \in Nat
      BY <1>1
  <2>3. Cardinality(Adrift') <= faults * ClaimBatch
      BY <1>1, <2>1, <2>2 DEF AdriftNeedFaults
  <2>4. CASE faults' = faults
      BY <2>3, <2>4, EngineAssumption DEF AdriftNeedFaults
  <2>5. CASE faults' = faults + 1
    <3>1. Cardinality(Adrift') <= (faults + 1) * ClaimBatch
        BY <1>1, <1>2, <2>2, <2>3
    <3> QED BY <2>5, <3>1 DEF AdriftNeedFaults
  <2> QED BY <1>3, <2>4, <2>5
<1>4. ASSUME NEW w \in Engines, faults' = faults + 1, Adrift' \subseteq Adrift \cup Load(w)
      PROVE  AdriftNeedFaults'
  <2>1. IsFiniteSet(Load(w)) /\ Cardinality(Load(w)) <= ClaimBatch
    <3>1. Load(w) \subseteq Events
        BY DEF EngineInv, EngineTypeOK, Load
    <3> QED BY <3>1, EngineAssumption, FS_Subset DEF EngineInv, LoadsAreBatches
  <2>2. /\ IsFiniteSet(Adrift \cup Load(w)) /\ Cardinality(Adrift \cup Load(w)) \in Nat
        /\ Cardinality(Load(w)) \in Nat /\ Cardinality(Adrift \cap Load(w)) \in Nat
        /\ Cardinality(Adrift \cup Load(w))
             = Cardinality(Adrift) + Cardinality(Load(w)) - Cardinality(Adrift \cap Load(w))
      BY <1>1, <2>1, FS_Union, FS_Intersection, FS_CardinalityType
  <2>3. Cardinality(Adrift') <= Cardinality(Adrift \cup Load(w))
      BY <1>4, <2>2, FS_Subset
  <2>4. faults * ClaimBatch \in Nat
      BY <1>1
  <2>5. Cardinality(Adrift') <= faults * ClaimBatch + ClaimBatch
      BY <1>1, <2>1, <2>2, <2>3, <2>4 DEF AdriftNeedFaults
  <2> QED BY <1>2, <1>4, <2>5 DEF AdriftNeedFaults
<1> QED BY <1>3, <1>4, AdriftGrowsByFaults DEF EngineInv

(* However many workers and whatever the batch: every death, failed          *)
(* transaction or failed notification leaves one claimed batch at most in    *)
(* processing with nobody on it.                                              *)
THEOREM FaultsStrandABatch == EngineSpec => []StrandedNeedFaults
<1>1. EngineInit => EngineInv /\ AdriftNeedFaults
  <2> SUFFICES ASSUME EngineInit PROVE AdriftNeedFaults
      BY EngineInitOK
  <2>1. Adrift = {}
      BY DEF EngineInit, Adrift
  <2> QED BY <2>1, FS_EmptySet, EngineAssumption DEF EngineInit, AdriftNeedFaults
<1>2. EngineInv /\ AdriftNeedFaults /\ [EngineNext]_EngineVars => EngineInv' /\ AdriftNeedFaults'
    BY EngineTypes, EngineLoads, EngineOwes, AdriftStep DEF EngineInv
<1>3. EngineInv /\ AdriftNeedFaults => StrandedNeedFaults
  <2> SUFFICES ASSUME EngineInv, AdriftNeedFaults PROVE StrandedNeedFaults
      OBVIOUS
  <2> DEFINE Stranded == {e \in Events : estate[e] = "processing" /\ ~Held(e)}
  <2>1. Stranded \subseteq Adrift
      BY DEF Held, Adrift
  <2>2. /\ Cardinality(Stranded) \in Nat /\ Cardinality(Adrift) \in Nat
        /\ Cardinality(Stranded) <= Cardinality(Adrift)
      BY <2>1, AdriftIsFinite, FS_Subset, FS_CardinalityType
  <2>3. faults * ClaimBatch \in Nat
      BY EngineAssumption DEF EngineInv, EngineTypeOK
  <2> QED BY <2>2, <2>3 DEF AdriftNeedFaults, StrandedNeedFaults
<1> QED BY <1>1, <1>2, <1>3, PTL DEF EngineSpec

-------------------------------------------------------------------------------
(* The audit log of ModSecurity *)

SessionSet == [txid : TxIds, section : Range(Sections), time : Nat, request : Nat, status : Nat]

(* A session tells of one transaction only, as far as it tells at all.      *)
TellsOf(s, tx) == {s.time, s.request, s.status} \subseteq {tx, Nothing}

(* No id has two sessions.                                                  *)
IdsAreSingle(open) == \A i, j \in DOMAIN open : open[i].txid = open[j].txid => i = j

AuditShape ==
    /\ writing \in [tx : Nat, txid : TxIds \cup {"none"}, at : 0 .. 6, forged : BOOLEAN]
    /\ sessions \in Seq(SessionSet)
    /\ IdsAreSingle(sessions)
    /\ writing.tx = 0 => sessions = <<>> /\ writing.txid = "none"
    /\ writing.tx > 0 => writing.txid \in TxIds /\ writing.at > 0

(* The transaction being written has the last session, and has it alone,    *)
(* until it is closed.                                                       *)
WritingIsLast ==
    /\ (writing.tx > 0 /\ writing.at <= 4) =>
         /\ sessions # <<>>
         /\ sessions[Len(sessions)].txid = writing.txid
         /\ sessions[Len(sessions)].section = Sections[writing.at]
         /\ TellsOf(sessions[Len(sessions)], writing.tx)
    /\ (writing.tx > 0 /\ writing.at > 4) => Known(sessions, writing.txid) = {}

(* A body that looks like markers may leave any sessions behind, one for    *)
(* each id: the next A starts a session of its own behind them.              *)
AuditInv == AuditShape /\ (~writing.forged => WritingIsLast) /\ AuditsAreWhole

(* What is left of a sequence without one of its elements.                  *)
LEMMA OneRemoved ==
    ASSUME NEW S, NEW s \in Seq(S), NEW i \in 1 .. Len(s)
    PROVE  /\ RemoveAt(s, i) \in Seq(S)
           /\ Len(RemoveAt(s, i)) = Len(s) - 1
           /\ \A j \in 1 .. Len(s) - 1 : RemoveAt(s, i)[j] = IF j < i THEN s[j] ELSE s[j + 1]
<1> DEFINE front == SubSeq(s, 1, i - 1)
           back == SubSeq(s, i + 1, Len(s))
<1>1. /\ front \in Seq(S) /\ Len(front) = i - 1
      /\ \A j \in 1 .. i - 1 : front[j] = s[j]
    OBVIOUS
<1>2. /\ back \in Seq(S) /\ Len(back) = Len(s) - i
      /\ \A j \in 1 .. Len(s) - i : back[j] = s[j + i]
    OBVIOUS
<1>3. RemoveAt(s, i) = front \o back
    BY DEF RemoveAt
<1> HIDE DEF front, back
<1>4. front \o back \in Seq(S) /\ Len(front \o back) = Len(s) - 1
    BY <1>1, <1>2
<1>5. ASSUME NEW j \in 1 .. Len(s) - 1
      PROVE  (front \o back)[j] = IF j < i THEN s[j] ELSE s[j + 1]
  <2>1. CASE j < i
      BY <1>1, <1>2, <2>1
  <2>2. CASE j >= i
    <3>1. (front \o back)[j] = back[j - (i - 1)]
        BY <1>1, <1>2, <2>2
    <3>2. j - (i - 1) \in 1 .. Len(s) - i /\ (j - (i - 1)) + i = j + 1
        BY <2>2
    <3>3. back[j - (i - 1)] = s[j + 1]
        BY <3>2, <1>2
    <3>4. ~(j < i)
        BY <2>2
    <3> QED
        BY <3>1, <3>3, <3>4, Zenon
  <2>3. j < i \/ j >= i
      OBVIOUS
  <2> QED
      BY <2>1, <2>2, <2>3, Zenon
<1> QED
    BY <1>3, <1>4, <1>5

(* A popped session is gone, and the others are still one for each id.      *)
LEMMA OnePopped ==
    ASSUME NEW open \in Seq(SessionSet), NEW txid,
           IdsAreSingle(open)
    PROVE  /\ Without(open, txid) \in Seq(SessionSet)
           /\ Known(Without(open, txid), txid) = {}
           /\ IdsAreSingle(Without(open, txid))
<1>1. CASE Known(open, txid) = {}
    BY <1>1 DEF Without
<1>2. CASE Known(open, txid) # {}
  <2> DEFINE k == CHOOSE i \in Known(open, txid) : TRUE
             rest == RemoveAt(open, k)
  <2>1. k \in 1 .. Len(open) /\ open[k].txid = txid
      BY <1>2 DEF Known
  <2>2. Without(open, txid) = rest
      BY <1>2 DEF Without
  <2> HIDE DEF k
  <2>3. /\ rest \in Seq(SessionSet) /\ Len(rest) = Len(open) - 1
        /\ \A j \in 1 .. Len(open) - 1 : rest[j] = IF j < k THEN open[j] ELSE open[j + 1]
      BY <2>1, OneRemoved
  <2> HIDE DEF rest
  <2>4. \A j \in DOMAIN rest : \E i \in DOMAIN open : i # k /\ i = (IF j < k THEN j ELSE j + 1) /\ rest[j] = open[i]
      BY <2>1, <2>3
  <2>5. Known(rest, txid) = {}
      BY <2>1, <2>4 DEF Known, IdsAreSingle
  <2>6. ASSUME NEW i \in DOMAIN rest, NEW j \in DOMAIN rest, rest[i].txid = rest[j].txid
        PROVE  i = j
      BY <2>4, <2>6, <2>1, <2>3 DEF IdsAreSingle
  <2> QED
      BY <2>2, <2>3, <2>5, <2>6 DEF IdsAreSingle
<1> QED
    BY <1>1, <1>2

(* A first marker of an id opens a session behind the others.               *)
LEMMA NewSession ==
    ASSUME NEW open \in Seq(SessionSet), NEW txid \in TxIds, NEW section \in Range(Sections),
           IdsAreSingle(open),
           Known(open, txid) = {},
           NEW after, after = Opened(open, txid, section)
    PROVE  /\ after \in Seq(SessionSet) /\ after # <<>>
           /\ after[Len(after)] = [AuditState(txid) EXCEPT !.section = section]
           /\ IdsAreSingle(after)
<1> DEFINE s == [AuditState(txid) EXCEPT !.section = section]
<1>1. s \in SessionSet /\ s.txid = txid
    BY DEF AuditState, SessionSet, Nothing
<1>2. after = Append(open, s)
    BY DEF Opened
<1>3. \A i \in DOMAIN open : open[i].txid # txid
    BY DEF Known
<1> HIDE DEF s
<1>4. /\ after \in Seq(SessionSet) /\ Len(after) = Len(open) + 1 /\ after[Len(after)] = s
      /\ \A i \in DOMAIN open : after[i] = open[i]
    BY <1>1, <1>2
<1>5. ASSUME NEW i \in DOMAIN after, NEW j \in DOMAIN after, after[i].txid = after[j].txid
      PROVE  i = j
  <2>1. (i \in DOMAIN open \/ i = Len(after)) /\ (j \in DOMAIN open \/ j = Len(after))
      BY <1>4
  <2> QED
      BY <2>1, <1>1, <1>3, <1>4, <1>5 DEF IdsAreSingle
<1> QED
    BY <1>4, <1>5 DEF s, IdsAreSingle

(* A later marker of an id moves its session to another section.            *)
LEMMA SameSession ==
    ASSUME NEW open \in Seq(SessionSet), NEW txid \in TxIds, NEW section \in Range(Sections),
           IdsAreSingle(open),
           open # <<>>, open[Len(open)].txid = txid
    PROVE  LET after == Opened(open, txid, section)
           IN  /\ after \in Seq(SessionSet) /\ after # <<>>
               /\ after[Len(after)] = [open[Len(open)] EXCEPT !.section = section]
               /\ IdsAreSingle(after)
<1> DEFINE after == Opened(open, txid, section)
<1>1. Len(open) \in DOMAIN open
    OBVIOUS
<1>2. after = [i \in DOMAIN open |->
                 IF open[i].txid = txid THEN [open[i] EXCEPT !.section = section] ELSE open[i]]
    BY <1>1 DEF Opened, Known
<1>3. ASSUME NEW i \in DOMAIN open
      PROVE  open[i] \in SessionSet /\ after[i] \in SessionSet /\ after[i].txid = open[i].txid
  <2>1. open[i] \in SessionSet
      OBVIOUS
  <2>2. after[i] = IF open[i].txid = txid THEN [open[i] EXCEPT !.section = section] ELSE open[i]
      BY <1>2
  <2> QED
      BY <2>1, <2>2 DEF SessionSet
<1> HIDE DEF after
<1>4. after \in Seq(SessionSet) /\ Len(after) = Len(open) /\ DOMAIN after = DOMAIN open
    BY <1>2, <1>3
<1>5. after[Len(open)] = [open[Len(open)] EXCEPT !.section = section]
    BY <1>1, <1>2
<1>6. ASSUME NEW i \in DOMAIN after, NEW j \in DOMAIN after, after[i].txid = after[j].txid
      PROVE  i = j
    BY <1>3, <1>4, <1>6 DEF IdsAreSingle
<1>7. after # <<>>
    BY <1>1, <1>4
<1>8. IdsAreSingle(after)
    BY <1>6 DEF IdsAreSingle
<1>9. after[Len(after)] = [open[Len(open)] EXCEPT !.section = section]
    BY <1>4, <1>5
<1> QED
    BY <1>4, <1>7, <1>8, <1>9 DEF after

(* Whatever the marker, the sessions stay one for each id.                  *)
LEMMA MarkerKeepsShape ==
    ASSUME NEW txid \in TxIds, NEW section \in Range(Sections),
           sessions \in Seq(SessionSet), IdsAreSingle(sessions), ReadMarker(txid, section)
    PROVE  sessions' \in Seq(SessionSet) /\ IdsAreSingle(sessions')
<1> DEFINE before == SessionsAt(txid, section)
           open == Opened(before, txid, section)
<1>1. before \in Seq(SessionSet) /\ IdsAreSingle(before)
    BY OnePopped DEF SessionsAt
<1> HIDE DEF before
<1>2. open \in Seq(SessionSet) /\ IdsAreSingle(open)
  <2>1. CASE Known(before, txid) = {}
      BY <1>1, <2>1, NewSession
  <2>2. CASE Known(before, txid) # {}
    <3>1. open = [i \in DOMAIN before |->
                    IF before[i].txid = txid THEN [before[i] EXCEPT !.section = section]
                    ELSE before[i]]
        BY <2>2 DEF Opened
    <3>2. ASSUME NEW i \in DOMAIN before
          PROVE  open[i] \in SessionSet /\ open[i].txid = before[i].txid
      <4>1. before[i] \in SessionSet
          BY <1>1
      <4>2. open[i] = IF before[i].txid = txid THEN [before[i] EXCEPT !.section = section]
                      ELSE before[i]
          BY <3>1
      <4> QED BY <4>1, <4>2 DEF SessionSet
    <3> HIDE DEF open
    <3>3. open \in Seq(SessionSet) /\ DOMAIN open = DOMAIN before
        BY <1>1, <3>1, <3>2
    <3> QED BY <1>1, <3>2, <3>3 DEF IdsAreSingle
  <2> QED BY <2>1, <2>2
<1> HIDE DEF open
<1>3. Without(open, txid) \in Seq(SessionSet) /\ IdsAreSingle(Without(open, txid))
    BY <1>2, OnePopped
<1>4. sessions' \in {open, Without(open, txid)}
    BY DEF ReadMarker, open, before
<1> QED BY <1>2, <1>3, <1>4

LEMMA AuditInitOK == AuditInit => AuditInv
BY AuditAssumption DEF IdsAreSingle, AuditInit, AuditInv, AuditShape, WritingIsLast, AuditsAreWhole

(* A session that tells of a transaction makes an event that does.          *)
LEMMA FlushTells ==
    ASSUME NEW s, NEW tx, TellsOf(s, tx)
    PROVE  LET a == Flushed(s)
           IN  a # NoAudit => {a.time, a.request, a.status} \subseteq {tx, Nothing}
BY DEF Flushed, TellsOf

(* A marker makes the last session that of its id, and closes it or not.    *)
LEMMA MarkerStep ==
    ASSUME NEW txid \in TxIds, NEW n \in 1 .. 6, ReadMarker(txid, Sections[n]),
           NEW open \in Seq(SessionSet), open = Opened(SessionsAt(txid, Sections[n]), txid, Sections[n]),
           IdsAreSingle(open),
           open # <<>>, open[Len(open)].txid = txid, open[Len(open)].section = Sections[n],
           NEW tx \in Nat \ {0}, TellsOf(open[Len(open)], tx),
           writing' = [tx |-> tx, txid |-> txid, at |-> n, forged |-> FALSE]
    PROVE  AuditInv'
<1>1. CASE n <= 4
  <2>1. Sections[n] \notin {"H", "Z"}
      BY <1>1 DEF Sections
  <2>2. audit' = NoAudit /\ sessions' = open
      BY <2>1 DEF ReadMarker
  <2>3. AuditShape'
      BY <2>2 DEF AuditShape, IdsAreSingle
  <2>4. WritingIsLast'
      BY <2>2, <1>1 DEF WritingIsLast, TellsOf
  <2> QED
      BY <2>2, <2>3, <2>4 DEF AuditInv, AuditsAreWhole
<1>2. CASE n > 4
  <2>1. Sections[n] \in {"H", "Z"}
      BY <1>2 DEF Sections
  <2>2. Known(open, txid) = {Len(open)}
      BY DEF Known, IdsAreSingle
  <2>3. audit' = Flushed(open[Len(open)]) /\ sessions' = Without(open, txid)
      BY <2>1, <2>2 DEF ReadMarker
  <2>4. AuditShape'
      BY <2>3, OnePopped DEF AuditShape
  <2>5. WritingIsLast'
      BY <2>3, <1>2, OnePopped DEF WritingIsLast, Known
  <2>6. AuditsAreWhole'
      BY <2>3, FlushTells DEF AuditsAreWhole
  <2> QED
      BY <2>4, <2>5, <2>6 DEF AuditInv
<1> QED
    BY <1>1, <1>2

LEMMA AuditStep == AuditInv /\ [AuditNext]_auditVars => AuditInv'
<1> SUFFICES ASSUME AuditInv, [AuditNext]_auditVars PROVE AuditInv'
    OBVIOUS
<1>0. /\ \A n \in 1 .. 6 : Sections[n] \in Range(Sections) /\ (Sections[n] = "A" <=> n = 1)
      /\ DOMAIN Sections = 1 .. 6
    BY DEF Sections, Range
<1>00. /\ sessions \in Seq(SessionSet)
       /\ IdsAreSingle(sessions)
    BY DEF AuditInv, AuditShape
(* A later section of the transaction being written.                        *)
<1>1. ASSUME NEW txid \in TxIds, NEW n \in 1 .. 6, ReadMarker(txid, Sections[n]),
             txid = writing.txid, n > writing.at, writing' = [writing EXCEPT !.at = n]
      PROVE  AuditInv'
  <2>0. CASE writing.forged
    <3>1. sessions' \in Seq(SessionSet) /\ IdsAreSingle(sessions')
        BY <1>0, <1>00, <1>1, MarkerKeepsShape
    <3>2. /\ writing'.forged /\ writing' \in [tx : Nat, txid : TxIds \cup {"none"}, at : 0 .. 6,
                                            forged : BOOLEAN]
          /\ writing'.tx = writing.tx /\ writing'.at = n /\ writing'.txid \in TxIds
          /\ writing.tx > 0
        BY <1>1, <2>0, AuditAssumption DEF AuditInv, AuditShape
    <3> QED BY <1>1, <3>1, <3>2 DEF AuditInv, AuditShape, AuditsAreWhole
  <2> SUFFICES ASSUME ~writing.forged PROVE AuditInv'
      BY <2>0
  <2>1. writing.tx \in Nat \ {0} /\ writing.at \in 1 .. 5 /\ n # 1
      BY <1>1, AuditAssumption DEF AuditInv, AuditShape
  <2>2. SessionsAt(txid, Sections[n]) = sessions
      BY <2>1, <1>0 DEF SessionsAt
  <2>3. writing' = [tx |-> writing.tx, txid |-> txid, at |-> n, forged |-> FALSE]
      BY <1>1 DEF AuditInv, AuditShape
  <2> DEFINE open == Opened(sessions, txid, Sections[n])
  <2>4. CASE writing.at <= 4
    <3>1. /\ sessions # <<>> /\ sessions[Len(sessions)].txid = txid
          /\ TellsOf(sessions[Len(sessions)], writing.tx)
        BY <1>1, <2>1, <2>4 DEF AuditInv, WritingIsLast
    <3>2. /\ open \in Seq(SessionSet) /\ open # <<>>
          /\ open[Len(open)] = [sessions[Len(sessions)] EXCEPT !.section = Sections[n]]
          /\ IdsAreSingle(open)
      <4>1. Sections[n] \in Range(Sections)
          BY <1>0
      <4> QED
          BY <3>1, <4>1, <1>00, SameSession
    <3>3. sessions[Len(sessions)] \in SessionSet
        BY <3>1, <1>00
    <3>4. /\ open[Len(open)].txid = txid /\ open[Len(open)].section = Sections[n]
          /\ TellsOf(open[Len(open)], writing.tx)
        BY <3>1, <3>2, <3>3 DEF SessionSet, TellsOf
    <3> QED
        BY <1>1, <2>1, <2>2, <2>3, <3>2, <3>4, MarkerStep
  <2>5. CASE writing.at > 4
    <3>1. Known(sessions, txid) = {}
        BY <1>1, <2>1, <2>5 DEF AuditInv, WritingIsLast
    <3>2. /\ open \in Seq(SessionSet) /\ open # <<>>
          /\ open[Len(open)] = [AuditState(txid) EXCEPT !.section = Sections[n]]
          /\ IdsAreSingle(open)
        BY <3>1, <1>0, <1>00, NewSession
    <3>3. /\ open[Len(open)].txid = txid /\ open[Len(open)].section = Sections[n]
          /\ TellsOf(open[Len(open)], writing.tx)
        BY <3>2 DEF AuditState, TellsOf
    <3> QED
        BY <1>1, <2>1, <2>2, <2>3, <3>2, <3>3, MarkerStep
  <2> QED
      BY <2>1, <2>4, <2>5
(* The next transaction: from its A on, or the file's first from anywhere.  *)
<1>2. ASSUME NEW txid \in TxIds, NEW n \in 1 .. 6, ReadMarker(txid, Sections[n]),
             n = 1 \/ writing.tx = 0,
             writing' = [tx |-> writing.tx + 1, txid |-> txid, at |-> n, forged |-> FALSE]
      PROVE  AuditInv'
  <2> DEFINE before == SessionsAt(txid, Sections[n])
             open == Opened(before, txid, Sections[n])
  <2>1. /\ before \in Seq(SessionSet)
        /\ IdsAreSingle(before)
        /\ Known(before, txid) = {}
    <3>1. CASE n = 1
      <4>1. before = Without(sessions, txid)
          BY <3>1, <1>0 DEF SessionsAt
      <4> QED
          BY <4>1, <1>00, OnePopped
    <3>2. CASE n # 1
      <4>1. before = <<>>
          BY <3>2, <1>0, <1>2 DEF SessionsAt, AuditInv, AuditShape
      <4> QED
          BY <4>1 DEF Known, IdsAreSingle
    <3> QED
        BY <3>1, <3>2
  <2> HIDE DEF before
  <2>2. /\ open \in Seq(SessionSet) /\ open # <<>>
        /\ open[Len(open)] = [AuditState(txid) EXCEPT !.section = Sections[n]]
        /\ IdsAreSingle(open)
      BY <2>1, <1>0, NewSession
  <2>3. writing.tx + 1 \in Nat \ {0}
      BY DEF AuditInv, AuditShape
  <2>4. /\ open[Len(open)].txid = txid /\ open[Len(open)].section = Sections[n]
        /\ TellsOf(open[Len(open)], writing.tx + 1)
      BY <2>2 DEF AuditState, TellsOf
  <2>5. open = Opened(SessionsAt(txid, Sections[n]), txid, Sections[n])
      BY DEF before
  <2> HIDE DEF open
  <2> QED
      BY <1>2, <2>2, <2>3, <2>4, <2>5, MarkerStep
(* A line of the section being written.                                     *)
<1>3. CASE ContentLine
  <2>1. PICK text \in LinesOf(Sections[writing.at]) : ReadContent(text)
      BY <1>3 DEF ContentLine
  <2>2. audit' = NoAudit /\ writing' = writing /\ writing.tx \in Nat \ {0} /\ writing.at \in 1 .. 6
      BY <1>3, <2>1 DEF ContentLine, ReadContent, AuditInv, AuditShape
  <2> DEFINE last == Len(sessions)
  <2>3. CASE sessions' = sessions
    <3>1. Known(sessions, writing.txid)' = Known(sessions, writing.txid)
        BY <2>2, <2>3 DEF Known
    <3> QED
        BY <2>2, <2>3, <3>1 DEF AuditInv, AuditShape, WritingIsLast, AuditsAreWhole, TellsOf, IdsAreSingle
  <2>4. CASE sessions' # sessions
    <3>1. /\ last > 0 /\ text # "text"
          /\ \/ sessions' = [sessions EXCEPT ![last].time = writing.tx]
             \/ sessions' = [sessions EXCEPT ![last].request = writing.tx]
             \/ sessions' = [sessions EXCEPT ![last].status = writing.tx]
        BY <2>1, <2>4 DEF ReadContent
    <3>2. writing.at <= 4
        BY <2>1, <2>2, <3>1 DEF LinesOf, Sections
    <3>3. /\ sessions[last] \in SessionSet /\ last \in DOMAIN sessions
          /\ ~writing.forged => /\ sessions[last].txid = writing.txid
                               /\ sessions[last].section = Sections[writing.at]
                               /\ TellsOf(sessions[last], writing.tx)
        BY <2>2, <3>1, <3>2, <1>00 DEF AuditInv, WritingIsLast
    <3>4. PICK s : /\ sessions' = [sessions EXCEPT ![last] = s]
                   /\ s \in SessionSet
                   /\ s.txid = sessions[last].txid
                   /\ ~writing.forged => /\ s.section = Sections[writing.at]
                                        /\ TellsOf(s, writing.tx)
      <4>1. CASE sessions' = [sessions EXCEPT ![last].time = writing.tx]
        <5> DEFINE told == [sessions[last] EXCEPT !.time = writing.tx]
        <5>1. /\ told \in SessionSet /\ told.txid = sessions[last].txid
              /\ ~writing.forged => /\ told.section = Sections[writing.at]
                                   /\ TellsOf(told, writing.tx)
            BY <2>2, <3>3 DEF SessionSet, TellsOf
        <5>2. sessions' = [sessions EXCEPT ![last] = told]
            BY <4>1
        <5> QED
            BY <5>1, <5>2
      <4>2. CASE sessions' = [sessions EXCEPT ![last].request = writing.tx]
        <5> DEFINE told == [sessions[last] EXCEPT !.request = writing.tx]
        <5>1. /\ told \in SessionSet /\ told.txid = sessions[last].txid
              /\ ~writing.forged => /\ told.section = Sections[writing.at]
                                   /\ TellsOf(told, writing.tx)
            BY <2>2, <3>3 DEF SessionSet, TellsOf
        <5>2. sessions' = [sessions EXCEPT ![last] = told]
            BY <4>2
        <5> QED
            BY <5>1, <5>2
      <4>3. CASE sessions' = [sessions EXCEPT ![last].status = writing.tx]
        <5> DEFINE told == [sessions[last] EXCEPT !.status = writing.tx]
        <5>1. /\ told \in SessionSet /\ told.txid = sessions[last].txid
              /\ ~writing.forged => /\ told.section = Sections[writing.at]
                                   /\ TellsOf(told, writing.tx)
            BY <2>2, <3>3 DEF SessionSet, TellsOf
        <5>2. sessions' = [sessions EXCEPT ![last] = told]
            BY <4>3
        <5> QED
            BY <5>1, <5>2
      <4> QED
          BY <3>1, <4>1, <4>2, <4>3
    <3>5. /\ sessions' \in Seq(SessionSet) /\ Len(sessions') = last /\ sessions'[last] = s
          /\ \A i \in DOMAIN sessions : sessions'[i].txid = sessions[i].txid
          /\ DOMAIN sessions' = DOMAIN sessions
        BY <1>00, <3>3, <3>4
    <3>6. AuditShape'
        BY <2>2, <3>5, <1>00 DEF AuditInv, AuditShape, IdsAreSingle
    <3>7. ~writing.forged => WritingIsLast'
        BY <2>2, <3>2, <3>3, <3>4, <3>5 DEF WritingIsLast, TellsOf
    <3> QED
        BY <2>2, <3>6, <3>7 DEF AuditInv, AuditsAreWhole
  <2> QED
      BY <2>3, <2>4
(* A body line that looks like a marker.                                    *)
<1>5. CASE ForgedLine
  <2>1. PICK txid \in TxIds, section \in Range(Sections) : ReadMarker(txid, section)
      BY <1>5 DEF ForgedLine
  <2>2. sessions' \in Seq(SessionSet) /\ IdsAreSingle(sessions')
      BY <1>00, <2>1, MarkerKeepsShape
  <2>3. /\ writing.tx > 0 /\ writing' = [writing EXCEPT !.forged = TRUE]
        /\ writing \in [tx : Nat, txid : TxIds \cup {"none"}, at : 0 .. 6, forged : BOOLEAN]
        /\ writing.txid \in TxIds /\ writing.at > 0
      BY <1>5 DEF ForgedLine, AuditInv, AuditShape
  <2>4. /\ writing'.forged /\ writing'.tx = writing.tx /\ writing'.txid = writing.txid
        /\ writing'.at = writing.at
        /\ writing' \in [tx : Nat, txid : TxIds \cup {"none"}, at : 0 .. 6, forged : BOOLEAN]
      BY <2>3
  <2> QED BY <2>2, <2>3, <2>4 DEF AuditInv, AuditShape, AuditsAreWhole
<1>4. CASE UNCHANGED auditVars
    BY <1>4 DEF auditVars, AuditInv, AuditShape, WritingIsLast, AuditsAreWhole, TellsOf, Known, IdsAreSingle
<1> QED
    BY <1>0, <1>1, <1>2, <1>3, <1>4, <1>5 DEF AuditNext, MarkerLine

(* An event of the audit log tells of the transaction that closes, for any  *)
(* ids, however often they come back, any number of transactions and any     *)
(* bodies, unless the body of that very transaction has lines that look like *)
(* markers.                                                                   *)
THEOREM AuditEventsAreWhole == AuditSpec => []AuditsAreWhole
<1>1. AuditInv => AuditsAreWhole
    BY DEF AuditInv
<1> QED
    BY AuditInitOK, AuditStep, <1>1, PTL DEF AuditSpec
===============================================================================
