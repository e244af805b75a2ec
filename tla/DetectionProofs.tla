---------------------------- MODULE DetectionProofs ----------------------------
(* Theorems of the detection modules, for any constants: the windows of the
   rules, the rules a process holds, the security lists, the block lists. *)
EXTENDS RuleWindow, RuleBook, SecurityLists, BlocklistSync,
        FiniteSetTheorems, WellFoundedInduction, TLAPS

-------------------------------------------------------------------------------
(* The windows of the rules *)

USE DEF window

(* What Evaluate does to the deque of its process. *)
LEMMA EvaluateWindow ==
    ASSUME TypeOK, NEW p \in Procs, NEW t \in Times, Evaluate(p, t)
    PROVE  \E i \in lo[p]..(Size(p) + 1) :
             /\ arrivals' = [arrivals EXCEPT ![p] = Append(arrivals[p], t)]
             /\ lo' = [lo EXCEPT ![p] = i]
             /\ pc' = [pc EXCEPT ![p] = Verdict(Append(arrivals[p], t), i, t)]
             /\ ~Expired(Append(arrivals[p], t), i, t)
             /\ \A j \in lo[p]..(i - 1) : Expired(Append(arrivals[p], t), j, t)
<1>1. arrivals[p] \in Seq(Times)
    BY DEF TypeOK
<1>2. Len(Append(arrivals[p], t)) = Size(p) + 1
    BY <1>1 DEF Size
<1> QED
    BY <1>2 DEF Evaluate

(* What a new arrival does to the deque of its process, and to no other.    *)
LEMMA SizeOfAppend ==
    ASSUME TypeOK, NEW p \in Procs, NEW t \in Times,
           arrivals' = [arrivals EXCEPT ![p] = Append(arrivals[p], t)]
    PROVE  /\ arrivals' \in [Procs -> Seq(Times)]
           /\ Size(p)' = Size(p) + 1 /\ Size(p) \in Nat
           /\ arrivals'[p][Size(p) + 1] = t
           /\ \A i \in 1..Size(p) : arrivals'[p][i] = arrivals[p][i]
           /\ \A q \in Procs \ {p} : arrivals'[q] = arrivals[q]
BY DEF TypeOK, Size

(* Every step keeps the types. *)
LEMMA TypePreserved == TypeOK /\ [Next]_vars => TypeOK'
<1> SUFFICES ASSUME TypeOK, [Next]_vars PROVE TypeOK'
    OBVIOUS
<1> USE RuleAssumption
<1>1. ASSUME NEW p \in Procs, NEW t \in Times, Evaluate(p, t) PROVE TypeOK'
  <2>1. PICK i \in lo[p]..(Size(p) + 1) :
            /\ arrivals' = [arrivals EXCEPT ![p] = Append(arrivals[p], t)]
            /\ lo' = [lo EXCEPT ![p] = i]
            /\ pc' = [pc EXCEPT ![p] = Verdict(Append(arrivals[p], t), i, t)]
      BY <1>1, EvaluateWindow
  <2>2. /\ arrivals' \in [Procs -> Seq(Times)]
        /\ Size(p)' = Size(p) + 1 /\ Size(p) \in Nat
        /\ \A q \in Procs \ {p} : Size(q)' = Size(q)
      BY <2>1, SizeOfAppend DEF Size
  <2>3. i \in Nat \ {0} /\ since[p] <= i /\ i <= Size(p)'
      BY <2>2 DEF TypeOK
  <2>4. lo' \in [Procs -> Nat \ {0}] /\ since' = since
      BY <1>1, <2>1, <2>3 DEF TypeOK, Evaluate
  <2>5. pc' \in [Procs -> {"idle", "quiet", "fire"}]
      BY <2>1 DEF TypeOK, Verdict
  <2>6. ASSUME NEW q \in Procs
        PROVE  /\ since'[q] <= lo'[q] /\ lo'[q] <= Size(q)' + 1
               /\ pc'[q] # "idle" => lo'[q] <= Size(q)'
    <3>1. CASE q = p
        BY <2>1, <2>2, <2>3, <2>4, <3>1 DEF TypeOK
    <3>2. CASE q # p
        BY <2>1, <2>2, <2>4, <3>2 DEF TypeOK
    <3> QED
        BY <3>1, <3>2
  <2>7. row' \in {"absent", "there"} \cup Procs /\ UNCHANGED <<lastAlert, alerts, aborted>>
      BY <1>1 DEF TypeOK, Evaluate
  <2> QED
      BY <2>2, <2>4, <2>5, <2>6, <2>7 DEF TypeOK
<1>2. ASSUME NEW p \in Procs, Commit(p) PROVE TypeOK'
  <2>1. pc[p] # "idle" => arrivals[p][Size(p)] \in Times
      BY DEF TypeOK, Size
  <2>2. /\ pc' \in [Procs -> {"idle", "quiet", "fire"}]
        /\ \A q \in Procs : pc'[q] # "idle" => pc[q] # "idle"
        /\ row' = "there" /\ UNCHANGED <<arrivals, lo, since, aborted>>
      BY <1>2 DEF TypeOK, Commit
  <2>3. lastAlert' \in Times \cup {Never} /\ alerts' \in Seq(Times)
    <3>1. CASE pc[p] = "fire"
      <4>1. arrivals[p][Size(p)] \in Times
          BY <1>2, <2>1 DEF Commit
      <4>2. /\ alerts' = Append(alerts, arrivals[p][Size(p)])
            /\ lastAlert' = arrivals[p][Size(p)]
          BY <1>2, <3>1 DEF Commit, NewLastAlert
      <4>3. alerts \in Seq(Times)
          BY DEF TypeOK
      <4> QED
          BY <4>1, <4>2, <4>3
    <3>2. CASE pc[p] # "fire"
        BY <1>2, <3>2 DEF TypeOK, Commit
    <3> QED
        BY <3>1, <3>2
  <2> QED
      BY <2>2, <2>3 DEF TypeOK, Size
<1>3. ASSUME NEW p \in Procs, Rollback(p) PROVE TypeOK'
    BY <1>3 DEF TypeOK, Rollback, RowAfterRollback, Size
<1>4. ASSUME NEW p \in Procs, Restart(p) PROVE TypeOK'
  <2>1. Size(p) \in Nat
      BY DEF TypeOK, Size
  <2> QED
      BY <1>4, <2>1 DEF TypeOK, Restart, RowAfterRollback, Forgotten, Size
<1>5. CASE UNCHANGED vars
    BY <1>5 DEF TypeOK, vars, Size
<1> QED
    BY <1>1, <1>2, <1>3, <1>4, <1>5 DEF Next

(* Type correctness, and the deque is a suffix of the process's events. *)
THEOREM TypeCorrect == Spec => []TypeOK
<1>1. Init => TypeOK
  <2> SUFFICES ASSUME Init PROVE TypeOK
      OBVIOUS
  <2>1. arrivals \in [Procs -> Seq(Times)] /\ \A p \in Procs : Size(p) = 0
      BY DEF Init, Size
  <2>2. lo \in [Procs -> Nat \ {0}] /\ since \in [Procs -> Nat \ {0}]
      BY DEF Init
  <2>3. \A p \in Procs : since[p] = 1 /\ lo[p] = 1 /\ pc[p] = "idle"
      BY DEF Init
  <2>4. lastAlert \in Times \cup {Never} /\ alerts \in Seq(Times)
      BY DEF Init
  <2>5. /\ pc \in [Procs -> {"idle", "quiet", "fire"}]
        /\ row \in {"absent", "there"} \cup Procs /\ aborted \in BOOLEAN
      BY DEF Init
  <2> QED
      BY <2>1, <2>2, <2>3, <2>4, <2>5 DEF TypeOK
<1> QED
    BY <1>1, TypePreserved, PTL DEF Spec

-------------------------------------------------------------------------------

(* Of events that come in order, trimming the head of the deque removes     *)
(* exactly those that are out of the window.                                 *)
LEMMA EvaluateIsExact ==
    ASSUME TypeOK, InOrderIsExact, NEW p \in Procs, NEW t \in Times, Evaluate(p, t)
    PROVE  InOrderIsExact'
<1> USE RuleAssumption
<1>1. PICK i \in lo[p]..(Size(p) + 1) :
          /\ arrivals' = [arrivals EXCEPT ![p] = Append(arrivals[p], t)]
          /\ lo' = [lo EXCEPT ![p] = i]
          /\ ~Expired(Append(arrivals[p], t), i, t)
          /\ \A j \in lo[p]..(i - 1) : Expired(Append(arrivals[p], t), j, t)
    BY EvaluateWindow
<1> DEFINE n == Size(p)
<1>2. /\ Size(p)' = n + 1 /\ n \in Nat /\ arrivals'[p][n + 1] = t
      /\ \A j \in 1..n : arrivals'[p][j] = arrivals[p][j]
      /\ \A q \in Procs \ {p} : arrivals'[q] = arrivals[q]
    BY <1>1, SizeOfAppend
<1>3. since' = since /\ lo' \in [Procs -> Int] /\ lo'[p] = i /\ i \in Nat \ {0}
    BY <1>1, <1>2 DEF Evaluate, TypeOK
<1>4. since[p] \in Nat \ {0} /\ lo[p] \in Nat \ {0} /\ since[p] <= lo[p] /\ lo[p] <= n + 1
    BY DEF TypeOK
<1>5. arrivals'[p] = Append(arrivals[p], t)
    BY <1>1 DEF TypeOK
<1>6. \A j \in 1..(n + 1) : arrivals'[p][j] \in Nat
  <2>1. arrivals[p] \in Seq(Times) /\ Len(arrivals[p]) = n
      BY DEF TypeOK, Size
  <2>2. \A j \in 1..n : arrivals[p][j] \in Times
      BY <2>1
  <2>3. ASSUME NEW j \in 1..(n + 1) PROVE arrivals'[p][j] \in Times
    <3>1. j = n + 1 \/ j \in 1..n
        BY <1>2
    <3> QED
        BY <1>2, <2>2, <3>1
  <2> QED
      BY <2>3
<1>7. /\ arrivals'[p][i] >= t - Window
      /\ \A j \in lo[p]..(i - 1) : arrivals'[p][j] < t - Window
  <2>1. i \in 1..(n + 1) /\ \A j \in lo[p]..(i - 1) : j \in 1..(n + 1)
      BY <1>1, <1>2, <1>3, <1>4
  <2>2. ~(arrivals'[p][i] < t - Window) /\ \A j \in lo[p]..(i - 1) : arrivals'[p][j] < t - Window
      BY <1>1, <1>5 DEF Expired
  <2>3. arrivals'[p][i] \in Nat /\ t \in Nat
      BY <1>6, <2>1
  <2> QED
      BY <2>2, <2>3
<1>8. ASSUME NEW q \in Procs, InOrder(q)', NEW k \in since[q]..Size(q)'
      PROVE  k >= lo'[q] <=> arrivals'[q][k] >= arrivals'[q][Size(q)'] - Window
  <2>1. CASE q # p
    <3>1. Size(q)' = Size(q) /\ arrivals'[q] = arrivals[q] /\ lo'[q] = lo[q]
        BY <1>1, <1>2, <2>1 DEF Size, TypeOK
    <3>2. InOrder(q)
        BY <1>3, <1>8, <3>1 DEF InOrder
    <3> QED
        BY <1>8, <3>1, <3>2 DEF InOrderIsExact
  <2>2. CASE q = p
    <3>1. \A a, b \in since[p]..(n + 1) : a <= b => arrivals'[p][a] <= arrivals'[p][b]
        BY <1>2, <1>3, <1>8, <2>2 DEF InOrder
    <3>2. k \in since[p]..(n + 1) /\ k \in 1..(n + 1)
        BY <1>2, <1>4, <1>8, <2>2
    <3>3. CASE k >= i
        BY <1>2, <1>3, <1>4, <1>6, <1>7, <2>2, <3>1, <3>2, <3>3
    <3>4. CASE k < i /\ k >= lo[p]
        BY <1>2, <1>3, <1>4, <1>6, <1>7, <2>2, <3>2, <3>4
    <3>5. CASE k < lo[p]
      <4>1. InOrder(p)
        <5> SUFFICES ASSUME NEW a \in since[p]..n, NEW b \in since[p]..n, a <= b
                     PROVE  arrivals[p][a] <= arrivals[p][b]
            BY DEF InOrder
        <5> QED
            BY <1>2, <1>4, <3>1
      <4>2. k \in since[p]..n /\ n \in since[p]..n
          BY <1>2, <1>4, <3>2, <3>5
      <4>3. arrivals[p][k] < arrivals[p][n] - Window
        <5>1. arrivals[p][k] \in Nat /\ arrivals[p][n] \in Nat
            BY <1>2, <1>4, <1>6, <4>2
        <5>2. ~(arrivals[p][k] >= arrivals[p][n] - Window)
            BY <1>4, <3>5, <4>1, <4>2 DEF InOrderIsExact
        <5> QED
            BY <5>1, <5>2
      <4>4. arrivals'[p][n] <= t /\ arrivals'[p][n] = arrivals[p][n]
            /\ arrivals'[p][k] = arrivals[p][k]
          BY <1>2, <1>4, <3>1, <4>2
      <4> QED
          BY <1>2, <1>3, <1>4, <1>6, <2>2, <3>2, <3>5, <4>2, <4>3, <4>4
    <3> QED
        BY <1>3, <1>4, <3>2, <3>3, <3>4, <3>5
  <2> QED
      BY <2>1, <2>2
<1> QED
    BY <1>3, <1>8 DEF InOrderIsExact

(* Events that come in the order of their timestamps are counted exactly,   *)
(* whatever is rolled back or restarted: the deque holds those of the last   *)
(* window_seconds since the process started.                                  *)
THEOREM InOrderEventsAreCounted == Spec => []InOrderIsExact
<1>1. Init => InOrderIsExact
    BY DEF Init, InOrderIsExact, Size
<1>2. TypeOK /\ InOrderIsExact /\ [Next]_vars => InOrderIsExact'
  <2> SUFFICES ASSUME TypeOK, InOrderIsExact, [Next]_vars PROVE InOrderIsExact'
      OBVIOUS
  <2>1. ASSUME NEW p \in Procs, NEW t \in Times, Evaluate(p, t) PROVE InOrderIsExact'
      BY <2>1, EvaluateIsExact
  <2>2. ASSUME NEW p \in Procs, Commit(p) \/ Rollback(p) PROVE InOrderIsExact'
      BY <2>2 DEF Commit, Rollback, InOrderIsExact, InOrder, Size
  <2>3. ASSUME NEW p \in Procs, Restart(p) PROVE InOrderIsExact'
    <3>1. /\ arrivals' = arrivals /\ since'[p] = Size(p) + 1 /\ Size(p) \in Nat
          /\ \A q \in Procs \ {p} : since'[q] = since[q] /\ lo'[q] = lo[q]
        BY <2>3 DEF Restart, TypeOK, Size
    <3> QED
        BY <3>1 DEF InOrderIsExact, InOrder, Size
  <2>4. CASE UNCHANGED vars
      BY <2>4 DEF vars, InOrderIsExact, InOrder, Size
  <2> QED
      BY <2>1, <2>2, <2>3, <2>4 DEF Next
<1> QED
    BY <1>1, <1>2, TypeCorrect, PTL DEF Spec

-------------------------------------------------------------------------------

(* With one process the state row tells the last alert, so an evaluated     *)
(* event that is to fire is past its cooldown.                               *)
SpacingInv ==
    /\ lastAlert = IF alerts = <<>> THEN Never ELSE alerts[Len(alerts)]
    /\ \A i, j \in 1..Len(alerts) : i < j => alerts[j] >= alerts[i] + Cooldown
    /\ \A p \in Procs : pc[p] = "fire" /\ alerts # <<>> =>
          arrivals[p][Size(p)] >= alerts[Len(alerts)] + Cooldown

(* Alerts of one process are a cooldown apart, in whatever order events     *)
(* come and whatever is rolled back or restarted.  The hypothesis is needed: *)
(* the state row is read without a lock, so two processes can both find the  *)
(* cooldown over.                                                             *)
THEOREM OneProcessSpacesAlerts ==
    ASSUME \A p, q \in Procs : p = q
    PROVE  Spec => []AlertsAreSpaced
<1> DEFINE I == Cooldown > 0 => SpacingInv
<1> USE RuleAssumption
<1>1. Init => I
    BY DEF Init, SpacingInv
<1>2. TypeOK /\ I /\ [Next]_vars => I'
  <2> SUFFICES ASSUME TypeOK, Cooldown > 0, SpacingInv, [Next]_vars PROVE SpacingInv'
      OBVIOUS
  <2>1. /\ alerts \in Seq(Times) /\ \A i \in 1..Len(alerts) : alerts[i] \in Nat
        /\ alerts # <<>> => Len(alerts) \in 1..Len(alerts) /\ alerts[Len(alerts)] \in Nat
    <3>1. alerts \in Seq(Times)
        BY DEF TypeOK
    <3>2. \A i \in 1..Len(alerts) : alerts[i] \in Times
        BY <3>1
    <3>3. alerts # <<>> => Len(alerts) \in 1..Len(alerts)
        BY <3>1
    <3> QED
        BY <3>1, <3>2, <3>3
  <2>2. ASSUME NEW p \in Procs, NEW t \in Times, Evaluate(p, t) PROVE SpacingInv'
    <3>1. PICK i \in lo[p]..(Size(p) + 1) :
              /\ arrivals' = [arrivals EXCEPT ![p] = Append(arrivals[p], t)]
              /\ pc' = [pc EXCEPT ![p] = Verdict(Append(arrivals[p], t), i, t)]
        BY <2>2, EvaluateWindow
    <3>2. Size(p)' = Size(p) + 1 /\ arrivals'[p][Size(p) + 1] = t /\ t \in Nat
        BY <3>1, SizeOfAppend
    <3>3. alerts' = alerts /\ lastAlert' = lastAlert
        BY <2>2 DEF Evaluate
    <3>4. pc'[p] = "fire" /\ alerts # <<>> => t >= alerts[Len(alerts)] + Cooldown
      <4> SUFFICES ASSUME pc'[p] = "fire", alerts # <<>> PROVE t >= alerts[Len(alerts)] + Cooldown
          OBVIOUS
      <4>1. lastAlert = alerts[Len(alerts)] /\ lastAlert \in Nat /\ lastAlert # Never
          BY <2>1 DEF SpacingInv, Never
      <4>2. pc'[p] = Verdict(Append(arrivals[p], t), i, t)
          BY <3>1 DEF TypeOK
      <4>3. ~Cooling(t)
          BY <4>1, <4>2 DEF Verdict
      <4> QED
          BY <3>2, <4>1, <4>3 DEF Cooling
    <3>5. \A q \in Procs : pc'[q] = "fire" /\ alerts # <<>> =>
              arrivals'[q][Size(q)'] >= alerts[Len(alerts)] + Cooldown
      <4> SUFFICES ASSUME NEW q \in Procs, pc'[q] = "fire", alerts # <<>>
                   PROVE  arrivals'[q][Size(q)'] >= alerts[Len(alerts)] + Cooldown
          OBVIOUS
      <4>1. q = p
          OBVIOUS
      <4> QED
          BY <3>2, <3>4, <4>1
    <3> QED
        BY <3>3, <3>5 DEF SpacingInv
  <2>3. ASSUME NEW p \in Procs, Commit(p) PROVE SpacingInv'
    <3>1. \A q \in Procs : pc'[q] = "idle"
        BY <2>3 DEF Commit, TypeOK
    <3>2. CASE pc[p] = "fire"
      <4> DEFINE t == arrivals[p][Size(p)]
                 n == Len(alerts)
      <4>1. alerts' = Append(alerts, t) /\ lastAlert' = t /\ t \in Nat /\ n \in Nat
        <5>1. lo[p] \in Nat \ {0} /\ lo[p] <= Size(p) /\ arrivals[p] \in Seq(Times)
            BY <3>2 DEF TypeOK
        <5>2. Size(p) \in 1..Len(arrivals[p])
            BY <5>1 DEF Size
        <5>3. t \in Times
            BY <5>1, <5>2
        <5>4. alerts' = Append(alerts, t) /\ lastAlert' = t
            BY <2>3, <3>2 DEF Commit, NewLastAlert
        <5>5. n \in Nat
            BY <2>1
        <5> QED
            BY <5>3, <5>4, <5>5
      <4>2. /\ Len(alerts') = n + 1 /\ alerts'[n + 1] = t /\ alerts' # <<>>
            /\ \A i \in 1..n : alerts'[i] = alerts[i] /\ alerts[i] \in Nat
          BY <2>1, <4>1
      <4>3. \A i \in 1..n : t >= alerts[i] + Cooldown
        <5> SUFFICES ASSUME NEW i \in 1..n PROVE t >= alerts[i] + Cooldown
            OBVIOUS
        <5>1. n \in 1..n /\ alerts # <<>> /\ alerts[n] \in Nat /\ alerts[i] \in Nat
            BY <2>1, <4>1, <4>2
        <5>2. t >= alerts[n] + Cooldown
            BY <3>2, <5>1 DEF SpacingInv
        <5>3. i < n => alerts[n] >= alerts[i] + Cooldown
            BY <5>1 DEF SpacingInv
        <5> QED
            BY <4>1, <5>1, <5>2, <5>3
      <4>4. \A i, j \in 1..(n + 1) : i < j => alerts'[j] >= alerts'[i] + Cooldown
        <5> SUFFICES ASSUME NEW i \in 1..(n + 1), NEW j \in 1..(n + 1), i < j
                     PROVE  alerts'[j] >= alerts'[i] + Cooldown
            OBVIOUS
        <5>1. i \in 1..n /\ alerts'[i] = alerts[i]
            BY <4>1, <4>2
        <5>2. CASE j = n + 1
            BY <4>2, <4>3, <5>1, <5>2
        <5>3. CASE j # n + 1
          <6>1. j \in 1..n /\ alerts'[j] = alerts[j]
              BY <4>1, <4>2, <5>3
          <6> QED
              BY <5>1, <6>1 DEF SpacingInv
        <5> QED
            BY <5>2, <5>3
      <4> QED
          BY <3>1, <4>1, <4>2, <4>4 DEF SpacingInv
    <3>3. CASE pc[p] # "fire"
        BY <2>3, <3>1, <3>3 DEF Commit, SpacingInv
    <3> QED
        BY <3>2, <3>3
  <2>4. ASSUME NEW p \in Procs, Rollback(p) PROVE SpacingInv'
      BY <2>4 DEF Rollback, SpacingInv, TypeOK, Size
  <2>5. ASSUME NEW p \in Procs, Restart(p) PROVE SpacingInv'
      BY <2>5 DEF Restart, SpacingInv, TypeOK, Size
  <2>6. CASE UNCHANGED vars
      BY <2>6 DEF vars, SpacingInv, Size
  <2> QED
      BY <2>2, <2>3, <2>4, <2>5, <2>6 DEF Next
<1>3. TypeOK /\ I => AlertsAreSpaced
    BY DEF SpacingInv, AlertsAreSpaced, TypeOK
<1> QED
    BY <1>1, <1>2, <1>3, TypeCorrect, PTL DEF Spec

-------------------------------------------------------------------------------

(* A process that got its events in order and has not fired, in a system     *)
(* that has not alerted, has seen no window with as many as the threshold.    *)
QuietInv ==
    /\ alerts = <<>> => lastAlert = Never
    /\ \A p \in Procs :
         (~aborted /\ InOrder(p) /\ alerts = <<>> /\ pc[p] # "fire")
            => \A k \in since[p]..Size(p) : Cardinality(Within(p, k)) < Threshold

(* The event that does not fire finds fewer in the deque, and in order of     *)
(* arrival all that are in its window are in the deque.                       *)
LEMMA EvaluateKeepsQuiet ==
    ASSUME TypeOK, InOrderIsExact, QuietInv, NEW p \in Procs, NEW t \in Times, Evaluate(p, t)
    PROVE  QuietInv'
<1> USE RuleAssumption
<1>1. PICK i \in lo[p]..(Size(p) + 1) :
          /\ arrivals' = [arrivals EXCEPT ![p] = Append(arrivals[p], t)]
          /\ lo' = [lo EXCEPT ![p] = i]
          /\ pc' = [pc EXCEPT ![p] = Verdict(Append(arrivals[p], t), i, t)]
    BY EvaluateWindow
<1> DEFINE n == Size(p)
<1>2. /\ Size(p)' = n + 1 /\ n \in Nat /\ arrivals'[p][n + 1] = t
      /\ \A k \in 1..n : arrivals'[p][k] = arrivals[p][k]
      /\ \A q \in Procs \ {p} : arrivals'[q] = arrivals[q]
    BY <1>1, SizeOfAppend
<1>3. /\ UNCHANGED <<since, lastAlert, alerts, aborted>> /\ pc[p] = "idle"
      /\ lo'[p] = i /\ i \in Nat \ {0} /\ pc'[p] = Verdict(Append(arrivals[p], t), i, t)
      /\ since[p] \in Nat \ {0}
    BY <1>1, <1>2 DEF Evaluate, TypeOK
<1>4. InOrderIsExact'
    BY EvaluateIsExact
<1>5. ASSUME NEW q \in Procs, ~aborted', InOrder(q)', alerts' = <<>>, pc'[q] # "fire",
             NEW k \in since'[q]..Size(q)'
      PROVE  Cardinality(Within(q, k)') < Threshold
  <2>1. CASE q # p
    <3>1. Size(q)' = Size(q) /\ arrivals'[q] = arrivals[q] /\ pc'[q] = pc[q]
        BY <1>1, <1>2, <2>1 DEF Size, TypeOK
    <3>2. InOrder(q) /\ Within(q, k)' = Within(q, k)
        BY <1>3, <1>5, <3>1 DEF InOrder, Within
    <3> QED
        BY <1>3, <1>5, <3>1, <3>2 DEF QuietInv
  <2>2. CASE q = p /\ k # n + 1
    <3>1. InOrder(p)
      <4> SUFFICES ASSUME NEW a \in since[p]..n, NEW b \in since[p]..n, a <= b
                   PROVE  arrivals[p][a] <= arrivals[p][b]
          BY DEF InOrder
      <4> QED
          BY <1>2, <1>3, <1>5, <2>2 DEF InOrder
    <3>2. k \in since[p]..n
        BY <1>2, <1>3, <1>5, <2>2
    <3>3. Within(p, k)' = Within(p, k)
        BY <1>2, <1>3, <3>2 DEF Within
    <3> QED
        BY <1>3, <1>5, <2>2, <3>1, <3>2, <3>3 DEF QuietInv
  <2>3. CASE q = p /\ k = n + 1
    <3>1. Count(Append(arrivals[p], t), i) < Threshold /\ Len(Append(arrivals[p], t)) = n + 1
      <4>1. lastAlert = Never
          BY <1>3, <1>5 DEF QuietInv
      <4>2. ~(Count(Append(arrivals[p], t), i) >= Threshold)
          BY <1>3, <1>5, <2>3, <4>1 DEF Verdict
      <4>3. Len(Append(arrivals[p], t)) = n + 1
          BY DEF TypeOK, Size
      <4> QED
          BY <1>3, <4>2, <4>3 DEF Count
    <3>2. ASSUME NEW j \in since[p]..(n + 1), arrivals'[p][j] >= t - Window PROVE j >= i
      <4>1. j \in since'[p]..Size(p)' /\ arrivals'[p][Size(p)'] = t
          BY <1>2, <1>3
      <4>2. j >= lo'[p] <=> arrivals'[p][j] >= arrivals'[p][Size(p)'] - Window
          BY <1>4, <1>5, <2>3, <4>1 DEF InOrderIsExact
      <4> QED
          BY <1>3, <3>2, <4>1, <4>2
    <3>3. PICK m \in Nat : m = n + 1
        BY <1>2
    <3>4. Within(p, k)' \in SUBSET (i..m)
        BY <1>2, <1>3, <2>3, <3>2, <3>3 DEF Within
    <3>5. i \in Int /\ m \in Int /\ ~(i > m)
        BY <1>1, <1>2, <1>3, <3>3 DEF TypeOK
    <3>6. IsFiniteSet(i..m) /\ Cardinality(i..m) = m - i + 1
        BY <3>5, FS_Interval
    <3>7. Cardinality(Within(p, k)') <= m - i + 1 /\ Cardinality(Within(p, k)') \in Nat
      <4> DEFINE K == Within(p, k)'
      <4>1. IsFiniteSet(K) /\ Cardinality(K) <= Cardinality(i..m)
          BY <3>4, <3>6, FS_Subset
      <4>2. Cardinality(K) \in Nat
          BY <4>1, FS_CardinalityType
      <4> QED
          BY <3>6, <4>1, <4>2
    <3> QED
        BY <1>2, <1>3, <2>3, <3>1, <3>3, <3>7 DEF Count
  <2> QED
      BY <1>2, <2>1, <2>2, <2>3
<1>6. alerts' = <<>> => lastAlert' = Never
    BY <1>3 DEF QuietInv
<1> QED
    BY <1>5, <1>6 DEF QuietInv

(* For any number of processes, the one that was given enough events in one  *)
(* window, in order and with nothing rolled back, has led to an alert.  Two   *)
(* may each be given too few of them.                                         *)
THEOREM FullWindowsAlert == Spec => []ThresholdAlerts
<1> USE RuleAssumption
<1>1. Init => QuietInv
  <2> SUFFICES ASSUME Init PROVE QuietInv
      OBVIOUS
  <2>1. lastAlert = Never /\ \A p \in Procs : Size(p) = 0 /\ since[p] = 1
      BY DEF Init, Size
  <2> QED
      BY <2>1 DEF QuietInv
<1>2. TypeOK /\ InOrderIsExact /\ QuietInv /\ [Next]_vars => QuietInv'
  <2> SUFFICES ASSUME TypeOK, InOrderIsExact, QuietInv, [Next]_vars PROVE QuietInv'
      OBVIOUS
  <2>0. ASSUME NEW q \in Procs, arrivals'[q] = arrivals[q], since'[q] = since[q]
        PROVE  /\ InOrder(q)' = InOrder(q) /\ Size(q)' = Size(q)
               /\ \A k : Within(q, k)' = Within(q, k)
      BY <2>0 DEF InOrder, Within, Size
  <2>1. ASSUME NEW p \in Procs, NEW t \in Times, Evaluate(p, t) PROVE QuietInv'
      BY <2>1, EvaluateKeepsQuiet
  <2>2. ASSUME NEW p \in Procs, Commit(p) PROVE QuietInv'
    <3>1. UNCHANGED <<arrivals, since, aborted>> /\ \A q \in Procs : q # p => pc'[q] = pc[q]
        BY <2>2 DEF Commit, window, TypeOK
    <3>2. CASE pc[p] = "fire"
      <4>1. alerts' # <<>>
          BY <2>2, <3>2 DEF Commit, TypeOK
      <4> QED
          BY <4>1 DEF QuietInv
    <3>3. CASE pc[p] # "fire"
      <4>1. UNCHANGED <<alerts, lastAlert>>
          BY <2>2, <3>3 DEF Commit
      <4> QED
          BY <2>0, <3>1, <3>3, <4>1 DEF QuietInv
    <3> QED
        BY <3>2, <3>3
  <2>3. ASSUME NEW p \in Procs, Rollback(p) PROVE QuietInv'
      BY <2>3 DEF Rollback, QuietInv
  <2>4. ASSUME NEW p \in Procs, Restart(p) PROVE QuietInv'
    <3>1. since'[p] = Size(p) + 1 /\ Size(p)' = Size(p) /\ Size(p) \in Nat
        BY <2>4 DEF Restart, TypeOK, Size
    <3>2. /\ UNCHANGED <<arrivals, alerts, lastAlert, aborted>>
          /\ \A q \in Procs : q # p => pc'[q] = pc[q] /\ since'[q] = since[q]
        BY <2>4 DEF Restart, TypeOK
    <3>3. since'[p]..Size(p)' = {}
        BY <3>1
    <3> QED
        BY <2>0, <3>2, <3>3 DEF QuietInv
  <2>5. CASE UNCHANGED vars
      BY <2>0, <2>5 DEF vars, window, QuietInv
  <2> QED
      BY <2>1, <2>2, <2>3, <2>4, <2>5 DEF Next
<1>3. TypeOK /\ QuietInv => ThresholdAlerts
  <2> SUFFICES ASSUME TypeOK, QuietInv, NEW p \in Procs, pc[p] = "idle", InOrder(p), ~aborted,
                      alerts = <<>>, NEW k \in since[p]..Size(p)
               PROVE  ~(Cardinality(Within(p, k)) >= Threshold)
      BY DEF ThresholdAlerts
  <2>1. Cardinality(Within(p, k)) < Threshold
      BY DEF QuietInv
  <2>2. since[p] \in Int /\ k \in Int
      BY DEF TypeOK
  <2>3. Cardinality(Within(p, k)) \in Nat
    <3>1. IsFiniteSet(since[p]..k)
        BY <2>2, FS_Interval
    <3>2. Within(p, k) \in SUBSET (since[p]..k)
        BY DEF Within
    <3> QED
        BY <3>1, <3>2, FS_Subset, FS_CardinalityType
  <2> QED
      BY <2>1, <2>3
<1> QED
    BY <1>1, <1>2, <1>3, TypeCorrect, InOrderEventsAreCounted, PTL DEF Spec

-------------------------------------------------------------------------------
(* The rule book *)

Txs ==
    [drafts : SUBSET Drafts, touched : SUBSET RuleIds, sent : SUBSET RuleIds,
     fresh : SUBSET RuleIds, purged : SUBSET RuleIds, removed : SUBSET Drafts,
     stale : BOOLEAN, dead : BOOLEAN]

Works ==
    [open : BOOLEAN, event : BookEvents \cup {NoEvent}, at : Nat, n : Nat,
     todo : SUBSET RuleIds, missed : BOOLEAN, tx : Txs]

BookShape ==
    /\ bookTime \in Nat
    /\ status \in [RuleIds -> {"free", "on", "off", "gone"}]
    /\ form \in [RuleIds -> RuleForms]
    /\ lastSaid \in [RuleIds -> [RuleForms -> Nat \cup {Unread}]]
    /\ index \in [Bookers -> SUBSET (RuleIds \X RuleForms)]
    /\ loadedAt \in [Bookers -> Nat \cup {Unread}]
    /\ work \in [Bookers -> Works]
    /\ rowOf \in [RuleIds -> {"absent", "there"} \cup Bookers]
    /\ marked \in [RuleIds -> BOOLEAN]
    /\ stored \in SUBSET Drafts
    /\ bookUses \in [edits : Nat, evaluations : Nat, refusals : Nat]
    /\ \A p \in Bookers : /\ work[p].todo \subseteq {entry[1] : entry \in index[p]}
                          /\ work[p].missed => Busy(p)
                          /\ Busy(p) => work[p].event # NoEvent

(* What a copy says was so when it was loaded.                               *)
CopiesWereSo ==
    \A p \in Bookers : loadedAt[p] # Unread =>
        /\ loadedAt[p] <= bookTime
        /\ \A r \in RuleIds : \A f \in RuleForms :
              <<r, f>> \in index[p] =>
                  \/ status[r] = "on" /\ form[r] = f
                  \/ lastSaid[r][f] >= loadedAt[p]

(* An event is evaluated with a copy that was fresh when it was begun.       *)
EventsHaveCopies ==
    \A p \in Bookers : Busy(p) =>
        loadedAt[p] # Unread /\ work[p].at - loadedAt[p] < Ttl

DraftsAreRecent ==
    /\ \A p \in Bookers : \A d \in work[p].tx.drafts : d.age < Ttl
    /\ \A a \in stored : a.age < Ttl

(* The fields of what a process has in hand.                                 *)
LEMMA WorkFields ==
    ASSUME NEW w \in Works
    PROVE  /\ w.open \in BOOLEAN /\ w.event \in BookEvents \cup {NoEvent}
           /\ w.at \in Nat /\ w.n \in Nat /\ w.todo \in SUBSET RuleIds /\ w.missed \in BOOLEAN
           /\ w.tx \in Txs
           /\ w.tx.drafts \in SUBSET Drafts /\ w.tx.touched \in SUBSET RuleIds
           /\ w.tx.sent \in SUBSET RuleIds /\ w.tx.fresh \in SUBSET RuleIds
           /\ w.tx.purged \in SUBSET RuleIds /\ w.tx.removed \in SUBSET Drafts
           /\ w.tx.stale \in BOOLEAN /\ w.tx.dead \in BOOLEAN
    BY DEF Works, Txs

(* A process at rest has nothing in hand.                                    *)
LEMMA EmptyWork ==
    /\ Empty \in Txs
    /\ Empty.drafts = {} /\ Empty.touched = {} /\ Empty.sent = {} /\ Empty.fresh = {}
    /\ Empty.purged = {} /\ Empty.removed = {}
    /\ AtRest \in Works /\ AtRest.tx = Empty /\ AtRest.todo = {} /\ AtRest.missed = FALSE
  <1>1. Empty \in Txs
      BY DEF Empty, Txs
  <1>2. /\ Empty.drafts = {} /\ Empty.touched = {} /\ Empty.sent = {} /\ Empty.fresh = {}
        /\ Empty.purged = {} /\ Empty.removed = {}
      BY DEF Empty
  <1>3. AtRest \in Works /\ AtRest.tx = Empty /\ AtRest.todo = {} /\ AtRest.missed = FALSE
      BY <1>1 DEF AtRest, Works
  <1> QED BY <1>1, <1>2, <1>3

(* Rules are taken in their order, so the next one is one of them.           *)
LEMMA NextRule ==
    ASSUME BookShape, NEW p \in Bookers, Busy(p)
    PROVE  Now1(p) \in work[p].todo /\ Now1(p) \in RuleIds
  <1> DEFINE T == work[p].todo
  <1>1. T \subseteq Nat /\ T # {} /\ T \subseteq RuleIds
      BY BookAssumption, WorkFields DEF Busy, BookShape
  <1>2. \E x \in T : \A y \in T : ~(<<y, x>> \in OpToRel(<, Nat))
    <2> HIDE DEF T
    <2> QED BY <1>1, WFMin, NatLessThanWellFounded
  <1>3. \E x \in T : \A y \in T : x <= y
    <2> HIDE DEF T
    <2>1. ASSUME NEW x \in Nat, NEW y \in Nat, y < x PROVE <<y, x>> \in OpToRel(<, Nat)
        BY <2>1 DEF OpToRel
    <2>2. ASSUME NEW x \in T, NEW y \in T, ~(<<y, x>> \in OpToRel(<, Nat)) PROVE x <= y
      <3>1. x \in Nat /\ y \in Nat /\ ~(y < x)
          BY <1>1, <2>1, <2>2
      <3> QED BY <3>1
    <2> QED BY <1>2, <2>2
  <1> QED BY <1>1, <1>3 DEF Now1

(* What a copy says of a rule that is under way.                             *)
LEMMA SomeForm ==
    ASSUME BookShape, NEW p \in Bookers, NEW r \in work[p].todo
    PROVE  FormOf(index[p], r) \in RuleForms /\ <<r, FormOf(index[p], r)>> \in index[p]
  <1>1. \E entry \in index[p] : entry[1] = r
      BY DEF BookShape
  <1>2. index[p] \subseteq RuleIds \X RuleForms
      BY DEF BookShape
  <1> DEFINE e == CHOOSE entry \in index[p] : entry[1] = r
  <1>3. e \in index[p] /\ e[1] = r
      BY <1>1
  <1> HIDE DEF e
  <1>4. e = <<r, e[2]>> /\ e[2] \in RuleForms
      BY <1>2, <1>3
  <1> QED BY <1>3, <1>4 DEF FormOf, e

(* At the start no process has loaded a rule.                                *)
LEMMA BookInitOK == BookInit => BookShape /\ CopiesWereSo /\ EventsHaveCopies /\ DraftsAreRecent
<1> SUFFICES ASSUME BookInit PROVE BookShape /\ CopiesWereSo /\ EventsHaveCopies /\ DraftsAreRecent
    OBVIOUS
<1>1. /\ \A p \in Bookers : work[p] = AtRest /\ loadedAt[p] = Unread
      /\ stored = {} /\ AtRest.todo = {} /\ AtRest.tx.drafts = {}
    BY DEF BookInit, AtRest, Empty
<1>2. BookShape
  <2>1. work \in [Bookers -> Works]
      BY EmptyWork DEF BookInit
  <2>2. /\ bookTime \in Nat
        /\ status \in [RuleIds -> {"free", "on", "off", "gone"}]
        /\ form \in [RuleIds -> RuleForms]
        /\ lastSaid \in [RuleIds -> [RuleForms -> Nat \cup {Unread}]]
        /\ index \in [Bookers -> SUBSET (RuleIds \X RuleForms)]
        /\ loadedAt \in [Bookers -> Nat \cup {Unread}]
        /\ rowOf \in [RuleIds -> {"absent", "there"} \cup Bookers]
        /\ marked \in [RuleIds -> BOOLEAN]
        /\ stored \in SUBSET Drafts
        /\ bookUses \in [edits : Nat, evaluations : Nat, refusals : Nat]
      BY BookAssumption DEF BookInit
  <2>3. \A p \in Bookers : work[p].todo = {} /\ ~work[p].missed
      BY <1>1 DEF AtRest
  <2> QED BY <2>1, <2>2, <2>3 DEF BookShape, Busy
<1>3. CopiesWereSo /\ EventsHaveCopies /\ DraftsAreRecent
    BY <1>1 DEF CopiesWereSo, EventsHaveCopies, DraftsAreRecent, Busy
<1> QED BY <1>2, <1>3

(* What a process does with the event in its hands.                          *)
OnlyWork(p) ==
    /\ UNCHANGED <<bookTime, status, form, lastSaid, index, loadedAt, marked, stored, bookUses>>
    /\ \A q \in Bookers \ {p} : work'[q] = work[q]
    /\ work'[p].at = work[p].at /\ work'[p].n = work[p].n
    /\ work'[p].open = work[p].open /\ work'[p].event = work[p].event
    /\ work'[p].todo \subseteq work[p].todo

KeptTx(p) ==
    /\ work'[p].tx.purged = work[p].tx.purged /\ work'[p].tx.removed = work[p].tx.removed
    /\ work'[p].tx.stale = work[p].tx.stale

(* What becomes of its transaction: nothing, a rule is matched, a row is     *)
(* inserted, everything is rolled back.                                      *)
SameTx(p) == work'[p].tx = work[p].tx /\ rowOf' = rowOf

Matches(p) ==
    \E r \in work[p].todo : \E alert \in {{}, {[rule |-> r, age |-> Age(p, r), n |-> work[p].n]}} :
        /\ Visible(p, r)
        /\ rowOf' = rowOf
        /\ KeptTx(p)
        /\ work'[p].tx.drafts = work[p].tx.drafts \cup alert
        /\ work'[p].tx.touched = work[p].tx.touched \cup {r}
        /\ work'[p].tx.sent = work[p].tx.sent /\ work'[p].tx.fresh = work[p].tx.fresh

Inserts(p) ==
    \E r \in work[p].todo :
        /\ ~FlushFails(p)
        /\ rowOf' \in {rowOf, [rowOf EXCEPT ![r] = p]}
        /\ rowOf' # rowOf => rowOf[r] = "absent"
        /\ KeptTx(p)
        /\ work'[p].tx.drafts = work[p].tx.drafts /\ work'[p].tx.touched = work[p].tx.touched
        /\ work'[p].tx.sent = work[p].tx.sent \cup {r} \cup work[p].tx.touched
        /\ work'[p].tx.fresh = work[p].tx.fresh \cup {r}

Loses(p) ==
    /\ rowOf' = RowsAfterRollback(p)
    /\ work'[p].tx.drafts = {} /\ work'[p].tx.touched = {}
    /\ work'[p].tx.sent = {} /\ work'[p].tx.fresh = {}
    /\ work'[p].tx.purged = {} /\ work'[p].tx.removed = {}

(* An engine takes an event with what its copy of the rules holds.           *)
LEMMA WorkTaken ==
    ASSUME BookShape, NEW p \in Bookers, NEW v \in Works, work' = [work EXCEPT ![p] = v],
           v.at = work[p].at, v.n = work[p].n, v.open = work[p].open,
           v.event = work[p].event,
           v.todo \subseteq work[p].todo, v.missed => v.todo # {},
           rowOf' \in [RuleIds -> {"absent", "there"} \cup Bookers],
           UNCHANGED <<bookTime, book, index, loadedAt, marked, stored, bookUses>>
    PROVE  BookShape' /\ OnlyWork(p) /\ work'[p] = v
  <1>1. /\ work' \in [Bookers -> Works] /\ work'[p] = v
        /\ \A q \in Bookers \ {p} : work'[q] = work[q]
      BY DEF BookShape
  <1>2. OnlyWork(p)
      BY <1>1 DEF OnlyWork, book
  <1>3. \A q \in Bookers : /\ work'[q].todo \subseteq {entry[1] : entry \in index[q]}
                           /\ work'[q].missed => work'[q].todo # {}
                           /\ work'[q].todo # {} => work'[q].event # NoEvent
    <2> SUFFICES ASSUME NEW q \in Bookers
                 PROVE  /\ work'[q].todo \subseteq {entry[1] : entry \in index[q]}
                        /\ work'[q].missed => work'[q].todo # {}
                        /\ work'[q].todo # {} => work'[q].event # NoEvent
        OBVIOUS
    <2> QED BY <1>1 DEF BookShape, Busy
  <1> QED BY <1>1, <1>2, <1>3 DEF BookShape, book, Busy

(* What one turn of the loop over the rules does to the process that makes it. *)
LEMMA RuleStepShape ==
    ASSUME BookShape, NEW p \in Bookers,
           PassRule(p) \/ MatchRule(p) \/ MissRow(p) \/ InsertRow(p) \/ LoseRow(p)
    PROVE  /\ BookShape' /\ OnlyWork(p)
           /\ SameTx(p) \/ Matches(p) \/ Inserts(p) \/ Loses(p)
  <1> DEFINE w == work[p]
             r == Now1(p)
  <1>0. /\ w \in Works /\ DOMAIN work = Bookers
        /\ rowOf \in [RuleIds -> {"absent", "there"} \cup Bookers]
      BY DEF BookShape
  <1>01. /\ w.at \in Nat /\ w.n \in Nat /\ w.tx \in Txs /\ w.todo \in SUBSET RuleIds
         /\ w.tx.touched \in SUBSET RuleIds
      BY <1>0, WorkFields
  <1>02. w.missed => w.todo # {}
      BY DEF BookShape, Busy
  <1>1. r \in w.todo /\ r \in RuleIds
    <2>1. Busy(p)
        BY <1>02 DEF PassRule, MatchRule, MissRow, InsertRow, LoseRow, Busy
    <2> QED BY <2>1, NextRule
  <1> HIDE DEF r
  <1>2. CASE PassRule(p)
    <2> DEFINE v == [w EXCEPT !.todo = @ \ {r}]
    <2>1. /\ v \in Works /\ v.at = w.at /\ v.n = w.n /\ v.open = w.open /\ v.event = w.event
          /\ v.todo \subseteq w.todo /\ v.missed = w.missed /\ v.tx = w.tx
        BY <1>0 DEF Works
    <2>2. ~w.missed /\ work' = [work EXCEPT ![p].todo = @ \ {r}]
        BY <1>2 DEF PassRule, r
    <2>3. work' = [work EXCEPT ![p] = v]
        BY <1>0, <2>2
    <2> HIDE DEF v
    <2>4. BookShape' /\ OnlyWork(p) /\ work'[p] = v
        BY <1>0, <1>2, <2>1, <2>2, <2>3, WorkTaken DEF PassRule, rowVars
    <2>5. SameTx(p)
        BY <1>2, <2>1, <2>4 DEF SameTx, PassRule, rowVars
    <2> QED BY <2>4, <2>5
  <1>3. CASE MatchRule(p)
    <2>1. PICK alert \in {{}, {[rule |-> r, age |-> Age(p, r), n |-> w.n]}} :
              work' = [work EXCEPT ![p].todo = @ \ {r}, ![p].tx.touched = @ \cup {r},
                                   ![p].tx.drafts = @ \cup alert]
        BY <1>3 DEF MatchRule, r
    <2>2. Age(p, r) \in Int
      <3>1. /\ lastSaid[r][FormOf(index[p], r)] \in Int /\ w.at \in Int
        <4>1. FormOf(index[p], r) \in RuleForms
            BY <1>1, SomeForm
        <4>2. lastSaid \in [RuleIds -> [RuleForms -> Nat \cup {Unread}]]
            BY DEF BookShape
        <4> QED BY <1>01, <1>1, <4>1, <4>2 DEF Unread
      <3> QED BY <3>1 DEF Age
    <2>3. alert \subseteq Drafts
        BY <1>01, <1>1, <2>2 DEF Drafts
    <2> DEFINE t == [w.tx EXCEPT !.touched = @ \cup {r}, !.drafts = @ \cup alert]
               v == [w EXCEPT !.todo = @ \ {r}, !.tx = t]
    <2>4. /\ t \in Txs
          /\ t.drafts = w.tx.drafts \cup alert /\ t.touched = w.tx.touched \cup {r}
          /\ t.sent = w.tx.sent /\ t.fresh = w.tx.fresh /\ t.purged = w.tx.purged
          /\ t.removed = w.tx.removed /\ t.stale = w.tx.stale
        BY <1>01, <1>1, <2>3 DEF Txs
    <2>5. /\ v \in Works /\ v.at = w.at /\ v.n = w.n /\ v.open = w.open /\ v.event = w.event
          /\ v.todo \subseteq w.todo /\ v.missed = w.missed /\ v.tx = t
      <3> HIDE DEF t
      <3> QED BY <1>0, <2>4 DEF Works
    <2>6. work' = [work EXCEPT ![p] = v]
        BY <1>0, <2>1 DEF Works, Txs
    <2> HIDE DEF v, t
    <2>7. ~w.missed
        BY <1>3 DEF MatchRule
    <2>8. BookShape' /\ OnlyWork(p) /\ work'[p] = v
        BY <1>0, <1>3, <2>5, <2>6, <2>7, WorkTaken DEF MatchRule, rowVars
    <2>9. Visible(p, r) /\ rowOf' = rowOf
        BY <1>3 DEF MatchRule, r, rowVars
    <2>10. Matches(p)
        BY <1>1, <2>1, <2>4, <2>5, <2>8, <2>9 DEF Matches, KeptTx
    <2> QED BY <2>8, <2>10
  <1>4. CASE MissRow(p)
    <2> DEFINE v == [w EXCEPT !.missed = TRUE]
    <2>1. /\ v \in Works /\ v.at = w.at /\ v.n = w.n /\ v.open = w.open /\ v.event = w.event
          /\ v.todo = w.todo /\ v.tx = w.tx
        BY <1>0 DEF Works
    <2>2. work' = [work EXCEPT ![p] = v]
        BY <1>0, <1>4 DEF MissRow
    <2> HIDE DEF v
    <2>3. BookShape' /\ OnlyWork(p) /\ work'[p] = v
        BY <1>0, <1>1, <1>4, <2>1, <2>2, WorkTaken DEF MissRow, rowVars
    <2>4. SameTx(p)
        BY <1>4, <2>1, <2>3 DEF SameTx, MissRow, rowVars
    <2> QED BY <2>3, <2>4
  <1>5. CASE InsertRow(p)
    <2> DEFINE t == [w.tx EXCEPT !.fresh = @ \cup {r}, !.sent = @ \cup {r} \cup w.tx.touched]
               v == [w EXCEPT !.missed = FALSE, !.tx = t]
    <2>1. /\ t \in Txs
          /\ t.fresh = w.tx.fresh \cup {r} /\ t.sent = w.tx.sent \cup {r} \cup w.tx.touched
          /\ t.drafts = w.tx.drafts /\ t.touched = w.tx.touched /\ t.purged = w.tx.purged
          /\ t.removed = w.tx.removed /\ t.stale = w.tx.stale
        BY <1>01, <1>1 DEF Txs
    <2>2. /\ v \in Works /\ v.at = w.at /\ v.n = w.n /\ v.open = w.open /\ v.event = w.event
          /\ v.todo = w.todo /\ ~v.missed /\ v.tx = t
      <3> HIDE DEF t
      <3> QED BY <1>0, <2>1 DEF Works
    <2>3. work' = [work EXCEPT ![p].missed = FALSE, ![p].tx.fresh = @ \cup {r},
                               ![p].tx.sent = @ \cup {r} \cup w.tx.touched]
        BY <1>5 DEF InsertRow, r
    <2>4. work' = [work EXCEPT ![p] = v]
        BY <1>0, <2>3 DEF Works, Txs
    <2>5. rowOf' \in [RuleIds -> {"absent", "there"} \cup Bookers]
        BY <1>0, <1>1, <1>5 DEF InsertRow, r
    <2> HIDE DEF v, t
    <2>6. BookShape' /\ OnlyWork(p) /\ work'[p] = v
      <3>1. UNCHANGED <<bookTime, book, index, loadedAt, marked, stored, bookUses>>
          BY <1>5 DEF InsertRow
      <3> QED BY <1>0, <1>1, <2>2, <2>4, <2>5, <3>1, WorkTaken
    <2>7. /\ ~FlushFails(p) /\ rowOf' \in {rowOf, [rowOf EXCEPT ![r] = p]}
          /\ rowOf' # rowOf => rowOf[r] = "absent"
        BY <1>5 DEF InsertRow, r
    <2>8. Inserts(p)
        BY <1>1, <2>1, <2>2, <2>6, <2>7 DEF Inserts, KeptTx
    <2> QED BY <2>6, <2>8
  <1>6. CASE LoseRow(p)
    <2>1. PICK lost \in BOOLEAN :
              work' = [work EXCEPT ![p].missed = FALSE, ![p].tx = [Empty EXCEPT !.dead = lost],
                                   ![p].todo = IF lost THEN @ \ {r} ELSE @]
        BY <1>6 DEF LoseRow, r
    <2> DEFINE t == [Empty EXCEPT !.dead = lost]
               v == [w EXCEPT !.missed = FALSE, !.tx = t, !.todo = IF lost THEN @ \ {r} ELSE @]
    <2>2. /\ t \in Txs
          /\ t.drafts = {} /\ t.touched = {} /\ t.sent = {} /\ t.fresh = {}
          /\ t.purged = {} /\ t.removed = {}
      <3>1. /\ t \in Txs
            /\ t.drafts = Empty.drafts /\ t.touched = Empty.touched /\ t.sent = Empty.sent
            /\ t.fresh = Empty.fresh /\ t.purged = Empty.purged /\ t.removed = Empty.removed
          BY <2>1, EmptyWork DEF Txs
      <3> HIDE DEF t
      <3> QED BY <3>1, EmptyWork
    <2>3. /\ v \in Works /\ v.at = w.at /\ v.n = w.n /\ v.open = w.open /\ v.event = w.event
          /\ v.todo \subseteq w.todo /\ ~v.missed /\ v.tx = t
      <3> HIDE DEF t
      <3> QED BY <1>0, <2>2 DEF Works
    <2>4. work' = [work EXCEPT ![p] = v]
        BY <1>0, <2>1 DEF Works
    <2>5. rowOf' \in [RuleIds -> {"absent", "there"} \cup Bookers]
        BY <1>0, <1>6 DEF LoseRow, RowsAfterRollback
    <2> HIDE DEF v, t
    <2>6. BookShape' /\ OnlyWork(p) /\ work'[p] = v
      <3>1. UNCHANGED <<bookTime, book, index, loadedAt, marked, stored, bookUses>>
          BY <1>6 DEF LoseRow
      <3> QED BY <1>0, <1>1, <2>3, <2>4, <2>5, <3>1, WorkTaken
    <2>7. rowOf' = RowsAfterRollback(p)
        BY <1>6 DEF LoseRow
    <2>8. Loses(p)
        BY <2>2, <2>3, <2>6, <2>7 DEF Loses
    <2> QED BY <2>6, <2>8
  <1> QED BY <1>2, <1>3, <1>4, <1>5, <1>6

(* A commit ends the transaction of its process; in another process it can   *)
(* only make a row outdated.                                                 *)
LEMMA CommitEffect ==
    ASSUME BookShape, NEW p \in Bookers, Committed(p), NEW q \in Bookers, q # p
    PROVE  /\ work'[q] \in Works
           /\ work'[q].open = work[q].open /\ work'[q].event = work[q].event
           /\ work'[q].at = work[q].at /\ work'[q].n = work[q].n
           /\ work'[q].todo = work[q].todo /\ work'[q].missed = work[q].missed
           /\ work'[q].tx.drafts = work[q].tx.drafts /\ work'[q].tx.touched = work[q].tx.touched
           /\ work'[q].tx.sent = work[q].tx.sent /\ work'[q].tx.fresh = work[q].tx.fresh
           /\ work'[q].tx.purged = work[q].tx.purged /\ work'[q].tx.removed = work[q].tx.removed
           /\ IF Outdated(p, q) THEN work'[q].tx.stale = TRUE ELSE work'[q] = work[q]
  <1>0. work[q] \in Works /\ work[q].tx \in Txs
      BY WorkFields DEF BookShape
  <1>1. CASE Outdated(p, q)
    <2> DEFINE t == [work[q].tx EXCEPT !.stale = TRUE]
               v == [work[q] EXCEPT !.tx = t]
    <2>1. /\ t \in Txs /\ t.drafts = work[q].tx.drafts /\ t.touched = work[q].tx.touched
          /\ t.sent = work[q].tx.sent /\ t.fresh = work[q].tx.fresh
          /\ t.purged = work[q].tx.purged /\ t.removed = work[q].tx.removed
          /\ t.stale = TRUE
        BY <1>0 DEF Txs
    <2>2. work'[q] = v
        BY <1>0, <1>1 DEF Committed, Works
    <2>3. /\ v \in Works /\ v.open = work[q].open /\ v.event = work[q].event
          /\ v.at = work[q].at /\ v.n = work[q].n /\ v.todo = work[q].todo
          /\ v.missed = work[q].missed /\ v.tx = t
      <3> HIDE DEF t
      <3> QED BY <1>0, <2>1 DEF Works
    <2> HIDE DEF t, v
    <2> QED BY <1>1, <2>1, <2>2, <2>3
  <1>2. CASE ~Outdated(p, q)
    <2>1. work'[q] = work[q]
        BY <1>2 DEF Committed
    <2> QED BY <1>0, <1>2, <2>1
  <1> QED BY <1>1, <1>2

(* A reprocessing begins with the rows and alerts it takes away.             *)
Reprocesses(chosen, removed, rows) ==
    /\ work'[Reprocessor] \in Works
    /\ work'[Reprocessor].todo = {} /\ work'[Reprocessor].missed = FALSE
    /\ work'[Reprocessor].tx.drafts = {} /\ work'[Reprocessor].tx.touched = {}
    /\ work'[Reprocessor].tx.sent = {} /\ work'[Reprocessor].tx.fresh = {}
    /\ work'[Reprocessor].tx.purged = rows /\ work'[Reprocessor].tx.removed = removed

LEMMA ReprocessEffect ==
    ASSUME BookShape, BeginReprocess
    PROVE  /\ \E chosen \in SUBSET RuleIds : \E removed \in SUBSET stored :
                /\ \A a \in removed : a.rule \in chosen
                /\ index' = [index EXCEPT ![Reprocessor] = {<<r, form[r]>> : r \in chosen}]
                /\ \A q \in Engines :
                      work[q].tx.sent \cap {r \in chosen : rowOf[r] = "there"} = {}
                /\ Reprocesses(chosen, removed, {r \in chosen : rowOf[r] = "there"})
           /\ \A q \in Bookers \ {Reprocessor} : work'[q] = work[q]
           /\ DOMAIN work' = Bookers
  <1> DEFINE w == work[Reprocessor]
             on == {q \in RuleIds : status[q] = "on"}
  <1>0. Reprocessor \in Bookers /\ DOMAIN work = Bookers
      BY DEF BookShape, Bookers
  <1>1. PICK chosen \in ({{r} : r \in on} \cup {on}) \ {{}} :
        \E removed \in SUBSET {a \in stored : a.rule \in chosen} :
            /\ \A q \in Engines : work[q].tx.sent \cap {r \in chosen : rowOf[r] = "there"} = {}
            /\ work' = [work EXCEPT ![Reprocessor].open = TRUE,
                             ![Reprocessor].tx.purged = {r \in chosen : rowOf[r] = "there"},
                             ![Reprocessor].tx.removed = removed]
            /\ index' = [index EXCEPT ![Reprocessor] = {<<r, form[r]>> : r \in chosen}]
      BY DEF BeginReprocess
  <1>2. PICK removed \in SUBSET {a \in stored : a.rule \in chosen} :
            /\ \A q \in Engines : work[q].tx.sent \cap {r \in chosen : rowOf[r] = "there"} = {}
            /\ work' = [work EXCEPT ![Reprocessor].open = TRUE,
                             ![Reprocessor].tx.purged = {r \in chosen : rowOf[r] = "there"},
                             ![Reprocessor].tx.removed = removed]
            /\ index' = [index EXCEPT ![Reprocessor] = {<<r, form[r]>> : r \in chosen}]
      BY <1>1
  <1> DEFINE rows == {r \in chosen : rowOf[r] = "there"}
             t == [w.tx EXCEPT !.purged = rows, !.removed = removed]
             v == [w EXCEPT !.open = TRUE, !.tx = t]
  <1>3. chosen \in SUBSET RuleIds /\ rows \in SUBSET RuleIds
      OBVIOUS
  <1>4. w = AtRest /\ w \in Works /\ w.tx = Empty /\ w.tx \in Txs
    <2>1. w = AtRest
        BY DEF BeginReprocess
    <2> QED BY <2>1, EmptyWork
  <1>5. removed \in SUBSET Drafts
      BY DEF BookShape
  <1> HIDE DEF rows
  <1>6. /\ t \in Txs /\ t.drafts = {} /\ t.touched = {} /\ t.sent = {} /\ t.fresh = {}
        /\ t.purged = rows /\ t.removed = removed
    <2>1. /\ t \in Txs /\ t.drafts = w.tx.drafts /\ t.touched = w.tx.touched /\ t.sent = w.tx.sent
          /\ t.fresh = w.tx.fresh /\ t.purged = rows /\ t.removed = removed
        BY <1>3, <1>4, <1>5 DEF Txs
    <2> HIDE DEF t
    <2> QED BY <1>4, <2>1, EmptyWork
  <1>7. v \in Works /\ v.todo = {} /\ v.missed = FALSE /\ v.tx = t
    <2>1. v \in Works /\ v.todo = w.todo /\ v.missed = w.missed /\ v.tx = t
      <3> HIDE DEF t
      <3> QED BY <1>4, <1>6 DEF Works
    <2> HIDE DEF t, v
    <2> QED BY <1>4, <2>1, EmptyWork
  <1>8. work' = [work EXCEPT ![Reprocessor] = v]
      BY <1>0, <1>2, <1>4 DEF Works, Txs, rows
  <1>9. Reprocesses(chosen, removed, rows)
    <2> HIDE DEF t, v
    <2> QED BY <1>0, <1>6, <1>7, <1>8 DEF Reprocesses
  <1>10. /\ \A q \in Bookers \ {Reprocessor} : work'[q] = work[q]
         /\ DOMAIN work' = Bookers
      BY <1>0, <1>8
  <1> QED BY <1>2, <1>3, <1>9, <1>10 DEF rows

(* Every step keeps the shapes.                                              *)
LEMMA BookShapeStep == BookShape /\ [BookNext]_BookVars => BookShape'
<1> SUFFICES ASSUME BookShape, [BookNext]_BookVars PROVE BookShape'
    OBVIOUS
<1>0. /\ work \in [Bookers -> Works] /\ bookTime \in Nat
      /\ bookUses \in [edits : Nat, evaluations : Nat, refusals : Nat]
      /\ loadedAt \in [Bookers -> Nat \cup {Unread}]
      /\ index \in [Bookers -> SUBSET (RuleIds \X RuleForms)]
      /\ stored \in SUBSET Drafts
      /\ rowOf \in [RuleIds -> {"absent", "there"} \cup Bookers]
      /\ marked \in [RuleIds -> BOOLEAN]
    BY DEF BookShape
<1>1. CASE BookTick
    BY <1>1 DEF BookTick, BookShape, book, rowVars, Busy
<1>2. ASSUME NEW r \in RuleIds, CreateRule(r) \/ UpdateRule(r) \/ SwitchRule(r)
      PROVE  BookShape'
  <2>1. /\ bookUses' \in [edits : Nat, evaluations : Nat, refusals : Nat]
        /\ lastSaid' \in [RuleIds -> [RuleForms -> Nat \cup {Unread}]]
        /\ status' \in [RuleIds -> {"free", "on", "off", "gone"}]
        /\ form' \in [RuleIds -> RuleForms]
    <3>1. lastSaid' \in [RuleIds -> [RuleForms -> Nat \cup {Unread}]]
      <4>1. lastSaid \in [RuleIds -> [RuleForms -> Nat \cup {Unread}]]
          BY DEF BookShape
      <4>2. [lastSaid EXCEPT ![r][form[r]] = bookTime] \in [RuleIds -> [RuleForms -> Nat \cup {Unread}]]
          BY <1>0, <4>1
      <4>3. lastSaid' \in {lastSaid, [lastSaid EXCEPT ![r][form[r]] = bookTime]}
          BY <1>2 DEF CreateRule, UpdateRule, SwitchRule, Unsaid
      <4> QED BY <4>1, <4>2, <4>3
    <3>2. bookUses' \in [edits : Nat, evaluations : Nat, refusals : Nat]
        BY <1>0, <1>2 DEF CreateRule, UpdateRule, SwitchRule, Use
    <3>3. CASE CreateRule(r)
        BY <3>1, <3>2, <3>3 DEF CreateRule, BookShape
    <3>4. CASE UpdateRule(r)
        BY <3>1, <3>2, <3>4 DEF UpdateRule, BookShape
    <3>5. CASE SwitchRule(r)
        BY <3>1, <3>2, <3>5 DEF SwitchRule, BookShape
    <3> QED BY <1>2, <3>3, <3>4, <3>5
  <2>2. UNCHANGED <<bookTime, index, loadedAt, work, rowOf, marked, stored>>
      BY <1>2 DEF CreateRule, UpdateRule, SwitchRule, rowVars
  <2> QED BY <2>1, <2>2 DEF BookShape, Busy
<1>3. ASSUME NEW r \in RuleIds, DeleteRule(r) PROVE BookShape'
  <2>1. /\ bookUses' \in [edits : Nat, evaluations : Nat, refusals : Nat]
        /\ lastSaid' \in [RuleIds -> [RuleForms -> Nat \cup {Unread}]]
        /\ status' \in [RuleIds -> {"free", "on", "off", "gone"}]
        /\ rowOf' \in [RuleIds -> {"absent", "there"} \cup Bookers]
        /\ marked' \in [RuleIds -> BOOLEAN]
      BY <1>3 DEF DeleteRule, Use, Unsaid, BookShape
  <2>2. stored' \in SUBSET Drafts
    <3>1. \A a \in Drafts : [a EXCEPT !.rule = NoRule] \in Drafts
        BY DEF Drafts
    <3> QED BY <1>0, <1>3, <3>1 DEF DeleteRule
  <2>3. UNCHANGED <<bookTime, form, index, loadedAt, work>>
      BY <1>3 DEF DeleteRule
  <2> QED BY <2>1, <2>2, <2>3 DEF BookShape, Busy
<1>4. ASSUME NEW p \in Bookers, BeginEvent(p) PROVE BookShape'
  <2> DEFINE copy == IF Reloads(p) THEN Enabled ELSE index[p]
  <2>1. PICK e \in BookEvents :
            work' = [work EXCEPT ![p].event = e, ![p].open = TRUE, ![p].at = bookTime,
                                 ![p].n = bookUses.evaluations,
                                 ![p].todo = {entry[1] : entry \in Candidates(copy, e)}]
      BY <1>4 DEF BeginEvent
  <2>2. copy \in SUBSET (RuleIds \X RuleForms)
      BY <1>0 DEF Enabled, BookShape
  <2>3. index' = [index EXCEPT ![p] = copy]
      BY <1>4 DEF BeginEvent
  <2> HIDE DEF copy
  <2>4. Candidates(copy, e) \subseteq copy
      BY DEF Candidates
  <2> DEFINE todo == {entry[1] : entry \in Candidates(copy, e)}
             w == work[p]
             v == [w EXCEPT !.event = e, !.open = TRUE, !.at = bookTime, !.n = bookUses.evaluations,
                            !.todo = todo]
  <2>5. todo \in SUBSET RuleIds /\ todo \subseteq {entry[1] : entry \in copy}
      BY <2>2, <2>4
  <2> HIDE DEF todo
  <2>61. w \in Works /\ bookUses.evaluations \in Nat /\ bookTime \in Nat
      BY <1>0
  <2>6. v \in Works /\ v.todo = todo /\ v.event = e
      BY <2>61, <2>5 DEF Works
  <2>7. v.missed = w.missed
      BY <1>0 DEF Works
  <2>8. work' = [work EXCEPT ![p] = v]
      BY <1>0, <2>1 DEF todo
  <2> HIDE DEF v
  <2>9. /\ work' \in [Bookers -> Works] /\ work'[p] = v
        /\ \A q \in Bookers \ {p} : work'[q] = work[q] /\ index'[q] = index[q]
        /\ index' \in [Bookers -> SUBSET (RuleIds \X RuleForms)] /\ index'[p] = copy
        /\ loadedAt' \in [Bookers -> Nat \cup {Unread}]
        /\ bookUses' \in [edits : Nat, evaluations : Nat, refusals : Nat]
    <3>1. work' \in [Bookers -> Works] /\ work'[p] = v /\ \A q \in Bookers \ {p} : work'[q] = work[q]
        BY <1>0, <2>6, <2>8
    <3>2. /\ \A q \in Bookers \ {p} : index'[q] = index[q]
          /\ index' \in [Bookers -> SUBSET (RuleIds \X RuleForms)] /\ index'[p] = copy
        BY <1>0, <2>2, <2>3
    <3>3. loadedAt' \in [Bookers -> Nat \cup {Unread}]
        BY <1>0, <1>4 DEF BeginEvent
    <3>4. bookUses' \in [edits : Nat, evaluations : Nat, refusals : Nat]
        BY <1>0, <1>4 DEF BeginEvent, Use
    <3> QED BY <3>1, <3>2, <3>3, <3>4
  <2>10. ~w.missed
      BY <1>4 DEF BeginEvent, BookShape
  <2>13. e # NoEvent
      BY BookAssumption DEF NoEvent
  <2>11. \A q \in Bookers : /\ work'[q].todo \subseteq {entry[1] : entry \in index'[q]}
                            /\ work'[q].missed => work'[q].todo # {}
                            /\ work'[q].todo # {} => work'[q].event # NoEvent
    <3> SUFFICES ASSUME NEW q \in Bookers
                 PROVE  /\ work'[q].todo \subseteq {entry[1] : entry \in index'[q]}
                        /\ work'[q].missed => work'[q].todo # {}
                        /\ work'[q].todo # {} => work'[q].event # NoEvent
        OBVIOUS
    <3>1. CASE q = p
        BY <2>5, <2>6, <2>7, <2>9, <2>10, <2>13, <3>1
    <3>2. CASE q # p
        BY <2>9, <3>2 DEF BookShape, Busy
    <3> QED BY <3>1, <3>2
  <2>12. UNCHANGED <<bookTime, status, form, lastSaid, rowOf, marked, stored>>
      BY <1>4 DEF BeginEvent, book, rowVars
  <2>14. /\ UNCHANGED <<bookTime, status, form, lastSaid, rowOf, marked, stored>>
         /\ work' \in [Bookers -> Works]
         /\ index' \in [Bookers -> SUBSET (RuleIds \X RuleForms)]
         /\ loadedAt' \in [Bookers -> Nat \cup {Unread}]
         /\ bookUses' \in [edits : Nat, evaluations : Nat, refusals : Nat]
      BY <2>9, <2>12
  <2>15. \A q \in Bookers : /\ (work[q].todo \subseteq {entry[1] : entry \in index[q]})'
                            /\ (work[q].missed => Busy(q))'
                            /\ (Busy(q) => work[q].event # NoEvent)'
      BY <2>11 DEF Busy
  <2> QED BY <2>14, <2>15 DEF BookShape
<1>5. ASSUME NEW p \in Bookers,
             PassRule(p) \/ MatchRule(p) \/ MissRow(p) \/ InsertRow(p) \/ LoseRow(p)
      PROVE  BookShape'
    BY <1>5, RuleStepShape
<1>6. ASSUME NEW p \in Bookers, Finish(p) \/ Abandon(p) PROVE BookShape'
  <2>1. CASE Finish(p) /\ Committed(p)
    <3> DEFINE tx == work[p].tx
    <3>0. /\ tx.drafts \in SUBSET Drafts /\ tx.fresh \in SUBSET RuleIds
      BY <1>0, WorkFields
    <3>1. /\ stored' \in SUBSET Drafts
          /\ rowOf' \in [RuleIds -> {"absent", "there"} \cup Bookers]
          /\ marked' \in [RuleIds -> BOOLEAN]
      <4>1. stored' \in SUBSET Drafts
          BY <1>0, <2>1, <3>0 DEF Committed
      <4>2. rowOf' \in [RuleIds -> {"absent", "there"} \cup Bookers]
          BY <1>0, <2>1 DEF Committed
      <4>3. marked' \in [RuleIds -> BOOLEAN]
          BY <1>0, <2>1 DEF Committed
      <4> QED BY <4>1, <4>2, <4>3
    <3>2. ASSUME NEW q \in Bookers
          PROVE  /\ work'[q] \in Works
                 /\ \/ work'[q] = AtRest
                    \/ /\ work'[q].todo = work[q].todo /\ work'[q].event = work[q].event
                       /\ work'[q].missed = work[q].missed
      <4>1. CASE q = p
          BY <2>1, <4>1, EmptyWork DEF Committed
      <4>2. CASE q # p
          BY <2>1, <4>2, CommitEffect
      <4> QED BY <4>1, <4>2
    <3>3. work' \in [Bookers -> Works]
        BY <2>1, <3>2 DEF Committed
    <3>4. UNCHANGED <<bookTime, status, form, lastSaid, index, loadedAt, bookUses>>
        BY <2>1 DEF Finish, book
    <3>5. ASSUME NEW q \in Bookers
          PROVE  /\ work'[q].todo \subseteq {entry[1] : entry \in index'[q]}
                 /\ work'[q].missed => work'[q].todo # {}
                 /\ work'[q].todo # {} => work'[q].event # NoEvent
        BY <3>2, <3>4 DEF AtRest, BookShape, Busy
    <3> QED BY <3>1, <3>3, <3>4, <3>5 DEF BookShape, Busy
  <2>2. CASE RolledBack(p)
    <3>1. /\ rowOf' \in [RuleIds -> {"absent", "there"} \cup Bookers]
          /\ UNCHANGED <<marked, stored>>
        BY <1>0, <2>2 DEF RolledBack, RowsAfterRollback
    <3>2. /\ work' \in [Bookers -> Works]
          /\ \A q \in Bookers : work'[q] = AtRest \/ work'[q] = work[q]
        BY <1>0, <2>2, EmptyWork DEF RolledBack
    <3>3. UNCHANGED <<bookTime, status, form, lastSaid, index, loadedAt>>
          /\ bookUses' \in [edits : Nat, evaluations : Nat, refusals : Nat]
        BY <1>0, <1>6 DEF Finish, Abandon, Use, book
    <3>4. ASSUME NEW q \in Bookers
          PROVE  /\ work'[q].todo \subseteq {entry[1] : entry \in index'[q]}
                 /\ work'[q].missed => work'[q].todo # {}
                 /\ work'[q].todo # {} => work'[q].event # NoEvent
        BY <3>2, <3>3 DEF AtRest, BookShape, Busy
    <3> QED BY <3>1, <3>2, <3>3, <3>4 DEF BookShape, Busy
  <2> QED BY <1>6, <2>1, <2>2 DEF Finish, Abandon
<1>7. CASE BeginReprocess
  <2>1. PICK chosen \in SUBSET RuleIds, removed \in SUBSET stored :
            /\ index' = [index EXCEPT ![Reprocessor] = {<<r, form[r]>> : r \in chosen}]
            /\ Reprocesses(chosen, removed, {r \in chosen : rowOf[r] = "there"})
      BY <1>7, ReprocessEffect
  <2>2. /\ work' \in [Bookers -> Works] /\ Reprocessor \in Bookers
        /\ work'[Reprocessor].todo = {} /\ work'[Reprocessor].missed = FALSE
        /\ \A q \in Bookers \ {Reprocessor} : work'[q] = work[q]
    <3>1. /\ \A q \in Bookers \ {Reprocessor} : work'[q] = work[q]
          /\ DOMAIN work' = Bookers
        BY <1>7, ReprocessEffect
    <3>2. /\ work'[Reprocessor].todo = {} /\ work'[Reprocessor].missed = FALSE
          /\ work'[Reprocessor] \in Works
        BY <2>1 DEF Reprocesses
    <3>3. work' = [q \in Bookers |-> work'[q]]
        BY <1>7 DEF BeginReprocess, BookShape
    <3> QED BY <1>0, <3>1, <3>2, <3>3 DEF Bookers
  <2>3. /\ index' \in [Bookers -> SUBSET (RuleIds \X RuleForms)]
        /\ \A q \in Bookers \ {Reprocessor} : index'[q] = index[q]
    <3>1. {<<r, form[r]>> : r \in chosen} \in SUBSET (RuleIds \X RuleForms)
        BY DEF BookShape
    <3> QED BY <1>0, <2>1, <3>1
  <2>4. /\ UNCHANGED <<bookTime, status, form, lastSaid, rowOf, marked, stored, bookUses>>
        /\ loadedAt' \in [Bookers -> Nat \cup {Unread}]
      BY <1>0, <1>7 DEF BeginReprocess, book, rowVars
  <2>5. ASSUME NEW q \in Bookers
        PROVE  /\ work'[q].todo \subseteq {entry[1] : entry \in index'[q]}
               /\ work'[q].missed => work'[q].todo # {}
               /\ work'[q].todo # {} => work'[q].event # NoEvent
      BY <2>2, <2>3 DEF BookShape, Busy
  <2> QED BY <2>2, <2>3, <2>4, <2>5 DEF BookShape, Busy
<1>8. CASE NextEvent
  <2> DEFINE w == work[Reprocessor]
             v == [w EXCEPT !.event = NoEvent]
  <2>1. w \in Works /\ Reprocessor \in Bookers
      BY <1>0 DEF Bookers
  <2>2. v \in Works /\ v.todo = w.todo /\ v.missed = w.missed
      BY <2>1 DEF Works
  <2>3. work' = [work EXCEPT ![Reprocessor] = v] /\ w.todo = {}
      BY <1>8 DEF NextEvent, Busy
  <2> HIDE DEF v
  <2>4. /\ work' \in [Bookers -> Works]
        /\ work'[Reprocessor].todo = {} /\ work'[Reprocessor].missed = w.missed
        /\ \A q \in Bookers \ {Reprocessor} : work'[q] = work[q]
      BY <1>0, <2>1, <2>2, <2>3
  <2>5. UNCHANGED <<bookTime, status, form, lastSaid, index, loadedAt, rowOf, marked, stored, bookUses>>
      BY <1>8 DEF NextEvent, book, rowVars
  <2>6. ASSUME NEW q \in Bookers
        PROVE  /\ work'[q].todo \subseteq {entry[1] : entry \in index'[q]}
               /\ work'[q].missed => work'[q].todo # {}
               /\ work'[q].todo # {} => work'[q].event # NoEvent
      BY <2>3, <2>4, <2>5 DEF BookShape, Busy
  <2> QED BY <2>4, <2>5, <2>6 DEF BookShape, Busy
<1>9. CASE UNCHANGED BookVars
    BY <1>9 DEF BookVars, book, rowVars, BookShape, Busy
<1> QED BY <1>1, <1>2, <1>3, <1>4, <1>5, <1>6, <1>7, <1>8, <1>9 DEF BookNext, Evaluate1

(* What is said of a rule is taken back at a time the copies were loaded by. *)
LEMMA CopiesStep ==
    BookShape /\ CopiesWereSo /\ EventsHaveCopies /\ [BookNext]_BookVars
        => CopiesWereSo' /\ EventsHaveCopies'
<1> SUFFICES ASSUME BookShape, CopiesWereSo, EventsHaveCopies, [BookNext]_BookVars
             PROVE  CopiesWereSo' /\ EventsHaveCopies'
    OBVIOUS
<1>0. /\ work \in [Bookers -> Works] /\ bookTime \in Nat
      /\ loadedAt \in [Bookers -> Nat \cup {Unread}]
      /\ index \in [Bookers -> SUBSET (RuleIds \X RuleForms)]
      /\ status \in [RuleIds -> {"free", "on", "off", "gone"}]
      /\ form \in [RuleIds -> RuleForms]
      /\ lastSaid \in [RuleIds -> [RuleForms -> Nat \cup {Unread}]]
      /\ Unread \notin Nat
    BY DEF BookShape, Unread
<1>1. ASSUME UNCHANGED <<book, index, loadedAt>>, bookTime' \in Nat, bookTime' >= bookTime,
             \A p \in Bookers : \/ work'[p].todo = {}
                                \/ work'[p].at = work[p].at /\ work'[p].todo \subseteq work[p].todo
      PROVE  CopiesWereSo' /\ EventsHaveCopies'
  <2>1. CopiesWereSo'
      BY <1>0, <1>1 DEF CopiesWereSo, book
  <2>2. EventsHaveCopies'
      BY <1>1 DEF EventsHaveCopies, Busy
  <2> QED BY <2>1, <2>2
<1>2. ASSUME NEW r \in RuleIds, UNCHANGED <<bookTime, index, loadedAt, work>>,
             \A q \in RuleIds \ {r} : status'[q] = status[q] /\ form'[q] = form[q]
                                     /\ lastSaid'[q] = lastSaid[q],
             \/ lastSaid' = lastSaid /\ status[r] # "on"
             \/ lastSaid' = [lastSaid EXCEPT ![r][form[r]] = bookTime]
      PROVE  CopiesWereSo' /\ EventsHaveCopies'
  <2>1. CopiesWereSo'
    <3> SUFFICES ASSUME NEW p \in Bookers, loadedAt[p] # Unread,
                        NEW q \in RuleIds, NEW f \in RuleForms, <<q, f>> \in index[p]
                 PROVE  \/ status'[q] = "on" /\ form'[q] = f
                        \/ lastSaid'[q][f] >= loadedAt[p]
        BY <1>0, <1>2 DEF CopiesWereSo
    <3>1. /\ loadedAt[p] <= bookTime
          /\ \/ status[q] = "on" /\ form[q] = f
             \/ lastSaid[q][f] >= loadedAt[p]
        BY DEF CopiesWereSo
    <3>2. CASE q = r
        BY <1>0, <1>2, <3>1, <3>2
    <3>3. CASE q # r
        BY <1>2, <3>1, <3>3
    <3> QED BY <3>2, <3>3
  <2>2. EventsHaveCopies'
      BY <1>2 DEF EventsHaveCopies, Busy
  <2> QED BY <2>1, <2>2
<1>3. CASE BookTick
    BY <1>0, <1>1, <1>3 DEF BookTick
<1>4. ASSUME NEW r \in RuleIds, CreateRule(r) PROVE CopiesWereSo' /\ EventsHaveCopies'
  <2>1. /\ UNCHANGED <<bookTime, index, loadedAt, work>> /\ lastSaid' = lastSaid
        /\ status[r] # "on"
        /\ \A q \in RuleIds \ {r} : status'[q] = status[q] /\ form'[q] = form[q]
      BY <1>0, <1>4 DEF CreateRule
  <2> QED BY <1>2, <2>1
<1>5. ASSUME NEW r \in RuleIds, UpdateRule(r) \/ SwitchRule(r) \/ DeleteRule(r)
      PROVE  CopiesWereSo' /\ EventsHaveCopies'
  <2>1. /\ UNCHANGED <<bookTime, index, loadedAt, work>> /\ lastSaid' = Unsaid(r)
        /\ \A q \in RuleIds \ {r} : status'[q] = status[q] /\ form'[q] = form[q]
      BY <1>0, <1>5 DEF UpdateRule, SwitchRule, DeleteRule
  <2>2. \A q \in RuleIds \ {r} : lastSaid'[q] = lastSaid[q]
      BY <1>0, <2>1 DEF Unsaid
  <2> QED BY <1>2, <2>1, <2>2 DEF Unsaid
<1>6. ASSUME NEW p \in Bookers, BeginEvent(p) PROVE CopiesWereSo' /\ EventsHaveCopies'
  <2>1. /\ UNCHANGED <<bookTime, status, form, lastSaid>>
        /\ \A q \in Bookers \ {p} : /\ work'[q] = work[q] /\ index'[q] = index[q]
                                    /\ loadedAt'[q] = loadedAt[q]
        /\ work'[p].at = bookTime
      BY <1>0, <1>6 DEF BeginEvent, book, Works
  <2>2. CASE Reloads(p)
    <3>1. index'[p] = Enabled /\ loadedAt'[p] = bookTime
        BY <1>0, <1>6, <2>2 DEF BeginEvent
    <3>2. ASSUME NEW r \in RuleIds, NEW f \in RuleForms, <<r, f>> \in Enabled
          PROVE  status[r] = "on" /\ form[r] = f
        BY <3>2 DEF Enabled
    <3>3. CopiesWereSo'
        BY <1>0, <2>1, <3>1, <3>2 DEF CopiesWereSo
    <3>4. EventsHaveCopies'
        BY <1>0, <2>1, <3>1, BookAssumption DEF EventsHaveCopies, Busy
    <3> QED BY <3>3, <3>4
  <2>3. CASE ~Reloads(p)
    <3>1. index'[p] = index[p] /\ loadedAt'[p] = loadedAt[p]
        BY <1>0, <1>6, <2>3 DEF BeginEvent
    <3>2. loadedAt[p] # Unread /\ bookTime - loadedAt[p] < Ttl
      <4>1. loadedAt[p] # Unread /\ ~(bookTime - loadedAt[p] >= Ttl)
          BY <2>3 DEF Reloads
      <4> QED BY <1>0, <4>1, BookAssumption
    <3>3. CopiesWereSo'
        BY <2>1, <3>1 DEF CopiesWereSo
    <3>4. EventsHaveCopies'
        BY <2>1, <3>1, <3>2 DEF EventsHaveCopies, Busy
    <3> QED BY <3>3, <3>4
  <2> QED BY <2>2, <2>3
<1>7. ASSUME NEW p \in Bookers,
             PassRule(p) \/ MatchRule(p) \/ MissRow(p) \/ InsertRow(p) \/ LoseRow(p)
      PROVE  CopiesWereSo' /\ EventsHaveCopies'
  <2>1. OnlyWork(p)
      BY <1>7, RuleStepShape
  <2> QED BY <1>0, <1>1, <2>1 DEF OnlyWork, book
<1>8. ASSUME NEW p \in Bookers, Finish(p) \/ Abandon(p)
      PROVE  CopiesWereSo' /\ EventsHaveCopies'
  <2>1. UNCHANGED <<book, index, loadedAt, bookTime>>
      BY <1>8 DEF Finish, Abandon
  <2>2. \A q \in Bookers : \/ work'[q] = AtRest
                           \/ work'[q].at = work[q].at /\ work'[q].todo = work[q].todo
    <3>1. CASE Committed(p)
      <4> SUFFICES ASSUME NEW q \in Bookers
                   PROVE  \/ work'[q] = AtRest
                          \/ work'[q].at = work[q].at /\ work'[q].todo = work[q].todo
          OBVIOUS
      <4>1. CASE q = p
          BY <3>1, <4>1 DEF Committed
      <4>2. CASE q # p
          BY <3>1, <4>2, CommitEffect
      <4> QED BY <4>1, <4>2
    <3>2. CASE RolledBack(p)
      <4>1. \A q \in Bookers : work'[q] = AtRest \/ work'[q] = work[q]
          BY <1>0, <3>2 DEF RolledBack
      <4> QED BY <4>1
    <3> QED BY <1>8, <3>1, <3>2 DEF Finish, Abandon
  <2> QED BY <1>0, <1>1, <2>1, <2>2 DEF AtRest
<1>9. CASE BeginReprocess
  <2>1. /\ UNCHANGED <<bookTime, status, form, lastSaid>>
        /\ \A q \in Bookers \ {Reprocessor} :
              work'[q] = work[q] /\ index'[q] = index[q] /\ loadedAt'[q] = loadedAt[q]
        /\ loadedAt'[Reprocessor] = Unread
      BY <1>0, <1>9 DEF BeginReprocess, book, Bookers
  <2>2. work'[Reprocessor].todo = {}
      BY <1>9, ReprocessEffect DEF Reprocesses
  <2>3. CopiesWereSo'
      BY <2>1 DEF CopiesWereSo
  <2>4. EventsHaveCopies'
      BY <2>1, <2>2 DEF EventsHaveCopies, Busy
  <2> QED BY <2>3, <2>4
<1>10. CASE NextEvent
  <2>1. UNCHANGED <<book, index, loadedAt, bookTime>>
      BY <1>10 DEF NextEvent
  <2>2. \A q \in Bookers : work'[q].at = work[q].at /\ work'[q].todo = work[q].todo
      BY <1>0, <1>10 DEF NextEvent, Works
  <2> QED BY <1>0, <1>1, <2>1, <2>2
<1>11. CASE UNCHANGED BookVars
    BY <1>0, <1>1, <1>11 DEF BookVars
<1> QED BY <1>3, <1>4, <1>5, <1>6, <1>7, <1>8, <1>9, <1>10, <1>11 DEF BookNext, Evaluate1

(* The evaluation of a rule adds drafts only for what its copy says.         *)
LEMMA DraftsStep ==
    BookShape /\ CopiesWereSo /\ EventsHaveCopies /\ DraftsAreRecent /\ [BookNext]_BookVars
        => DraftsAreRecent'
<1> SUFFICES ASSUME BookShape, CopiesWereSo, EventsHaveCopies, DraftsAreRecent, [BookNext]_BookVars
             PROVE  DraftsAreRecent'
    OBVIOUS
<1>0. /\ work \in [Bookers -> Works] /\ stored \in SUBSET Drafts
      /\ lastSaid \in [RuleIds -> [RuleForms -> Nat \cup {Unread}]]
      /\ loadedAt \in [Bookers -> Nat \cup {Unread}]
    BY DEF BookShape
<1>1. ASSUME UNCHANGED stored, \A p \in Bookers : work'[p].tx.drafts \subseteq work[p].tx.drafts
      PROVE  DraftsAreRecent'
    BY <1>1 DEF DraftsAreRecent
<1>2. CASE BookTick
    BY <1>1, <1>2 DEF BookTick, rowVars
<1>3. ASSUME NEW r \in RuleIds, CreateRule(r) \/ UpdateRule(r) \/ SwitchRule(r)
      PROVE  DraftsAreRecent'
    BY <1>1, <1>3 DEF CreateRule, UpdateRule, SwitchRule, rowVars
<1>4. ASSUME NEW r \in RuleIds, DeleteRule(r) PROVE DraftsAreRecent'
  <2>1. \A a \in Drafts : [a EXCEPT !.rule = NoRule].age = a.age
      BY DEF Drafts
  <2>2. \A b \in stored' : \E a \in stored : b.age = a.age
      BY <1>0, <1>4, <2>1 DEF DeleteRule
  <2>3. work' = work
      BY <1>4 DEF DeleteRule
  <2> QED BY <2>2, <2>3 DEF DraftsAreRecent
<1>5. ASSUME NEW p \in Bookers, BeginEvent(p) PROVE DraftsAreRecent'
  <2>1. stored' = stored /\ \A q \in Bookers : work'[q].tx = work[q].tx
      BY <1>0, <1>5 DEF BeginEvent, rowVars, Works
  <2> QED BY <1>1, <2>1
<1>6. ASSUME NEW p \in Bookers,
             PassRule(p) \/ MatchRule(p) \/ MissRow(p) \/ InsertRow(p) \/ LoseRow(p)
      PROVE  DraftsAreRecent'
  <2>1. OnlyWork(p) /\ (SameTx(p) \/ Matches(p) \/ Inserts(p) \/ Loses(p))
      BY <1>6, RuleStepShape
  <2>2. stored' = stored /\ \A q \in Bookers \ {p} : work'[q] = work[q]
      BY <2>1 DEF OnlyWork
  <2>3. CASE SameTx(p) \/ Inserts(p) \/ Loses(p)
    <3>1. work'[p].tx.drafts \subseteq work[p].tx.drafts
        BY <2>3 DEF SameTx, Inserts, Loses
    <3> QED BY <1>1, <2>2, <3>1
  <2>4. CASE Matches(p)
    <3>0. PICK r \in work[p].todo :
              \E alert \in {{}, {[rule |-> r, age |-> Age(p, r), n |-> work[p].n]}} :
                  work'[p].tx.drafts = work[p].tx.drafts \cup alert
        BY <2>4 DEF Matches
    <3>1. PICK alert \in {{}, {[rule |-> r, age |-> Age(p, r), n |-> work[p].n]}} :
              work'[p].tx.drafts = work[p].tx.drafts \cup alert
        BY <3>0
    <3>2. r \in RuleIds /\ work[p].at \in Nat
        BY <1>0, WorkFields
    <3>3. FormOf(index[p], r) \in RuleForms /\ <<r, FormOf(index[p], r)>> \in index[p]
        BY SomeForm
    <3>4. loadedAt[p] # Unread /\ work[p].at - loadedAt[p] < Ttl
        BY DEF EventsHaveCopies, Busy
    <3>5. Age(p, r) < Ttl
      <4>1. \/ status[r] = "on" /\ form[r] = FormOf(index[p], r)
            \/ lastSaid[r][FormOf(index[p], r)] >= loadedAt[p]
          BY <3>2, <3>3, <3>4 DEF CopiesWereSo
      <4>2. lastSaid[r][FormOf(index[p], r)] \in Int /\ loadedAt[p] \in Int
          BY <1>0, <3>2, <3>3 DEF Unread
      <4> QED BY <3>2, <3>4, <4>1, <4>2, BookAssumption DEF Age
    <3>6. \A d \in work'[p].tx.drafts : d.age < Ttl
        BY <3>1, <3>5 DEF DraftsAreRecent
    <3> QED BY <2>2, <3>6 DEF DraftsAreRecent
  <2> QED BY <2>1, <2>3, <2>4
<1>7. ASSUME NEW p \in Bookers, Finish(p) \/ Abandon(p) PROVE DraftsAreRecent'
  <2>1. CASE Committed(p)
    <3>1. \A q \in Bookers \ {p} : work'[q].tx.drafts = work[q].tx.drafts
        BY <2>1, CommitEffect
    <3>2. work'[p].tx.drafts = {}
        BY <2>1, EmptyWork DEF Committed
    <3>3. stored' \subseteq stored \cup work[p].tx.drafts
        BY <2>1 DEF Committed
    <3> QED BY <3>1, <3>2, <3>3 DEF DraftsAreRecent
  <2>2. CASE RolledBack(p)
    <3>1. stored' = stored /\ \A q \in Bookers : work'[q] = AtRest \/ work'[q] = work[q]
        BY <1>0, <2>2 DEF RolledBack
    <3> QED BY <1>1, <3>1, EmptyWork
  <2> QED BY <1>7, <2>1, <2>2 DEF Finish, Abandon
<1>8. CASE BeginReprocess
  <2>1. work'[Reprocessor].tx.drafts = {} /\ \A q \in Bookers \ {Reprocessor} : work'[q] = work[q]
      BY <1>8, ReprocessEffect DEF Reprocesses
  <2>2. stored' = stored
      BY <1>8 DEF BeginReprocess, rowVars
  <2> QED BY <1>1, <2>1, <2>2
<1>9. CASE NextEvent
  <2>1. stored' = stored /\ \A q \in Bookers : work'[q].tx = work[q].tx
      BY <1>0, <1>9 DEF NextEvent, rowVars, Works
  <2> QED BY <1>1, <2>1
<1>10. CASE UNCHANGED BookVars
    BY <1>1, <1>10 DEF BookVars, rowVars
<1> QED BY <1>2, <1>3, <1>4, <1>5, <1>6, <1>7, <1>8, <1>9, <1>10 DEF BookNext, Evaluate1

(* The rules, the copies, the transactions and the alerts keep their types.  *)
THEOREM BookTypeCorrect == BookSpec => []BookTypeOK
<1>1. BookInit => BookShape
    BY BookInitOK
<1>2. BookShape /\ [BookNext]_BookVars => BookShape'
    BY BookShapeStep
<1>3. BookShape => BookTypeOK
  <2> SUFFICES ASSUME BookShape PROVE BookTypeOK
      OBVIOUS
  <2>1. ASSUME NEW p \in Bookers
        PROVE  /\ index[p] \subseteq RuleIds \X RuleForms
               /\ work[p].todo \subseteq RuleIds
               /\ work[p].tx.drafts \subseteq Drafts
               /\ work[p].tx.sent \subseteq RuleIds
    <3>1. work[p] \in Works /\ index[p] \in SUBSET (RuleIds \X RuleForms)
        BY DEF BookShape
    <3> QED BY <3>1, WorkFields DEF Txs
  <2> QED BY <2>1 DEF BookShape, BookTypeOK
<1> QED BY <1>1, <1>2, <1>3, PTL DEF BookSpec

(* Whatever the rules, the engines and the order of edits, loads, evaluations
   and commits: no stored alert rests on what its rule had not said for the
   reload period of rule_engine_v2 when the evaluation of its event began. *)
THEOREM AlertsRestOnRules == BookSpec => []AlertsUseRecentRules
<1>1. BookInit => BookShape /\ CopiesWereSo /\ EventsHaveCopies /\ DraftsAreRecent
    BY BookInitOK
<1>2. BookShape /\ CopiesWereSo /\ EventsHaveCopies /\ DraftsAreRecent /\ [BookNext]_BookVars
        => (BookShape /\ CopiesWereSo /\ EventsHaveCopies /\ DraftsAreRecent)'
    BY BookShapeStep, CopiesStep, DraftsStep
<1>3. DraftsAreRecent => AlertsUseRecentRules
    BY DEF DraftsAreRecent, AlertsUseRecentRules
<1> QED BY <1>1, <1>2, <1>3, PTL DEF BookSpec

(* An evaluation's number is on the drafts and the alerts it made only.       *)
Claims(p, n) ==
    \/ Busy(p) /\ work[p].n = n
    \/ \E d \in work[p].tx.drafts : d.n = n

NumbersAreSingle ==
    /\ \A a \in stored : a.n < bookUses.evaluations
    /\ \A p \in Bookers : \A x \in work[p].tx.removed : x.n < bookUses.evaluations
    /\ \A p \in Bookers : \A n \in Nat : Claims(p, n) =>
          /\ n < bookUses.evaluations
          /\ \A a \in stored : a.n # n
          /\ \A q \in Bookers : \A x \in work[q].tx.removed : x.n # n
          /\ \A q \in Bookers \ {p} : ~Claims(q, n)

(* A row in hand is the process's own, or it is there, or the process will    *)
(* roll back.                                                                 *)
RowsInHand ==
    /\ \A p \in Engines : work[p].tx.purged = {} /\ work[p].tx.removed = {}
    /\ \A p \in Bookers : \A d \in work[p].tx.drafts : d.rule \in work[p].tx.touched
    /\ \A p \in Bookers : \A r \in work[p].tx.touched :
          \/ r \in work[p].tx.fresh
          \/ /\ r \notin work[p].tx.purged
             /\ \/ rowOf[r] = "there"
                \/ work[p].tx.stale
                \/ r \notin work[p].tx.sent /\ status[r] = "gone"

(* The alert of a mark is not among those a reprocessing takes away, unless   *)
(* it takes the mark as well.                                                 *)
MarksHaveAlerts ==
    \A r \in RuleIds : marked[r] =>
        /\ rowOf[r] = "there"
        /\ \E a \in stored : a.rule = r
        /\ \A p \in Bookers : \/ r \in work[p].tx.purged
                              \/ \E a \in stored \ work[p].tx.removed : a.rule = r

(* At the start there are no alerts, no drafts and no marks.                 *)
LEMMA MarksInitOK == BookInit => NumbersAreSingle /\ RowsInHand /\ MarksHaveAlerts
<1> SUFFICES ASSUME BookInit PROVE NumbersAreSingle /\ RowsInHand /\ MarksHaveAlerts
    OBVIOUS
<1>1. /\ \A p \in Bookers : /\ work[p].todo = {} /\ work[p].tx.drafts = {} /\ work[p].tx.touched = {}
                            /\ work[p].tx.purged = {} /\ work[p].tx.removed = {}
      /\ stored = {} /\ \A r \in RuleIds : marked[r] = FALSE
    BY EmptyWork DEF BookInit
<1>2. NumbersAreSingle
    BY <1>1 DEF NumbersAreSingle, Claims, Busy
<1>3. RowsInHand
    BY <1>1 DEF RowsInHand, Bookers
<1>4. MarksHaveAlerts
    BY <1>1 DEF MarksHaveAlerts
<1> QED BY <1>2, <1>3, <1>4

(* Numbers stay single where no number is given out or handed over.           *)
LEMMA NumbersLast ==
    ASSUME BookShape, NumbersAreSingle,
           bookUses'.evaluations \in Nat, bookUses'.evaluations >= bookUses.evaluations,
           \A b \in stored' : \E a \in stored : a.n = b.n,
           \A p \in Bookers : \A n \in Nat : Claims(p, n)' => Claims(p, n),
           \A p \in Bookers : \A x \in work'[p].tx.removed :
               x \in work[p].tx.removed \/ x \in stored
    PROVE  NumbersAreSingle'
  <1>0. /\ bookUses.evaluations \in Nat
        /\ \A a \in stored : a.n \in Nat
        /\ \A p \in Bookers : \A x \in work[p].tx.removed : x.n \in Nat
    <2>1. \A a \in Drafts : a.n \in Nat
        BY DEF Drafts
    <2>2. \A p \in Bookers : work[p].tx.removed \in SUBSET Drafts
        BY WorkFields DEF BookShape
    <2> QED BY <2>1, <2>2 DEF BookShape
  <1>1. \A b \in stored' : b.n < bookUses'.evaluations
      BY <1>0 DEF NumbersAreSingle
  <1>2. \A p \in Bookers : \A x \in work'[p].tx.removed : x.n < bookUses'.evaluations
      BY <1>0 DEF NumbersAreSingle
  <1>3. ASSUME NEW p \in Bookers, NEW n \in Nat, Claims(p, n)'
        PROVE  /\ n < bookUses'.evaluations
               /\ \A b \in stored' : b.n # n
               /\ \A q \in Bookers : \A x \in work'[q].tx.removed : x.n # n
               /\ \A q \in Bookers \ {p} : ~Claims(q, n)'
    <2>1. Claims(p, n)
        BY <1>3
    <2>2. /\ n < bookUses.evaluations
          /\ \A a \in stored : a.n # n
          /\ \A q \in Bookers : \A x \in work[q].tx.removed : x.n # n
          /\ \A q \in Bookers \ {p} : ~Claims(q, n)
        BY <2>1 DEF NumbersAreSingle
    <2>3. \A q \in Bookers \ {p} : ~Claims(q, n)'
        BY <2>2
    <2> QED BY <1>0, <2>2, <2>3
  <1>4. \A p \in Bookers : \A n \in Nat : Claims(p, n)' =>
          /\ n < bookUses'.evaluations
          /\ \A b \in stored' : b.n # n
          /\ \A q \in Bookers : \A x \in work'[q].tx.removed : x.n # n
          /\ \A q \in Bookers \ {p} : ~Claims(q, n)'
      BY <1>3
  <1> QED BY <1>1, <1>2, <1>4 DEF NumbersAreSingle

(* Every step keeps the numbers of the evaluations apart.                    *)
LEMMA NumbersStep == BookShape /\ NumbersAreSingle /\ [BookNext]_BookVars => NumbersAreSingle'
<1> SUFFICES ASSUME BookShape, NumbersAreSingle, [BookNext]_BookVars PROVE NumbersAreSingle'
    OBVIOUS
<1>0. /\ work \in [Bookers -> Works] /\ stored \in SUBSET Drafts
      /\ bookUses \in [edits : Nat, evaluations : Nat, refusals : Nat]
      /\ bookUses.evaluations \in Nat
    BY DEF BookShape
<1>1. ASSUME NEW p \in Bookers, NEW n \in Nat,
             work'[p].todo \subseteq work[p].todo, work'[p].n = work[p].n,
             work'[p].tx.drafts \subseteq work[p].tx.drafts
      PROVE  Claims(p, n)' => Claims(p, n)
    BY <1>1 DEF Claims, Busy
<1>2. CASE BookTick
  <2>1. UNCHANGED <<work, stored, bookUses>>
      BY <1>2 DEF BookTick, rowVars
  <2> QED BY <1>0, <1>1, <2>1, NumbersLast
<1>3. ASSUME NEW r \in RuleIds, CreateRule(r) \/ UpdateRule(r) \/ SwitchRule(r) \/ DeleteRule(r)
      PROVE  NumbersAreSingle'
  <2>1. work' = work /\ bookUses'.evaluations = bookUses.evaluations
      BY <1>0, <1>3 DEF CreateRule, UpdateRule, SwitchRule, DeleteRule, Use
  <2>2. \A b \in stored' : \E a \in stored : a.n = b.n
    <3>1. CASE DeleteRule(r)
      <4>1. \A a \in Drafts : [a EXCEPT !.rule = NoRule].n = a.n
          BY DEF Drafts
      <4> QED BY <1>0, <3>1, <4>1 DEF DeleteRule
    <3>2. CASE CreateRule(r) \/ UpdateRule(r) \/ SwitchRule(r)
        BY <3>2 DEF CreateRule, UpdateRule, SwitchRule, rowVars
    <3> QED BY <1>3, <3>1, <3>2
  <2> QED BY <1>0, <1>1, <2>1, <2>2, NumbersLast
<1>4. ASSUME NEW p \in Bookers, BeginEvent(p) PROVE NumbersAreSingle'
  <2> DEFINE ev == bookUses.evaluations
  <2>1. /\ work'[p].n = ev /\ work'[p].tx = work[p].tx
        /\ \A q \in Bookers \ {p} : work'[q] = work[q]
      BY <1>0, <1>4 DEF BeginEvent, Works
  <2>2. stored' = stored /\ bookUses'.evaluations = ev + 1
      BY <1>0, <1>4 DEF BeginEvent, Use, rowVars
  <2>3. \A n \in Nat : Claims(p, n)' => n = ev \/ Claims(p, n)
      BY <2>1 DEF Claims
  <2>4. \A q \in Bookers \ {p} : \A n \in Nat : Claims(q, n)' => Claims(q, n)
      BY <2>1 DEF Claims, Busy
  <2>5. \A q \in Bookers : work'[q].tx.removed = work[q].tx.removed
      BY <2>1
  <2>6. \A q \in Bookers : \A n \in Nat : Claims(q, n) => n < ev
      BY DEF NumbersAreSingle
  <2>7. /\ \A a \in stored : a.n < ev /\ a.n \in Nat
        /\ \A q \in Bookers : \A x \in work[q].tx.removed : x.n < ev /\ x.n \in Nat
    <3>1. \A a \in Drafts : a.n \in Nat
        BY DEF Drafts
    <3>2. \A q \in Bookers : work[q].tx.removed \in SUBSET Drafts
        BY <1>0, WorkFields
    <3> QED BY <1>0, <3>1, <3>2 DEF NumbersAreSingle
  <2>8. /\ \A a \in stored' : a.n < ev + 1
        /\ \A q \in Bookers : \A x \in work'[q].tx.removed : x.n < ev + 1
      BY <1>0, <2>2, <2>5, <2>7
  <2>9. ASSUME NEW o \in Bookers, NEW n \in Nat, Claims(o, n)'
        PROVE  /\ n < ev + 1
               /\ \A a \in stored' : a.n # n
               /\ \A q \in Bookers : \A x \in work'[q].tx.removed : x.n # n
               /\ \A q \in Bookers \ {o} : ~Claims(q, n)'
    <3>1. CASE n = ev
      <4>1. \A q \in Bookers \ {p} : ~Claims(q, n)'
          BY <1>0, <2>4, <2>6, <3>1
      <4>2. o = p
          BY <2>9, <4>1
      <4>3. /\ \A a \in stored' : a.n # n
            /\ \A q \in Bookers : \A x \in work'[q].tx.removed : x.n # n
          BY <1>0, <2>2, <2>5, <2>7, <3>1
      <4> QED BY <1>0, <3>1, <4>1, <4>2, <4>3
    <3>2. CASE n # ev
      <4>1. \A q \in Bookers : Claims(q, n)' => Claims(q, n)
          BY <2>3, <2>4, <3>2
      <4>2. Claims(o, n)
          BY <2>9, <4>1
      <4>3. /\ n < ev
            /\ \A a \in stored : a.n # n
            /\ \A q \in Bookers : \A x \in work[q].tx.removed : x.n # n
            /\ \A q \in Bookers \ {o} : ~Claims(q, n)
          BY <4>2 DEF NumbersAreSingle
      <4>4. \A q \in Bookers \ {o} : ~Claims(q, n)'
          BY <4>1, <4>3
      <4> QED BY <1>0, <2>2, <2>5, <4>3, <4>4
    <3> QED BY <3>1, <3>2
  <2>10. \A o \in Bookers : \A n \in Nat : Claims(o, n)' =>
            /\ n < ev + 1
            /\ \A a \in stored' : a.n # n
            /\ \A q \in Bookers : \A x \in work'[q].tx.removed : x.n # n
            /\ \A q \in Bookers \ {o} : ~Claims(q, n)'
      BY <2>9
  <2> QED BY <2>2, <2>8, <2>10 DEF NumbersAreSingle
<1>5. ASSUME NEW p \in Bookers,
             PassRule(p) \/ MatchRule(p) \/ MissRow(p) \/ InsertRow(p) \/ LoseRow(p)
      PROVE  NumbersAreSingle'
  <2>1. OnlyWork(p) /\ (SameTx(p) \/ Matches(p) \/ Inserts(p) \/ Loses(p))
      BY <1>5, RuleStepShape
  <2>2. /\ UNCHANGED <<stored, bookUses>> /\ \A q \in Bookers \ {p} : work'[q] = work[q]
        /\ work'[p].n = work[p].n /\ work'[p].todo \subseteq work[p].todo
      BY <2>1 DEF OnlyWork
  <2>3. work'[p].tx.removed \subseteq work[p].tx.removed
      BY <2>1 DEF SameTx, Matches, Inserts, Loses, KeptTx
  <2>4. \A n \in Nat : Claims(p, n)' => Claims(p, n)
    <3>1. CASE SameTx(p) \/ Inserts(p) \/ Loses(p)
      <4>1. work'[p].tx.drafts \subseteq work[p].tx.drafts
          BY <3>1 DEF SameTx, Inserts, Loses
      <4> QED BY <1>1, <2>2, <4>1
    <3>2. CASE Matches(p)
      <4>1. Busy(p) /\ \A d \in work'[p].tx.drafts : d \in work[p].tx.drafts \/ d.n = work[p].n
          BY <3>2 DEF Matches, Busy
      <4> QED BY <2>2, <4>1 DEF Claims, Busy
    <3> QED BY <2>1, <3>1, <3>2
  <2>5. \A q \in Bookers : \A n \in Nat : Claims(q, n)' => Claims(q, n)
      BY <1>1, <2>2, <2>4
  <2> QED BY <1>0, <2>2, <2>3, <2>5, NumbersLast
<1>6. ASSUME NEW p \in Bookers, Finish(p) \/ Abandon(p) PROVE NumbersAreSingle'
  <2>1. CASE Finish(p) /\ Committed(p)
    <3>1. \A q \in Bookers \ {p} : \A n \in Nat : Claims(q, n)' => Claims(q, n)
        BY <2>1, CommitEffect DEF Claims, Busy
    <3>2. \A n \in Nat : ~Claims(p, n)'
        BY <2>1, EmptyWork DEF Committed, Claims, Busy
    <3>3. /\ \A q \in Bookers \ {p} : work'[q].tx.removed = work[q].tx.removed
          /\ work'[p].tx.removed = {}
        BY <2>1, CommitEffect, EmptyWork DEF Committed
    <3>4. stored' \subseteq stored \cup work[p].tx.drafts /\ bookUses' = bookUses
        BY <2>1 DEF Finish, Committed
    <3>5. \A d \in work[p].tx.drafts : d.n \in Nat /\ Claims(p, d.n)
      <4>1. \A d \in Drafts : d.n \in Nat
          BY DEF Drafts
      <4>2. work[p].tx.drafts \in SUBSET Drafts
          BY <1>0, WorkFields
      <4> QED BY <4>1, <4>2 DEF Claims
    <3>6. \A b \in stored' : b.n < bookUses'.evaluations
        BY <3>4, <3>5 DEF NumbersAreSingle
    <3>7. \A q \in Bookers : \A x \in work'[q].tx.removed : x.n < bookUses'.evaluations
        BY <3>3, <3>4 DEF NumbersAreSingle
    <3>8. ASSUME NEW o \in Bookers, NEW n \in Nat, Claims(o, n)'
          PROVE  /\ n < bookUses'.evaluations
                 /\ \A b \in stored' : b.n # n
                 /\ \A q \in Bookers : \A x \in work'[q].tx.removed : x.n # n
                 /\ \A q \in Bookers \ {o} : ~Claims(q, n)'
      <4>1. o # p /\ Claims(o, n)
          BY <3>1, <3>2, <3>8
      <4>2. /\ n < bookUses.evaluations
            /\ \A a \in stored : a.n # n
            /\ \A q \in Bookers : \A x \in work[q].tx.removed : x.n # n
            /\ \A q \in Bookers \ {o} : ~Claims(q, n)
          BY <4>1 DEF NumbersAreSingle
      <4>3. \A b \in stored' : b.n # n
          BY <3>4, <3>5, <4>1, <4>2
      <4>4. \A q \in Bookers \ {o} : ~Claims(q, n)'
          BY <3>1, <3>2, <4>2
      <4> QED BY <3>3, <3>4, <4>2, <4>3, <4>4
    <3>9. \A o \in Bookers : \A n \in Nat : Claims(o, n)' =>
              /\ n < bookUses'.evaluations
              /\ \A b \in stored' : b.n # n
              /\ \A q \in Bookers : \A x \in work'[q].tx.removed : x.n # n
              /\ \A q \in Bookers \ {o} : ~Claims(q, n)'
        BY <3>8
    <3> QED BY <3>6, <3>7, <3>9 DEF NumbersAreSingle
  <2>2. CASE RolledBack(p)
    <3>1. stored' = stored /\ \A q \in Bookers : work'[q] = AtRest \/ work'[q] = work[q]
        BY <1>0, <2>2 DEF RolledBack
    <3>2. bookUses'.evaluations = bookUses.evaluations
        BY <1>0, <1>6 DEF Finish, Abandon, Use
    <3>3. \A q \in Bookers : \A n \in Nat : Claims(q, n)' => Claims(q, n)
        BY <3>1, EmptyWork DEF Claims, Busy
    <3>4. \A q \in Bookers : work'[q].tx.removed \subseteq work[q].tx.removed
        BY <3>1, EmptyWork
    <3> QED BY <1>0, <3>1, <3>2, <3>3, <3>4, NumbersLast
  <2> QED BY <1>6, <2>1, <2>2 DEF Finish, Abandon
<1>7. CASE BeginReprocess
  <2>1. PICK chosen \in SUBSET RuleIds, removed \in SUBSET stored :
            Reprocesses(chosen, removed, {r \in chosen : rowOf[r] = "there"})
      BY <1>7, ReprocessEffect
  <2>2. UNCHANGED <<stored, bookUses>> /\ \A q \in Bookers \ {Reprocessor} : work'[q] = work[q]
      BY <1>7, ReprocessEffect DEF BeginReprocess, rowVars
  <2>3. \A q \in Bookers : \A n \in Nat : Claims(q, n)' => Claims(q, n)
      BY <2>1, <2>2 DEF Claims, Busy, Reprocesses
  <2>4. \A q \in Bookers : \A x \in work'[q].tx.removed : x \in work[q].tx.removed \/ x \in stored
      BY <2>1, <2>2 DEF Reprocesses
  <2> QED BY <1>0, <2>2, <2>3, <2>4, NumbersLast
<1>8. CASE NextEvent
  <2>1. /\ UNCHANGED <<stored, bookUses>>
        /\ \A q \in Bookers : work'[q].tx = work[q].tx /\ work'[q].todo = work[q].todo
                            /\ work'[q].n = work[q].n
      BY <1>0, <1>8 DEF NextEvent, rowVars, Works
  <2>2. \A q \in Bookers : \A n \in Nat : Claims(q, n)' => Claims(q, n)
      BY <2>1 DEF Claims, Busy
  <2> QED BY <1>0, <2>1, <2>2, NumbersLast
<1>9. CASE UNCHANGED BookVars
  <2>1. UNCHANGED <<work, stored, bookUses>>
      BY <1>9 DEF BookVars, rowVars
  <2> QED BY <1>0, <1>1, <2>1, NumbersLast
<1> QED BY <1>2, <1>3, <1>4, <1>5, <1>6, <1>7, <1>8, <1>9 DEF BookNext, Evaluate1

(* Every step keeps the rows a process has in hand.                          *)
LEMMA RowsStep == BookShape /\ RowsInHand /\ [BookNext]_BookVars => RowsInHand'
<1> SUFFICES ASSUME BookShape, RowsInHand, [BookNext]_BookVars PROVE RowsInHand'
    OBVIOUS
<1>0. /\ work \in [Bookers -> Works]
      /\ status \in [RuleIds -> {"free", "on", "off", "gone"}]
      /\ rowOf \in [RuleIds -> {"absent", "there"} \cup Bookers]
      /\ \A p \in Bookers : work[p].tx.touched \in SUBSET RuleIds
      /\ "there" \notin Bookers /\ Engines \subseteq Bookers
    BY WorkFields, BookAssumption DEF BookShape, Bookers
<1>1. ASSUME \A p \in Bookers : work'[p].tx = work[p].tx \/ work'[p].tx = Empty,
             \A r \in RuleIds : rowOf[r] = "there" => rowOf'[r] = "there",
             \A r \in RuleIds : status[r] = "gone" => status'[r] = "gone"
      PROVE  RowsInHand'
  <2>1. \A p \in Engines : work'[p].tx.purged = {} /\ work'[p].tx.removed = {}
      BY <1>0, <1>1, EmptyWork DEF RowsInHand
  <2>2. \A p \in Bookers : \A d \in work'[p].tx.drafts : d.rule \in work'[p].tx.touched
      BY <1>1, EmptyWork DEF RowsInHand
  <2>3. ASSUME NEW p \in Bookers, NEW r \in work'[p].tx.touched
        PROVE  \/ r \in work'[p].tx.fresh
               \/ /\ r \notin work'[p].tx.purged
                  /\ \/ rowOf'[r] = "there"
                     \/ work'[p].tx.stale
                     \/ r \notin work'[p].tx.sent /\ status'[r] = "gone"
    <3>1. work'[p].tx = work[p].tx /\ r \in RuleIds
        BY <1>0, <1>1, <2>3, EmptyWork
    <3> QED BY <1>1, <3>1 DEF RowsInHand
  <2> QED BY <2>1, <2>2, <2>3 DEF RowsInHand
<1>2. CASE BookTick
    BY <1>1, <1>2 DEF BookTick, book, rowVars
<1>3. ASSUME NEW r \in RuleIds, CreateRule(r) \/ UpdateRule(r) \/ SwitchRule(r)
      PROVE  RowsInHand'
  <2>1. /\ UNCHANGED <<work, rowOf>>
        /\ \A q \in RuleIds : status[q] = "gone" => status'[q] = "gone"
      BY <1>0, <1>3 DEF CreateRule, UpdateRule, SwitchRule, rowVars
  <2> QED BY <1>1, <2>1
<1>4. ASSUME NEW r \in RuleIds, DeleteRule(r) PROVE RowsInHand'
  <2>1. /\ work' = work
        /\ status'[r] = "gone"
        /\ \A q \in RuleIds \ {r} : status'[q] = status[q] /\ rowOf'[q] = rowOf[q]
        /\ \A p \in Bookers : r \notin work[p].tx.sent /\ r \notin work[p].tx.purged
      BY <1>0, <1>4 DEF DeleteRule
  <2>2. ASSUME NEW p \in Bookers, NEW q \in work[p].tx.touched
        PROVE  \/ q \in work[p].tx.fresh
               \/ /\ q \notin work[p].tx.purged
                  /\ \/ rowOf'[q] = "there"
                     \/ work[p].tx.stale
                     \/ q \notin work[p].tx.sent /\ status'[q] = "gone"
    <3>1. CASE q = r
        BY <2>1, <3>1
    <3>2. CASE q # r
        BY <1>0, <2>1, <3>2 DEF RowsInHand
    <3> QED BY <3>1, <3>2
  <2> QED BY <2>1, <2>2 DEF RowsInHand
<1>5. ASSUME NEW p \in Bookers, BeginEvent(p) PROVE RowsInHand'
  <2>1. UNCHANGED <<status, rowOf>> /\ \A q \in Bookers : work'[q].tx = work[q].tx
      BY <1>0, <1>5 DEF BeginEvent, book, rowVars, Works
  <2> QED BY <1>1, <2>1
<1>6. ASSUME NEW p \in Bookers,
             PassRule(p) \/ MatchRule(p) \/ MissRow(p) \/ InsertRow(p) \/ LoseRow(p)
      PROVE  RowsInHand'
  <2>1. OnlyWork(p) /\ (SameTx(p) \/ Matches(p) \/ Inserts(p) \/ Loses(p))
      BY <1>6, RuleStepShape
  <2>2. status' = status /\ \A q \in Bookers \ {p} : work'[q] = work[q]
      BY <2>1 DEF OnlyWork
  <2>3. \A r \in RuleIds : rowOf[r] = "there" => rowOf'[r] = "there"
    <3>1. CASE SameTx(p) \/ Matches(p)
        BY <3>1 DEF SameTx, Matches
    <3>2. CASE Inserts(p)
        BY <1>0, <3>2 DEF Inserts
    <3>3. CASE Loses(p)
        BY <1>0, <3>3 DEF Loses, RowsAfterRollback
    <3> QED BY <2>1, <3>1, <3>2, <3>3
  <2>4. /\ p \in Engines => work'[p].tx.purged = {} /\ work'[p].tx.removed = {}
        /\ \A d \in work'[p].tx.drafts : d.rule \in work'[p].tx.touched
    <3>1. CASE SameTx(p)
        BY <3>1 DEF SameTx, RowsInHand
    <3>2. CASE Matches(p)
      <4>1. PICK r \in work[p].todo :
              \E alert \in {{}, {[rule |-> r, age |-> Age(p, r), n |-> work[p].n]}} :
                /\ KeptTx(p)
                /\ work'[p].tx.drafts = work[p].tx.drafts \cup alert
                /\ work'[p].tx.touched = work[p].tx.touched \cup {r}
          BY <3>2 DEF Matches
      <4> QED BY <4>1 DEF KeptTx, RowsInHand
    <3>3. CASE Inserts(p)
        BY <3>3 DEF Inserts, KeptTx, RowsInHand
    <3>4. CASE Loses(p)
        BY <3>4 DEF Loses
    <3> QED BY <2>1, <3>1, <3>2, <3>3, <3>4
  <2>5. ASSUME NEW r \in work'[p].tx.touched
        PROVE  \/ r \in work'[p].tx.fresh
               \/ /\ r \notin work'[p].tx.purged
                  /\ \/ rowOf'[r] = "there"
                     \/ work'[p].tx.stale
                     \/ r \notin work'[p].tx.sent /\ status'[r] = "gone"
    <3>1. CASE SameTx(p)
        BY <1>0, <2>2, <2>3, <3>1 DEF SameTx, RowsInHand
    <3>2. CASE Matches(p)
      <4>1. PICK q \in work[p].todo :
                /\ Visible(p, q) /\ rowOf' = rowOf /\ KeptTx(p)
                /\ work'[p].tx.touched = work[p].tx.touched \cup {q}
                /\ work'[p].tx.sent = work[p].tx.sent /\ work'[p].tx.fresh = work[p].tx.fresh
          BY <3>2 DEF Matches
      <4>2. CASE r = q
          BY <4>1, <4>2 DEF Visible, KeptTx
      <4>3. CASE r # q
          BY <2>2, <4>1, <4>3 DEF KeptTx, RowsInHand
      <4> QED BY <4>2, <4>3
    <3>3. CASE Inserts(p)
      <4>1. PICK q \in work[p].todo :
                /\ ~FlushFails(p) /\ KeptTx(p)
                /\ work'[p].tx.touched = work[p].tx.touched
                /\ work'[p].tx.sent = work[p].tx.sent \cup {q} \cup work[p].tx.touched
                /\ work'[p].tx.fresh = work[p].tx.fresh \cup {q}
          BY <3>3 DEF Inserts
      <4>2. /\ ~work[p].tx.stale
            /\ r \in work[p].tx.touched /\ r \in RuleIds
            /\ r \notin work[p].tx.sent => status[r] # "gone"
          BY <1>0, <2>5, <4>1 DEF FlushFails, Unsent
      <4> QED BY <2>3, <4>1, <4>2 DEF KeptTx, RowsInHand
    <3>4. CASE Loses(p)
        BY <2>5, <3>4 DEF Loses
    <3> QED BY <2>1, <3>1, <3>2, <3>3, <3>4
  <2>6. ASSUME NEW q \in Bookers \ {p}, NEW r \in work'[q].tx.touched
        PROVE  \/ r \in work'[q].tx.fresh
               \/ /\ r \notin work'[q].tx.purged
                  /\ \/ rowOf'[r] = "there"
                     \/ work'[q].tx.stale
                     \/ r \notin work'[q].tx.sent /\ status'[r] = "gone"
      BY <1>0, <2>2, <2>3 DEF RowsInHand
  <2>7. /\ \A q \in Engines : work'[q].tx.purged = {} /\ work'[q].tx.removed = {}
        /\ \A q \in Bookers : \A d \in work'[q].tx.drafts : d.rule \in work'[q].tx.touched
      BY <1>0, <2>2, <2>4 DEF RowsInHand
  <2> QED BY <2>5, <2>6, <2>7 DEF RowsInHand
<1>7. ASSUME NEW p \in Bookers, Finish(p) \/ Abandon(p) PROVE RowsInHand'
  <2>1. CASE Finish(p) /\ Committed(p)
    <3>1. /\ status' = status /\ work'[p].tx = Empty
          /\ \A r \in RuleIds : r \notin work[p].tx.purged /\ rowOf[r] = "there" => rowOf'[r] = "there"
        BY <2>1, EmptyWork DEF Finish, Committed, book
    <3>0. ASSUME NEW q \in Bookers, q # p
          PROVE  /\ work'[q].tx.drafts = work[q].tx.drafts /\ work'[q].tx.touched = work[q].tx.touched
                 /\ work'[q].tx.sent = work[q].tx.sent /\ work'[q].tx.fresh = work[q].tx.fresh
                 /\ work'[q].tx.purged = work[q].tx.purged
                 /\ work'[q].tx.removed = work[q].tx.removed
                 /\ IF Outdated(p, q) THEN work'[q].tx.stale = TRUE ELSE work'[q] = work[q]
      <4>1. BookShape /\ Committed(p)
          BY <2>1
      <4> QED BY <3>0, <4>1, CommitEffect
    <3>2. \A q \in Engines : work'[q].tx.purged = {} /\ work'[q].tx.removed = {}
      <4> SUFFICES ASSUME NEW q \in Engines
                   PROVE  work'[q].tx.purged = {} /\ work'[q].tx.removed = {}
          OBVIOUS
      <4>1. CASE q = p
          BY <3>1, <4>1, EmptyWork
      <4>2. CASE q # p
        <5>1. /\ q \in Bookers
              /\ work'[q].tx.purged = work[q].tx.purged /\ work'[q].tx.removed = work[q].tx.removed
            BY <1>0, <3>0, <4>2
        <5> QED BY <5>1 DEF RowsInHand
      <4> QED BY <4>1, <4>2
    <3>3. \A q \in Bookers : \A d \in work'[q].tx.drafts : d.rule \in work'[q].tx.touched
      <4> SUFFICES ASSUME NEW q \in Bookers, NEW d \in work'[q].tx.drafts
                   PROVE  d.rule \in work'[q].tx.touched
          OBVIOUS
      <4>1. CASE q = p
          BY <3>1, <4>1, EmptyWork
      <4>2. CASE q # p
        <5>1. work'[q].tx.drafts = work[q].tx.drafts /\ work'[q].tx.touched = work[q].tx.touched
            BY <3>0, <4>2
        <5> QED BY <5>1 DEF RowsInHand
      <4> QED BY <4>1, <4>2
    <3>4. ASSUME NEW q \in Bookers, NEW r \in work'[q].tx.touched
          PROVE  \/ r \in work'[q].tx.fresh
                 \/ /\ r \notin work'[q].tx.purged
                    /\ \/ rowOf'[r] = "there"
                       \/ work'[q].tx.stale
                       \/ r \notin work'[q].tx.sent /\ status'[r] = "gone"
      <4>1. q # p
          BY <3>1, <3>4, EmptyWork
      <4>2. /\ r \in work[q].tx.touched /\ r \in RuleIds
            /\ work'[q].tx.fresh = work[q].tx.fresh /\ work'[q].tx.purged = work[q].tx.purged
            /\ work'[q].tx.sent = work[q].tx.sent
            /\ IF Outdated(p, q) THEN work'[q].tx.stale = TRUE ELSE work'[q] = work[q]
        <5>1. work'[q].tx.touched = work[q].tx.touched
            BY <3>0, <4>1
        <5>2. r \in work[q].tx.touched /\ r \in RuleIds
            BY <1>0, <3>4, <5>1
        <5> QED BY <3>0, <4>1, <5>2
      <4>3. CASE Outdated(p, q)
          BY <4>2, <4>3 DEF RowsInHand
      <4>4. CASE ~Outdated(p, q)
        <5>1. r \notin work[p].tx.purged /\ work'[q] = work[q]
            BY <4>1, <4>2, <4>4 DEF Outdated
        <5> QED BY <3>1, <4>2, <5>1 DEF RowsInHand
      <4> QED BY <4>3, <4>4
    <3> QED BY <3>2, <3>3, <3>4 DEF RowsInHand
  <2>2. CASE RolledBack(p)
    <3>1. \A q \in Bookers : work'[q].tx = Empty \/ work'[q].tx = work[q].tx
        BY <1>0, <2>2, EmptyWork DEF RolledBack
    <3>2. \A r \in RuleIds : rowOf[r] = "there" => rowOf'[r] = "there"
        BY <1>0, <2>2 DEF RolledBack, RowsAfterRollback
    <3>3. status' = status
        BY <1>7 DEF Finish, Abandon, book
    <3> QED BY <1>1, <3>1, <3>2, <3>3
  <2> QED BY <1>7, <2>1, <2>2 DEF Finish, Abandon
<1>8. CASE BeginReprocess
  <2>1. /\ work'[Reprocessor].tx.drafts = {} /\ work'[Reprocessor].tx.touched = {}
        /\ \A q \in Bookers \ {Reprocessor} : work'[q] = work[q]
      BY <1>8, ReprocessEffect DEF Reprocesses
  <2>2. UNCHANGED <<status, rowOf>> /\ Reprocessor \notin Engines
      BY <1>8, BookAssumption DEF BeginReprocess, book, rowVars
  <2> QED BY <1>0, <2>1, <2>2 DEF RowsInHand
<1>9. CASE NextEvent
  <2>1. UNCHANGED <<status, rowOf>> /\ \A q \in Bookers : work'[q].tx = work[q].tx
      BY <1>0, <1>9 DEF NextEvent, book, rowVars, Works
  <2> QED BY <1>1, <2>1
<1>10. CASE UNCHANGED BookVars
    BY <1>1, <1>10 DEF BookVars, book, rowVars
<1> QED BY <1>2, <1>3, <1>4, <1>5, <1>6, <1>7, <1>8, <1>9, <1>10 DEF BookNext, Evaluate1

(* Every step keeps an alert for every mark.                                 *)
LEMMA MarksStep ==
    BookShape /\ NumbersAreSingle /\ RowsInHand /\ MarksHaveAlerts /\ [BookNext]_BookVars
        => MarksHaveAlerts'
<1> SUFFICES ASSUME BookShape, NumbersAreSingle, RowsInHand, MarksHaveAlerts, [BookNext]_BookVars
             PROVE  MarksHaveAlerts'
    OBVIOUS
<1>0. /\ work \in [Bookers -> Works] /\ stored \in SUBSET Drafts
      /\ rowOf \in [RuleIds -> {"absent", "there"} \cup Bookers]
      /\ marked \in [RuleIds -> BOOLEAN]
      /\ "there" \notin Bookers
    BY BookAssumption DEF BookShape, Bookers
<1>1. ASSUME UNCHANGED <<marked, stored>>,
             \A r \in RuleIds : rowOf[r] = "there" => rowOf'[r] = "there",
             \A p \in Bookers :
                 \/ /\ work'[p].tx.purged = work[p].tx.purged
                    /\ work'[p].tx.removed = work[p].tx.removed
                 \/ work'[p].tx.removed = {}
      PROVE  MarksHaveAlerts'
  <2> SUFFICES ASSUME NEW r \in RuleIds, marked[r]
               PROVE  /\ rowOf'[r] = "there"
                      /\ \E a \in stored : a.rule = r
                      /\ \A p \in Bookers : \/ r \in work'[p].tx.purged
                                            \/ \E a \in stored \ work'[p].tx.removed : a.rule = r
      BY <1>1 DEF MarksHaveAlerts
  <2>1. /\ rowOf[r] = "there"
        /\ \E a \in stored : a.rule = r
        /\ \A p \in Bookers : \/ r \in work[p].tx.purged
                              \/ \E a \in stored \ work[p].tx.removed : a.rule = r
      BY DEF MarksHaveAlerts
  <2> QED BY <1>1, <2>1
<1>2. CASE BookTick
    BY <1>1, <1>2 DEF BookTick, rowVars
<1>3. ASSUME NEW r \in RuleIds, CreateRule(r) \/ UpdateRule(r) \/ SwitchRule(r)
      PROVE  MarksHaveAlerts'
    BY <1>1, <1>3 DEF CreateRule, UpdateRule, SwitchRule, rowVars
<1>4. ASSUME NEW r \in RuleIds, DeleteRule(r) PROVE MarksHaveAlerts'
  <2>1. /\ work' = work /\ ~marked'[r]
        /\ \A q \in RuleIds \ {r} : marked'[q] = marked[q] /\ rowOf'[q] = rowOf[q]
        /\ \A a \in stored : a.rule # r => a \in stored'
      BY <1>0, <1>4 DEF DeleteRule
  <2> QED BY <2>1 DEF MarksHaveAlerts
<1>5. ASSUME NEW p \in Bookers, BeginEvent(p) PROVE MarksHaveAlerts'
  <2>1. UNCHANGED <<marked, stored, rowOf>> /\ \A q \in Bookers : work'[q].tx = work[q].tx
      BY <1>0, <1>5 DEF BeginEvent, rowVars, Works
  <2> QED BY <1>1, <2>1
<1>6. ASSUME NEW p \in Bookers,
             PassRule(p) \/ MatchRule(p) \/ MissRow(p) \/ InsertRow(p) \/ LoseRow(p)
      PROVE  MarksHaveAlerts'
  <2>1. OnlyWork(p) /\ (SameTx(p) \/ Matches(p) \/ Inserts(p) \/ Loses(p))
      BY <1>6, RuleStepShape
  <2>2. UNCHANGED <<marked, stored>> /\ \A q \in Bookers \ {p} : work'[q] = work[q]
      BY <2>1 DEF OnlyWork
  <2>3. \A r \in RuleIds : rowOf[r] = "there" => rowOf'[r] = "there"
    <3>1. CASE SameTx(p) \/ Matches(p)
        BY <3>1 DEF SameTx, Matches
    <3>2. CASE Inserts(p)
        BY <1>0, <3>2 DEF Inserts
    <3>3. CASE Loses(p)
        BY <1>0, <3>3 DEF Loses, RowsAfterRollback
    <3> QED BY <2>1, <3>1, <3>2, <3>3
  <2>4. \/ /\ work'[p].tx.purged = work[p].tx.purged
           /\ work'[p].tx.removed = work[p].tx.removed
        \/ work'[p].tx.removed = {}
      BY <2>1 DEF SameTx, Matches, Inserts, Loses, KeptTx
  <2> QED BY <1>1, <2>2, <2>3, <2>4
<1>7. ASSUME NEW p \in Bookers, Finish(p) \/ Abandon(p) PROVE MarksHaveAlerts'
  <2>1. CASE Committed(p) /\ ~FlushFails(p)
    <3> DEFINE tx == work[p].tx
    <3> SUFFICES ASSUME NEW r \in RuleIds, marked'[r]
                 PROVE  /\ rowOf'[r] = "there"
                        /\ \E a \in stored' : a.rule = r
                        /\ \A q \in Bookers : \/ r \in work'[q].tx.purged
                                              \/ \E a \in stored' \ work'[q].tx.removed : a.rule = r
        BY DEF MarksHaveAlerts
    <3>1. /\ stored' = (stored \ tx.removed) \cup tx.drafts
          /\ work'[p].tx.removed = {}
          /\ \A q \in Bookers \ {p} : /\ work'[q].tx.purged = work[q].tx.purged
                                      /\ work'[q].tx.removed = work[q].tx.removed
        BY <2>1, CommitEffect, EmptyWork DEF Committed
    <3>2. rowOf'[r] = IF r \in tx.fresh THEN "there" ELSE IF r \in tx.purged THEN "absent" ELSE rowOf[r]
        BY <2>1 DEF Committed
    <3>3. CASE r \in Marks(tx)
      <4>1. PICK d \in tx.drafts : d.rule = r
          BY <3>3 DEF Marks
      <4>2. r \in tx.touched /\ ~tx.stale /\ ~(r \notin tx.sent /\ status[r] = "gone")
          BY <2>1, <4>1 DEF RowsInHand, FlushFails, Unsent
      <4>3. r \in tx.fresh \/ (r \notin tx.purged /\ rowOf[r] = "there")
          BY <4>2 DEF RowsInHand
      <4>4. \A q \in Bookers : d \notin work[q].tx.removed
        <5>1. d.n \in Nat
          <6>1. tx.drafts \in SUBSET Drafts
              BY <1>0, WorkFields
          <6> QED BY <6>1 DEF Drafts
        <5>2. Claims(p, d.n)
            BY DEF Claims
        <5> QED BY <5>1, <5>2 DEF NumbersAreSingle
      <4>5. d \in stored' /\ \A q \in Bookers : d \notin work'[q].tx.removed
          BY <3>1, <4>4
      <4> QED BY <3>2, <4>1, <4>3, <4>5
    <3>4. CASE r \notin Marks(tx)
      <4>1. marked[r] /\ r \notin tx.purged
          BY <2>1, <3>4 DEF Committed
      <4>2. rowOf[r] = "there" /\ \E a \in stored \ tx.removed : a.rule = r
          BY <4>1 DEF MarksHaveAlerts
      <4>3. rowOf'[r] = "there" /\ \E a \in stored' : a.rule = r
          BY <3>1, <3>2, <4>1, <4>2
      <4>4. ASSUME NEW q \in Bookers
            PROVE  \/ r \in work'[q].tx.purged
                   \/ \E a \in stored' \ work'[q].tx.removed : a.rule = r
        <5>1. CASE q = p
            BY <3>1, <4>3, <5>1
        <5>2. CASE q # p /\ p \in Engines
          <6>1. tx.removed = {}
              BY <5>2 DEF RowsInHand
          <6>2. \/ r \in work[q].tx.purged
                \/ \E a \in stored \ work[q].tx.removed : a.rule = r
              BY <4>1 DEF MarksHaveAlerts
          <6> QED BY <3>1, <5>2, <6>1, <6>2
        <5>3. CASE q # p /\ p \notin Engines
          <6>1. q \in Engines
              BY <5>3 DEF Bookers
          <6>2. work'[q].tx.removed = {}
              BY <3>1, <5>3, <6>1 DEF RowsInHand
          <6> QED BY <4>3, <6>2
        <5> QED BY <5>1, <5>2, <5>3
      <4> QED BY <4>3, <4>4
    <3> QED BY <3>3, <3>4
  <2>2. CASE RolledBack(p)
    <3>1. \A q \in Bookers : work'[q].tx.removed = {} \/ work'[q].tx = work[q].tx
        BY <1>0, <2>2, EmptyWork DEF RolledBack
    <3>2. UNCHANGED <<marked, stored>> /\ \A r \in RuleIds : rowOf[r] = "there" => rowOf'[r] = "there"
        BY <1>0, <2>2 DEF RolledBack, RowsAfterRollback
    <3> QED BY <1>1, <3>1, <3>2
  <2> QED BY <1>7, <2>1, <2>2 DEF Finish, Abandon
<1>8. CASE BeginReprocess
  <2>1. PICK chosen \in SUBSET RuleIds, removed \in SUBSET stored :
            /\ \A a \in removed : a.rule \in chosen
            /\ Reprocesses(chosen, removed, {r \in chosen : rowOf[r] = "there"})
      BY <1>8, ReprocessEffect
  <2>2. /\ UNCHANGED <<marked, stored, rowOf>>
        /\ \A q \in Bookers \ {Reprocessor} : work'[q] = work[q]
      BY <1>8, ReprocessEffect DEF BeginReprocess, rowVars
  <2> SUFFICES ASSUME NEW r \in RuleIds, marked[r]
               PROVE  /\ rowOf[r] = "there"
                      /\ \E a \in stored : a.rule = r
                      /\ \A q \in Bookers : \/ r \in work'[q].tx.purged
                                            \/ \E a \in stored \ work'[q].tx.removed : a.rule = r
      BY <2>2 DEF MarksHaveAlerts
  <2>3. /\ rowOf[r] = "there"
        /\ \E a \in stored : a.rule = r
        /\ \A q \in Bookers : \/ r \in work[q].tx.purged
                              \/ \E a \in stored \ work[q].tx.removed : a.rule = r
      BY DEF MarksHaveAlerts
  <2>4. \/ r \in work'[Reprocessor].tx.purged
        \/ \E a \in stored \ work'[Reprocessor].tx.removed : a.rule = r
      BY <2>1, <2>3 DEF Reprocesses
  <2> QED BY <2>2, <2>3, <2>4
<1>9. CASE NextEvent
  <2>1. UNCHANGED <<marked, stored, rowOf>> /\ \A q \in Bookers : work'[q].tx = work[q].tx
      BY <1>0, <1>9 DEF NextEvent, rowVars, Works
  <2> QED BY <1>1, <2>1
<1>10. CASE UNCHANGED BookVars
    BY <1>1, <1>10 DEF BookVars, rowVars
<1> QED BY <1>2, <1>3, <1>4, <1>5, <1>6, <1>7, <1>8, <1>9, <1>10 DEF BookNext, Evaluate1

(* Whatever the rules and processes: a cooldown that is committed to the state
   row of a rule has an alert of the rule beside it, also after lost inserts,
   refused commits, deleted rules and a reprocessing that purges and starts
   over while the engines hold drafts of their own. *)
THEOREM NoCooldownWithoutAlert == BookSpec => []CooldownsHaveAlerts
<1>1. BookInit => BookShape /\ NumbersAreSingle /\ RowsInHand /\ MarksHaveAlerts
    BY BookInitOK, MarksInitOK
<1>2. BookShape /\ NumbersAreSingle /\ RowsInHand /\ MarksHaveAlerts /\ [BookNext]_BookVars
        => (BookShape /\ NumbersAreSingle /\ RowsInHand /\ MarksHaveAlerts)'
    BY BookShapeStep, NumbersStep, RowsStep, MarksStep
<1>3. MarksHaveAlerts => CooldownsHaveAlerts
    BY DEF MarksHaveAlerts, CooldownsHaveAlerts
<1> QED BY <1>1, <1>2, <1>3, PTL DEF BookSpec

-------------------------------------------------------------------------------
(* The security lists *)

ListRows == [shape : Shapes, enabled : BOOLEAN, until : {1, Forever}]

ListSteps == {"idle", "due", "timed", "read", "kept", "drop", "answer"}

ListReasons == {"none", "change", "reload", "lookup"}

Origins == {"db", "json"}

ListTasks == [step : ListSteps, why : ListReasons, now : Nat,
              rows : [ListIds -> ListRows \cup {NoRow}], origin : Origins]

Sources == [origin : Origins, read : Int, kept : Int, beside : BOOLEAN]

ListShape ==
    /\ ltime \in Nat
    /\ listRow \in [ListIds -> ListRows \cup {NoRow}]
    /\ changed \in [ListIds -> Int]
    /\ DOMAIN cached = ListProcs
    /\ source \in [ListProcs -> Sources]
    /\ loaded \in [ListProcs -> Int]
    /\ thread \in [ListProcs -> [ListThreads -> ListTasks]]
    /\ beside \in [ListProcs -> SUBSET ListThreads]

InForce(i, t) == IF IsActive(listRow[i], t) THEN listRow[i] ELSE NoRow

(* Rows that were read at a time are what the table says of that time,      *)
(* except where it was changed then or later.                                *)
IsSnapshot(rows, t) ==
    t <= ltime /\ \A i \in ListIds : changed[i] >= t \/ rows[i] = InForce(i, t)

ReadsAreSnapshots ==
    \A p \in ListProcs : \A t \in ListThreads :
        thread[p][t].step = "read" /\ thread[p][t].origin # "json"
            => IsSnapshot(thread[p][t].rows, thread[p][t].now)

CachesAreSnapshots ==
    \A p \in ListProcs :
        source[p].read # NotYet /\ source[p].origin # "json"
            => IsSnapshot(cached[p], source[p].read)

(* The cache was dated no later than its entries were stored, and no later  *)
(* than they were read unless another load overlapped theirs.                *)
CacheInOrder(p) ==
    /\ NotYet <= source[p].read /\ source[p].read <= source[p].kept /\ source[p].kept <= ltime
    /\ NotYet <= loaded[p] /\ loaded[p] <= source[p].kept
    /\ ~source[p].beside => loaded[p] <= source[p].read
    /\ loaded[p] # NotYet => source[p].read # NotYet

IsLoading(p, t) == thread[p][t].step \in {"timed", "read", "kept"}

TaskInOrder(p, t) ==
    /\ thread[p][t].now <= ltime
    /\ IsLoading(p, t) /\ t \notin beside[p] => loaded[p] <= thread[p][t].now
    /\ thread[p][t].step = "kept" =>
          /\ source[p].read # NotYet /\ thread[p][t].now <= source[p].kept
          /\ ~source[p].beside => thread[p][t].now <= source[p].read
    /\ thread[p][t].step = "answer" =>
          /\ source[p].read # NotYet /\ source[p].kept > thread[p][t].now - ListTtl
          /\ ~source[p].beside => source[p].read > thread[p][t].now - ListTtl

(* Of two loads under way each knows of the other, and a load that knows of *)
(* none began less than the time to live before any look-up that is          *)
(* answering.                                                                *)
PairInOrder(p, t, u) ==
    t # u /\ IsLoading(p, t) =>
        /\ IsLoading(p, u) => t \in beside[p]
        /\ t \notin beside[p] /\ thread[p][u].step = "answer"
              => thread[p][t].now > thread[p][u].now - ListTtl

ProcessInOrder(p) ==
    /\ CacheInOrder(p)
    /\ \A t \in ListThreads : TaskInOrder(p, t)
    /\ \A t, u \in ListThreads : PairInOrder(p, t, u)

ListInv ==
    /\ ListShape /\ ReadsAreSnapshots /\ CachesAreSnapshots
    /\ \A p \in ListProcs : ProcessInOrder(p)

LEMMA IdleIsATask ==
    NoTask \in ListTasks /\ \A s \in ListSteps : \A w \in ListReasons : \A n \in Nat :
        [NoTask EXCEPT !.step = s, !.why = w, !.now = n] \in ListTasks
  BY DEF NoTask, ListTasks, NoRows, ListSteps, ListReasons, Origins

(* At the start no process has loaded the lists.                             *)
LEMMA ListInitOK == ListInit => ListInv /\ DecisionIsRecent
<1> SUFFICES ASSUME ListInit PROVE ListInv /\ DecisionIsRecent
    OBVIOUS
<1> USE ListAssumption DEF ListInit
<1>1. ListShape
  <2>1. listRow \in [ListIds -> ListRows \cup {NoRow}]
      BY DEF ListRows
  <2>2. source \in [ListProcs -> Sources] /\ loaded \in [ListProcs -> Int]
      BY DEF Sources, NotYet, Origins
  <2>3. thread \in [ListProcs -> [ListThreads -> ListTasks]]
      BY IdleIsATask
  <2>4. /\ ltime \in Nat /\ changed \in [ListIds -> Int] /\ DOMAIN cached = ListProcs
        /\ beside \in [ListProcs -> SUBSET ListThreads]
      BY DEF NotYet
  <2> QED BY <2>1, <2>2, <2>3, <2>4 DEF ListShape
<1>2. ReadsAreSnapshots /\ CachesAreSnapshots /\ DecisionIsRecent
    BY DEF ReadsAreSnapshots, CachesAreSnapshots, DecisionIsRecent, NoTask
<1>3. ASSUME NEW p \in ListProcs PROVE ProcessInOrder(p)
  <2>1. CacheInOrder(p)
      BY DEF CacheInOrder, NotYet
  <2>2. \A t \in ListThreads : TaskInOrder(p, t)
      BY DEF TaskInOrder, IsLoading, NoTask
  <2>3. \A t, u \in ListThreads : PairInOrder(p, t, u)
      BY DEF PairInOrder, IsLoading, NoTask
  <2> QED BY <2>1, <2>2, <2>3 DEF ProcessInOrder
<1> QED BY <1>1, <1>2, <1>3 DEF ListInv

(* What a thread begins or goes on with leaves the other threads alone.      *)
LEMMA OneThreadMoves ==
    ASSUME thread \in [ListProcs -> [ListThreads -> ListTasks]],
           NEW p \in ListProcs, NEW t \in ListThreads, NEW k \in ListTasks,
           thread' = [thread EXCEPT ![p][t] = k]
    PROVE  /\ thread' \in [ListProcs -> [ListThreads -> ListTasks]]
           /\ thread'[p][t] = k
           /\ \A q \in ListProcs \ {p} : thread'[q] = thread[q]
           /\ \A u \in ListThreads \ {t} : thread'[p][u] = thread[p][u]
  OBVIOUS

(* A task that is begun: what it is, and that the thread was idle.           *)
LEMMA AskEffect ==
    ASSUME ListShape, NEW p \in ListProcs, NEW t \in ListThreads, NEW s \in ListSteps,
           NEW w \in ListReasons, Ask(p, t, s, w)
    PROVE  \E k \in ListTasks : /\ k.step = s /\ k.now = ltime
                                /\ thread[p][t].step = "idle"
                                /\ thread' = [thread EXCEPT ![p][t] = k]
  <1>1. [NoTask EXCEPT !.step = s, !.why = w, !.now = ltime] \in ListTasks
      BY IdleIsATask DEF ListShape
  <1> QED BY <1>1 DEF Ask, NoTask

(* What the steps of a thread do: begin a load, read, store the entries,     *)
(* store the time, or take up and end what no load is.                       *)
Begins(p, t, k) ==
    /\ k.step = "timed" /\ k.now = ltime
    /\ ~IsLoading(p, t) /\ Overlaps(p, t) /\ UNCHANGED <<cached, source, loaded>>

Reads(p, t, k) ==
    /\ thread[p][t].step = "timed" /\ k.step = "read" /\ k.now = thread[p][t].now
    /\ k.origin # "json" => k.rows = [i \in ListIds |-> InForce(i, k.now)]
    /\ UNCHANGED <<cached, source, loaded, beside>>

Stores(p, t, k) ==
    /\ thread[p][t].step = "read" /\ k.step = "kept" /\ k.now = thread[p][t].now
    /\ cached' = [cached EXCEPT ![p] = thread[p][t].rows]
    /\ source' = [source EXCEPT ![p] = [origin |-> thread[p][t].origin, read |-> k.now,
                                       kept |-> ltime, beside |-> t \in beside[p]]]
    /\ UNCHANGED <<loaded, beside>>

Dates(p, t, k) ==
    /\ thread[p][t].step = "kept" /\ k.step \in {"answer", "drop", "idle"}
    /\ k.step = "answer" => k.now = thread[p][t].now
    /\ k.now <= ltime
    /\ loaded' = [loaded EXCEPT ![p] = thread[p][t].now]
    /\ beside' = [beside EXCEPT ![p] = @ \ {t}]
    /\ UNCHANGED <<cached, source>>

Hits(p, t, k) ==
    /\ thread[p][t].step = "idle" /\ k.step = "answer" /\ k.now = ltime /\ IsFresh(p)
    /\ UNCHANGED <<cached, source, loaded, beside>>

Turns(p, t, k) ==
    /\ ~IsLoading(p, t) /\ k.step \in {"due", "idle"} /\ k.now <= ltime
    /\ UNCHANGED <<cached, source, beside>>
    /\ UNCHANGED loaded \/ loaded' = [loaded EXCEPT ![p] = NotYet]

Moves(p, t, k) ==
    /\ thread' = [thread EXCEPT ![p][t] = k]
    /\ \/ Begins(p, t, k) \/ Reads(p, t, k) \/ Stores(p, t, k) \/ Dates(p, t, k)
       \/ Hits(p, t, k) \/ Turns(p, t, k)

(* Every step is one of these of one thread, or touches no thread; the table *)
(* changes only while no thread reads, and a change is noted as of now.      *)
TableStays == UNCHANGED <<listRow, changed>>

LEMMA ThreadSteps ==
    ASSUME ListShape, NEW p \in ListProcs, NEW t \in ListThreads,
           \A q \in ListProcs : ProcessInOrder(q),
           \/ StartLoad(p, t) \/ ReadList(p, t) \/ StoreList(p, t) \/ StoreTime(p, t)
           \/ DropCache(p, t) \/ ForceRefresh(p, t) \/ LookUp(p, t) \/ Answer(p, t)
    PROVE  TableStays /\ ltime' = ltime /\ \E k \in ListTasks : Moves(p, t, k)
  <1>0. /\ thread[p][t] \in ListTasks /\ ltime \in Nat /\ thread[p][t].now <= ltime
        /\ 0 <= ltime
      BY DEF ListShape, ProcessInOrder, TaskInOrder
  <1>1. CASE StartLoad(p, t)
    <2> DEFINE k == [thread[p][t] EXCEPT !.step = "timed", !.now = ltime]
    <2>1. k \in ListTasks /\ k.step = "timed" /\ k.now = ltime
        BY <1>0 DEF ListTasks, ListSteps, Origins
    <2>2. thread' = [thread EXCEPT ![p][t] = k]
        BY <1>1 DEF StartLoad, ListShape
    <2>3. Begins(p, t, k) /\ TableStays /\ ltime' = ltime
        BY <1>1, <2>1 DEF StartLoad, Begins, IsLoading, listCache, TableStays
    <2> HIDE DEF k
    <2> QED BY <2>1, <2>2, <2>3 DEF Moves
  <1>2. CASE ReadList(p, t)
    <2>1. CASE ReadTable(p, t)
      <3> DEFINE rs == [i \in ListIds |-> InForce(i, thread[p][t].now)]
                 k == [thread[p][t] EXCEPT !.step = "read", !.origin = "db", !.rows = rs]
      <3>1. rs \in [ListIds -> ListRows \cup {NoRow}]
          BY DEF InForce, ListShape
      <3>2. /\ k \in ListTasks /\ k.step = "read" /\ k.now = thread[p][t].now /\ k.rows = rs
            /\ k.origin # "json"
          BY <1>0, <3>1 DEF ListTasks, ListSteps, Origins
      <3>3. thread' = [thread EXCEPT ![p][t] = k]
          BY <2>1 DEF ReadTable, ListShape, InForce
      <3>4. Reads(p, t, k) /\ TableStays /\ ltime' = ltime
          BY <1>2, <3>2 DEF ReadList, Reads, TableStays
      <3> HIDE DEF k
      <3> QED BY <3>2, <3>3, <3>4 DEF Moves
    <2>2. CASE ReadFails(p, t)
      <3> DEFINE k == [thread[p][t] EXCEPT !.step = "read", !.origin = "json", !.rows = NoRows]
      <3>1. k \in ListTasks /\ k.step = "read" /\ k.now = thread[p][t].now /\ k.origin = "json"
          BY <1>0 DEF ListTasks, ListSteps, Origins, NoRows
      <3>2. thread' = [thread EXCEPT ![p][t] = k]
          BY <2>2 DEF ReadFails, ListShape
      <3>3. Reads(p, t, k) /\ TableStays /\ ltime' = ltime
          BY <1>2, <3>1 DEF ReadList, Reads, TableStays
      <3> HIDE DEF k
      <3> QED BY <3>1, <3>2, <3>3 DEF Moves
    <2> QED BY <1>2, <2>1, <2>2 DEF ReadList
  <1>3. CASE StoreList(p, t)
    <2> DEFINE k == [thread[p][t] EXCEPT !.step = "kept", !.rows = NoRows]
    <2>1. k \in ListTasks /\ k.step = "kept" /\ k.now = thread[p][t].now
        BY <1>0 DEF ListTasks, ListSteps, Origins, NoRows
    <2>2. thread' = [thread EXCEPT ![p][t] = k]
        BY <1>3 DEF StoreList, ListShape
    <2>3. Stores(p, t, k) /\ TableStays /\ ltime' = ltime
        BY <1>3, <2>1 DEF StoreList, Stores, TableStays
    <2> HIDE DEF k
    <2> QED BY <2>1, <2>2, <2>3 DEF Moves
  <1>4. CASE StoreTime(p, t)
    <2> DEFINE k == CASE thread[p][t].why = "lookup" ->
                             [NoTask EXCEPT !.step = "answer", !.now = thread[p][t].now]
                      [] thread[p][t].why = "change" -> [NoTask EXCEPT !.step = "drop"]
                      [] OTHER -> NoTask
    <2>1. /\ [NoTask EXCEPT !.step = "answer", !.now = thread[p][t].now] \in ListTasks
          /\ [NoTask EXCEPT !.step = "drop"] \in ListTasks /\ NoTask \in ListTasks
      <3>1. thread[p][t].now \in Nat
          BY <1>0 DEF ListTasks, ListSteps, Origins
      <3> QED BY <3>1 DEF NoTask, ListTasks, ListSteps, ListReasons, Origins, NoRows
    <2>2. /\ k \in ListTasks /\ k.step \in {"answer", "drop", "idle"}
          /\ k.step = "answer" => k.now = thread[p][t].now
          /\ k.now \in {0, thread[p][t].now}
        BY <2>1 DEF NoTask
    <2>3. thread' = [thread EXCEPT ![p][t] = k]
        BY <1>4 DEF StoreTime, ListShape
    <2>4. k.now <= ltime
        BY <1>0, <2>2
    <2> HIDE DEF k
    <2>5. Dates(p, t, k) /\ TableStays /\ ltime' = ltime
        BY <1>4, <2>2, <2>4 DEF StoreTime, Dates, TableStays
    <2> QED BY <2>2, <2>3, <2>5 DEF Moves
  <1>5. CASE DropCache(p, t) \/ Answer(p, t)
    <2>1. NoTask \in ListTasks /\ NoTask.step = "idle" /\ NoTask.now = 0
        BY IdleIsATask DEF NoTask
    <2>2. thread' = [thread EXCEPT ![p][t] = NoTask]
        BY <1>5 DEF DropCache, Answer
    <2>3. Turns(p, t, NoTask) /\ TableStays /\ ltime' = ltime
        BY <1>0, <1>5, <2>1 DEF DropCache, Answer, Turns, IsLoading, listCache, TableStays
    <2> QED BY <2>1, <2>2, <2>3 DEF Moves
  <1>6. CASE ForceRefresh(p, t)
    <2>1. Ask(p, t, "timed", "reload") /\ Overlaps(p, t)
        BY <1>6 DEF ForceRefresh
    <2>2. PICK k \in ListTasks : /\ k.step = "timed" /\ k.now = ltime
                                 /\ thread[p][t].step = "idle"
                                 /\ thread' = [thread EXCEPT ![p][t] = k]
        BY <2>1, AskEffect DEF ListSteps, ListReasons
    <2>3. Begins(p, t, k) /\ TableStays /\ ltime' = ltime
        BY <1>6, <2>1, <2>2 DEF ForceRefresh, Begins, IsLoading, listCache, TableStays
    <2> QED BY <2>2, <2>3 DEF Moves
  <1>7. CASE LookUp(p, t)
    <2>0. TableStays /\ ltime' = ltime /\ UNCHANGED <<cached, source, loaded>>
        BY <1>7 DEF LookUp, listCache, TableStays
    <2>1. CASE ~IsFresh(p)
      <3>1. Ask(p, t, "timed", "lookup") /\ Overlaps(p, t)
          BY <1>7, <2>1 DEF LookUp
      <3>2. PICK k \in ListTasks : /\ k.step = "timed" /\ k.now = ltime
                                   /\ thread[p][t].step = "idle"
                                   /\ thread' = [thread EXCEPT ![p][t] = k]
          BY <3>1, AskEffect DEF ListSteps, ListReasons
      <3>3. Begins(p, t, k)
          BY <2>0, <3>1, <3>2 DEF Begins, IsLoading
      <3> QED BY <2>0, <3>2, <3>3 DEF Moves
    <2>2. CASE IsFresh(p)
      <3>1. Ask(p, t, "answer", "lookup") /\ UNCHANGED beside
          BY <1>7, <2>2 DEF LookUp
      <3>2. PICK k \in ListTasks : /\ k.step = "answer" /\ k.now = ltime
                                   /\ thread[p][t].step = "idle"
                                   /\ thread' = [thread EXCEPT ![p][t] = k]
          BY <3>1, AskEffect DEF ListSteps, ListReasons
      <3>3. Hits(p, t, k)
          BY <2>0, <2>2, <3>1, <3>2 DEF Hits
      <3> QED BY <2>0, <3>2, <3>3 DEF Moves
    <2> QED BY <2>1, <2>2
  <1> QED BY <1>1, <1>2, <1>3, <1>4, <1>5, <1>6, <1>7

(* A step leaves the rows it does not change, and their times, alone; a      *)
(* change is noted as of now, and finds room for its reload or has it done   *)
(* elsewhere.                                                                *)
ChangeNoted ==
    /\ listRow' \in [ListIds -> ListRows \cup {NoRow}] /\ changed' \in [ListIds -> Int]
    /\ \A i \in ListIds : \/ listRow'[i] = listRow[i] /\ changed'[i] = changed[i]
                          \/ changed'[i] = ltime
    /\ UNCHANGED <<cached, source, loaded, beside, ltime>>
    /\ \/ UNCHANGED thread
       \/ \E p \in ListProcs : \E t \in ListThreads : \E k \in ListTasks :
             thread' = [thread EXCEPT ![p][t] = k] /\ Turns(p, t, k)

LEMMA ChangeEffect ==
    ASSUME ListShape, NEW p, NEW i \in ListIds, NEW r \in ListRows \cup {NoRow},
           NEW why \in ListReasons, Change(i, r), ReloadAfter(p, why)
    PROVE  ChangeNoted
  <1>1. /\ listRow' \in [ListIds -> ListRows \cup {NoRow}] /\ changed' \in [ListIds -> Int]
        /\ \A j \in ListIds : \/ listRow'[j] = listRow[j] /\ changed'[j] = changed[j]
                              \/ changed'[j] = ltime
        /\ UNCHANGED <<cached, source, loaded, beside, ltime>>
      BY DEF Change, ListShape, listCache
  <1>2. ASSUME p \in ListProcs, NEW t \in ListThreads, Ask(p, t, "due", why)
        PROVE  \E k \in ListTasks : thread' = [thread EXCEPT ![p][t] = k] /\ Turns(p, t, k)
    <2>1. PICK k \in ListTasks : /\ k.step = "due" /\ k.now = ltime
                                 /\ thread[p][t].step = "idle"
                                 /\ thread' = [thread EXCEPT ![p][t] = k]
        BY <1>2, AskEffect DEF ListSteps
    <2>2. Turns(p, t, k)
        BY <1>1, <2>1 DEF Turns, IsLoading, ListShape
    <2> QED BY <2>1, <2>2
  <1> QED BY <1>1, <1>2 DEF ReloadAfter, ChangeNoted

LEMMA ListStepsAre ==
    ASSUME ListInv, [ListNext]_ListVars
    PROVE  \/ ltime' >= ltime /\ ltime' \in Nat /\ TableStays
              /\ UNCHANGED <<cached, source, loaded, thread, beside>>
           \/ ChangeNoted
           \/ /\ TableStays /\ ltime' = ltime
              /\ \E p \in ListProcs : \E t \in ListThreads : \E k \in ListTasks : Moves(p, t, k)
  <1> USE DEF ListInv
  <1>1. CASE ListTick
      BY <1>1 DEF ListTick, listCache, TableStays, ListShape
  <1>2. CASE UNCHANGED ListVars
      BY <1>2 DEF ListVars, listCache, TableStays, ListShape
  <1>3. ASSUME NEW p, NEW i \in ListIds, NEW s \in Shapes, NEW until \in {1, Forever},
               CreateEntry(p, i, s, until) \/ UpdateEntry(p, i, s, until)
        PROVE  ChangeNoted
    <2>1. [shape |-> s, enabled |-> TRUE, until |-> until] \in ListRows
        BY DEF ListRows
    <2>2. listRow[i] # NoRow => [listRow[i] EXCEPT !.shape = s, !.until = until] \in ListRows
        BY DEF ListRows, ListShape
    <2> QED BY <1>3, <2>1, <2>2, ChangeEffect DEF CreateEntry, UpdateEntry, ListReasons
  <1>4. ASSUME NEW p, NEW i \in ListIds, DeleteEntry(p, i) \/ ToggleEntry(p, i)
        PROVE  ChangeNoted
    <2>1. listRow[i] # NoRow => [listRow[i] EXCEPT !.enabled = ~@] \in ListRows
        BY DEF ListRows, ListShape
    <2> QED BY <1>4, <2>1, ChangeEffect DEF DeleteEntry, ToggleEntry, ListReasons
  <1>5. ASSUME NEW p \in ListProcs, NEW t \in ListThreads,
               \/ StartLoad(p, t) \/ ReadList(p, t) \/ StoreList(p, t) \/ StoreTime(p, t)
               \/ DropCache(p, t) \/ ForceRefresh(p, t) \/ LookUp(p, t) \/ Answer(p, t)
        PROVE  TableStays /\ ltime' = ltime /\ \E k \in ListTasks : Moves(p, t, k)
      BY <1>5, ThreadSteps
  <1> QED BY <1>1, <1>2, <1>3, <1>4, <1>5 DEF ListNext

(* Moves keep the types.                                                     *)
LEMMA MovesKeepShape ==
    ASSUME ListShape, NEW p \in ListProcs, NEW t \in ListThreads, NEW k \in ListTasks,
           Moves(p, t, k)
    PROVE  /\ DOMAIN cached' = ListProcs /\ source' \in [ListProcs -> Sources]
           /\ loaded' \in [ListProcs -> Int]
           /\ thread' \in [ListProcs -> [ListThreads -> ListTasks]]
           /\ beside' \in [ListProcs -> SUBSET ListThreads]
  <1> USE DEF ListShape
  <1>1. thread' \in [ListProcs -> [ListThreads -> ListTasks]]
      BY OneThreadMoves DEF Moves
  <1>2. thread[p][t] \in ListTasks /\ thread[p][t].now \in Int /\ k.now \in Int
        /\ thread[p][t].origin \in Origins
      BY DEF ListTasks
  <1>3. CASE Begins(p, t, k)
      BY <1>1, <1>3 DEF Begins, Overlaps, InLoad
  <1>4. CASE Reads(p, t, k) \/ Hits(p, t, k)
      BY <1>1, <1>4 DEF Reads, Hits
  <1>5. CASE Stores(p, t, k)
    <2>1. [origin |-> thread[p][t].origin, read |-> k.now, kept |-> ltime,
           beside |-> t \in beside[p]] \in Sources
        BY <1>2 DEF Sources
    <2> QED BY <1>1, <1>5, <2>1 DEF Stores
  <1>6. CASE Dates(p, t, k)
      BY <1>1, <1>2, <1>6 DEF Dates
  <1>7. CASE Turns(p, t, k)
      BY <1>1, <1>7 DEF Turns, NotYet
  <1> QED BY <1>3, <1>4, <1>5, <1>6, <1>7 DEF Moves

(* What no thread of a process touches stays in order while time passes.     *)
LEMMA OrderLasts ==
    ASSUME ListShape, NEW q \in ListProcs, ProcessInOrder(q), ltime' \in Nat, ltime' >= ltime,
           cached'[q] = cached[q], source'[q] = source[q], loaded'[q] = loaded[q],
           thread'[q] = thread[q], beside'[q] = beside[q]
    PROVE  ProcessInOrder(q)'
  <1>0. /\ source[q].kept \in Int /\ ltime \in Nat
        /\ \A t \in ListThreads : thread[q][t].now \in Nat
      BY DEF ListShape, Sources, ListTasks
  <1>1. CacheInOrder(q)'
      BY <1>0 DEF ProcessInOrder, CacheInOrder
  <1>2. \A t \in ListThreads : TaskInOrder(q, t)'
      BY <1>0 DEF ProcessInOrder, TaskInOrder, IsLoading
  <1>3. \A t, u \in ListThreads : PairInOrder(q, t, u)'
      BY DEF ProcessInOrder, PairInOrder, IsLoading
  <1> QED BY <1>1, <1>2, <1>3 DEF ProcessInOrder

(* Moves keep the process of the thread in order.                            *)
LEMMA OrderMoves ==
    ASSUME ListShape, NEW p \in ListProcs, NEW t \in ListThreads, NEW k \in ListTasks,
           Moves(p, t, k), ProcessInOrder(p), ltime' = ltime
    PROVE  ProcessInOrder(p)'
  <1>0. /\ thread'[p][t] = k /\ \A u \in ListThreads \ {t} : thread'[p][u] = thread[p][u]
        /\ ListTtl \in Nat \ {0} /\ ltime \in Nat /\ NotYet = -1
        /\ k.now \in Nat
        /\ \A u \in ListThreads : thread[p][u].now \in Nat
        /\ source[p].read \in Int /\ source[p].kept \in Int /\ source[p].beside \in BOOLEAN
        /\ loaded[p] \in Int /\ beside[p] \subseteq ListThreads
      BY OneThreadMoves, ListAssumption DEF Moves, ListShape, ListTasks, Sources, NotYet
  <1>1. /\ CacheInOrder(p) /\ \A u \in ListThreads : TaskInOrder(p, u)
        /\ \A u, v \in ListThreads : PairInOrder(p, u, v)
      BY DEF ProcessInOrder
  <1> USE DEF IsLoading
  <1>2. CASE Begins(p, t, k)
    <2>0. UNCHANGED <<source, loaded>> /\ k.step = "timed" /\ k.now = ltime
          /\ thread[p][t].step \notin {"timed", "read", "kept"}
        BY <1>2 DEF Begins
    <2>1. beside'[p] = IF InLoad(p) = {} THEN beside[p] ELSE beside[p] \cup InLoad(p) \cup {t}
        BY <1>2 DEF Begins, Overlaps, ListShape
    <2>2. CacheInOrder(p)'
        BY <1>1, <2>0 DEF CacheInOrder
    <2>3. ASSUME NEW u \in ListThreads PROVE TaskInOrder(p, u)'
      <3>1. loaded[p] <= ltime
          BY <1>0, <1>1 DEF CacheInOrder
      <3>2. CASE u = t
          BY <1>0, <2>0, <3>1, <3>2 DEF TaskInOrder
      <3>3. CASE u # t
        <4>1. TaskInOrder(p, u) /\ thread'[p][u] = thread[p][u] /\ beside[p] \subseteq beside'[p]
            BY <1>0, <1>1, <2>1, <3>3
        <4> QED BY <1>0, <2>0, <4>1 DEF TaskInOrder
      <3> QED BY <3>2, <3>3
    <2>4. ASSUME NEW u \in ListThreads, NEW v \in ListThreads, u # v PROVE PairInOrder(p, u, v)'
      <3>1. PairInOrder(p, u, v) /\ TaskInOrder(p, v) /\ TaskInOrder(p, u)
          BY <1>1
      <3>2. CASE u = t
        <4>1. thread[p][v].step \in {"timed", "read", "kept"} => t \in beside'[p]
            BY <2>1 DEF InLoad
        <4>2. thread'[p][v] = thread[p][v] /\ thread[p][v].now <= ltime
            BY <1>0, <2>4, <3>1, <3>2 DEF TaskInOrder
        <4> QED BY <1>0, <2>0, <3>2, <4>1, <4>2 DEF PairInOrder
      <3>3. CASE u # t /\ v = t
        <4>1. thread[p][u].step \in {"timed", "read", "kept"} => u \in beside'[p]
            BY <2>1 DEF InLoad
        <4>2. thread'[p][u] = thread[p][u]
            BY <1>0, <3>3
        <4> QED BY <1>0, <2>0, <3>3, <4>1, <4>2 DEF PairInOrder
      <3>4. CASE u # t /\ v # t
        <4>1. /\ thread'[p][u] = thread[p][u] /\ thread'[p][v] = thread[p][v]
              /\ beside[p] \subseteq beside'[p]
            BY <1>0, <2>1, <3>4
        <4> QED BY <3>1, <4>1 DEF PairInOrder
      <3> QED BY <3>2, <3>3, <3>4
    <2> QED BY <2>2, <2>3, <2>4 DEF ProcessInOrder, PairInOrder
  <1>3. CASE Reads(p, t, k)
    <2>0. /\ UNCHANGED <<source, loaded, beside>> /\ k.step = "read" /\ k.now = thread[p][t].now
          /\ thread[p][t].step = "timed"
        BY <1>3 DEF Reads
    <2>1. CacheInOrder(p)'
        BY <1>1, <2>0 DEF CacheInOrder
    <2>2. ASSUME NEW u \in ListThreads PROVE TaskInOrder(p, u)'
      <3>1. TaskInOrder(p, u)
          BY <1>1
      <3> QED BY <1>0, <2>0, <3>1 DEF TaskInOrder
    <2>3. ASSUME NEW u \in ListThreads, NEW v \in ListThreads PROVE PairInOrder(p, u, v)'
      <3>1. PairInOrder(p, u, v)
          BY <1>1
      <3> QED BY <1>0, <2>0, <3>1 DEF PairInOrder
    <2> QED BY <2>1, <2>2, <2>3 DEF ProcessInOrder
  <1>4. CASE Stores(p, t, k)
    <2>0. /\ UNCHANGED <<loaded, beside>> /\ k.step = "kept" /\ k.now = thread[p][t].now
          /\ thread[p][t].step = "read" /\ k.now <= ltime
          /\ source'[p].read = k.now /\ source'[p].kept = ltime
          /\ ~source'[p].beside => t \notin beside[p]
        BY <1>1, <1>4 DEF Stores, TaskInOrder, ListShape
    <2>1. CacheInOrder(p)'
      <3>1. TaskInOrder(p, t)
          BY <1>1
      <3> QED BY <1>0, <1>1, <2>0, <3>1 DEF CacheInOrder, TaskInOrder
    <2>2. ASSUME NEW u \in ListThreads PROVE TaskInOrder(p, u)'
      <3>1. TaskInOrder(p, u) /\ TaskInOrder(p, t) /\ PairInOrder(p, t, u)
          BY <1>1
      <3>2. CASE u = t
          BY <1>0, <2>0, <3>1, <3>2 DEF TaskInOrder
      <3>3. CASE u # t
        <4>1. thread'[p][u] = thread[p][u] /\ thread[p][u].now <= ltime
            BY <1>0, <3>1, <3>3 DEF TaskInOrder
        <4>2. source'[p].read # NotYet
            BY <1>0, <2>0
        <4> QED BY <1>0, <2>0, <3>1, <3>3, <4>1, <4>2 DEF TaskInOrder, PairInOrder
      <3> QED BY <3>2, <3>3
    <2>3. ASSUME NEW u \in ListThreads, NEW v \in ListThreads PROVE PairInOrder(p, u, v)'
      <3>1. PairInOrder(p, u, v)
          BY <1>1
      <3> QED BY <1>0, <2>0, <3>1 DEF PairInOrder
    <2> QED BY <2>1, <2>2, <2>3 DEF ProcessInOrder
  <1>5. CASE Dates(p, t, k)
    <2>0. /\ UNCHANGED source /\ k.step \in {"answer", "drop", "idle"}
          /\ k.step = "answer" => k.now = thread[p][t].now
          /\ thread[p][t].step = "kept" /\ k.now <= ltime
          /\ loaded'[p] = thread[p][t].now /\ beside'[p] = beside[p] \ {t}
        BY <1>5 DEF Dates, ListShape
    <2>1. TaskInOrder(p, t)
        BY <1>1
    <2>2. CacheInOrder(p)'
        BY <1>0, <1>1, <2>0, <2>1 DEF CacheInOrder, TaskInOrder
    <2>3. ASSUME NEW u \in ListThreads PROVE TaskInOrder(p, u)'
      <3>1. TaskInOrder(p, u) /\ PairInOrder(p, u, t)
          BY <1>1
      <3>2. CASE u = t
          BY <1>0, <2>0, <2>1, <3>2 DEF TaskInOrder
      <3>3. CASE u # t
          BY <1>0, <2>0, <3>1, <3>3 DEF TaskInOrder, PairInOrder
      <3> QED BY <3>2, <3>3
    <2>4. ASSUME NEW u \in ListThreads, NEW v \in ListThreads PROVE PairInOrder(p, u, v)'
      <3>1. PairInOrder(p, u, v)
          BY <1>1
      <3>2. CASE u = t
          BY <1>0, <2>0, <3>2 DEF PairInOrder
      <3>3. CASE u # t
          BY <1>0, <2>0, <3>1, <3>3 DEF PairInOrder
      <3> QED BY <3>2, <3>3
    <2> QED BY <2>2, <2>3, <2>4 DEF ProcessInOrder
  <1>6. CASE Hits(p, t, k)
    <2>0. /\ UNCHANGED <<source, loaded, beside>> /\ k.step = "answer" /\ k.now = ltime
          /\ thread[p][t].step = "idle" /\ loaded[p] # NotYet /\ ltime - loaded[p] < ListTtl
        BY <1>6 DEF Hits, IsFresh
    <2>1. CacheInOrder(p)'
        BY <1>1, <2>0 DEF CacheInOrder
    <2>2. ASSUME NEW u \in ListThreads PROVE TaskInOrder(p, u)'
      <3>1. TaskInOrder(p, u)
          BY <1>1
      <3>2. CASE u = t
          BY <1>0, <1>1, <2>0, <3>2 DEF TaskInOrder, CacheInOrder
      <3>3. CASE u # t
          BY <1>0, <2>0, <3>1, <3>3 DEF TaskInOrder
      <3> QED BY <3>2, <3>3
    <2>3. ASSUME NEW u \in ListThreads, NEW v \in ListThreads PROVE PairInOrder(p, u, v)'
      <3>1. PairInOrder(p, u, v) /\ TaskInOrder(p, u)
          BY <1>1
      <3>2. CASE v = t
          BY <1>0, <2>0, <3>1, <3>2 DEF PairInOrder, TaskInOrder
      <3>3. CASE v # t
          BY <1>0, <2>0, <3>1, <3>3 DEF PairInOrder
      <3> QED BY <3>2, <3>3
    <2> QED BY <2>1, <2>2, <2>3 DEF ProcessInOrder
  <1>7. CASE Turns(p, t, k)
    <2>0. /\ UNCHANGED <<source, beside>> /\ k.step \in {"due", "idle"} /\ k.now <= ltime
          /\ loaded'[p] \in {loaded[p], NotYet}
        BY <1>7 DEF Turns, ListShape
    <2>1. CacheInOrder(p)'
        BY <1>0, <1>1, <2>0 DEF CacheInOrder
    <2>2. ASSUME NEW u \in ListThreads PROVE TaskInOrder(p, u)'
      <3>1. TaskInOrder(p, u)
          BY <1>1
      <3> QED BY <1>0, <2>0, <3>1 DEF TaskInOrder
    <2>3. ASSUME NEW u \in ListThreads, NEW v \in ListThreads PROVE PairInOrder(p, u, v)'
      <3>1. PairInOrder(p, u, v)
          BY <1>1
      <3> QED BY <1>0, <2>0, <3>1 DEF PairInOrder
    <2> QED BY <2>1, <2>2, <2>3 DEF ProcessInOrder
  <1> QED BY <1>2, <1>3, <1>4, <1>5, <1>6, <1>7 DEF Moves

(* A move touches its process alone.                                         *)
LEMMA MovesAreLocal ==
    ASSUME ListShape, NEW p \in ListProcs, NEW t \in ListThreads, NEW k \in ListTasks,
           Moves(p, t, k), NEW q \in ListProcs \ {p}
    PROVE  /\ cached'[q] = cached[q] /\ source'[q] = source[q] /\ loaded'[q] = loaded[q]
           /\ thread'[q] = thread[q] /\ beside'[q] = beside[q]
  <1>1. thread'[q] = thread[q]
      BY OneThreadMoves DEF Moves, ListShape
  <1> QED BY <1>1 DEF Moves, Begins, Overlaps, Reads, Stores, Dates, Hits, Turns, ListShape

(* Time, and changes of the table that are noted as of now, leave a         *)
(* snapshot one.                                                             *)
LEMMA SnapshotsLast ==
    ASSUME ListShape, ltime' \in Nat, ltime' >= ltime, NEW rows, NEW t \in Int, IsSnapshot(rows, t),
           \A i \in ListIds : \/ listRow'[i] = listRow[i] /\ changed'[i] = changed[i]
                              \/ changed'[i] = ltime
    PROVE  IsSnapshot(rows, t)'
  BY DEF IsSnapshot, InForce, IsActive, ListShape

(* What is not read or stored in a step stays a snapshot.                    *)
LEMMA SnapshotsStay ==
    ASSUME ListShape, ReadsAreSnapshots, CachesAreSnapshots, ltime' \in Nat, ltime' >= ltime,
           TableStays \/ ChangeNoted, UNCHANGED <<cached, source>>,
           \A p \in ListProcs : \A t \in ListThreads :
               thread'[p][t].step = "read" => thread'[p][t] = thread[p][t]
    PROVE  ReadsAreSnapshots' /\ CachesAreSnapshots'
  <1>1. \A i \in ListIds : \/ listRow'[i] = listRow[i] /\ changed'[i] = changed[i]
                          \/ changed'[i] = ltime
      BY DEF TableStays, ChangeNoted
  <1>2. ASSUME NEW rows, NEW t \in Int, IsSnapshot(rows, t) PROVE IsSnapshot(rows, t)'
      BY <1>1, <1>2, SnapshotsLast
  <1>3. ASSUME NEW p \in ListProcs, NEW t \in ListThreads, NEW rows, NEW n,
               thread'[p][t].step = "read", thread'[p][t].origin # "json",
               rows = thread[p][t].rows, n = thread[p][t].now
        PROVE  thread'[p][t] = thread[p][t] /\ IsSnapshot(rows, n)'
    <2>1. thread'[p][t] = thread[p][t]
        BY <1>3
    <2>2. IsSnapshot(rows, n) /\ n \in Int
        BY <1>3, <2>1 DEF ReadsAreSnapshots, ListShape, ListTasks
    <2> QED BY <1>2, <2>1, <2>2
  <1>4. ReadsAreSnapshots'
    <2> SUFFICES ASSUME NEW p \in ListProcs, NEW t \in ListThreads,
                        thread'[p][t].step = "read", thread'[p][t].origin # "json"
                 PROVE  IsSnapshot(thread[p][t].rows, thread[p][t].now)'
        BY DEF ReadsAreSnapshots
    <2>1. PICK rows, n : rows = thread[p][t].rows /\ n = thread[p][t].now
        OBVIOUS
    <2>2. thread'[p][t] = thread[p][t] /\ IsSnapshot(rows, n)'
        BY <1>3, <2>1
    <2> QED BY <2>1, <2>2 DEF IsSnapshot
  <1>5. ASSUME NEW p \in ListProcs, source'[p].read # NotYet, source'[p].origin # "json"
        PROVE  IsSnapshot(cached[p], source[p].read)'
    <2>1. PICK rows, n : rows = cached[p] /\ n = source[p].read
        OBVIOUS
    <2>2. IsSnapshot(rows, n) /\ n \in Int
        BY <1>5, <2>1 DEF CachesAreSnapshots, ListShape, Sources
    <2>3. IsSnapshot(rows, n)'
        BY <1>2, <2>2
    <2> QED BY <2>1, <2>3 DEF IsSnapshot
  <1> QED BY <1>4, <1>5 DEF CachesAreSnapshots

(* What is read is the table of now, and what is stored is what was read.    *)
LEMMA SnapshotMoves ==
    ASSUME ListShape, NEW p \in ListProcs, ProcessInOrder(p),
           NEW t \in ListThreads, NEW k \in ListTasks, Moves(p, t, k), TableStays,
           ltime' = ltime, ReadsAreSnapshots, CachesAreSnapshots
    PROVE  ReadsAreSnapshots' /\ CachesAreSnapshots'
  <1>0. /\ thread'[p][t] = k /\ \A q \in ListProcs \ {p} : thread'[q] = thread[q]
        /\ \A u \in ListThreads \ {t} : thread'[p][u] = thread[p][u]
        /\ ltime \in Nat /\ ltime' \in Nat /\ ltime' >= ltime
      BY OneThreadMoves DEF Moves, ListShape
  <1>1. CASE Begins(p, t, k) \/ Dates(p, t, k) \/ Hits(p, t, k) \/ Turns(p, t, k)
    <2>1. UNCHANGED <<cached, source>> /\ k.step # "read"
        BY <1>1 DEF Begins, Dates, Hits, Turns
    <2> QED BY <1>0, <2>1, SnapshotsStay
  <1>2. CASE Reads(p, t, k)
    <2>0. /\ UNCHANGED <<cached, source>> /\ k.now = thread[p][t].now /\ k.now <= ltime
          /\ k.origin # "json" => k.rows = [i \in ListIds |-> InForce(i, k.now)]
        BY <1>2 DEF Reads, ProcessInOrder, TaskInOrder
    <2>1. k.origin # "json" => IsSnapshot(k.rows, k.now)'
        BY <1>0, <2>0 DEF IsSnapshot, TableStays, InForce
    <2>2. ASSUME NEW q \in ListProcs, NEW u \in ListThreads, thread'[q][u].step = "read",
                 thread'[q][u].origin # "json"
          PROVE  IsSnapshot(thread[q][u].rows, thread[q][u].now)'
      <3>1. CASE q = p /\ u = t
          BY <1>0, <2>1, <2>2, <3>1 DEF IsSnapshot
      <3>2. CASE ~(q = p /\ u = t)
        <4>1. thread'[q][u] = thread[q][u]
            BY <1>0, <3>2
        <4>2. IsSnapshot(thread[q][u].rows, thread[q][u].now)
            BY <2>2, <4>1 DEF ReadsAreSnapshots
        <4> QED BY <1>0, <4>1, <4>2 DEF IsSnapshot, TableStays, InForce
      <3> QED BY <3>1, <3>2
    <2>3. CachesAreSnapshots'
        BY <1>0, <2>0 DEF CachesAreSnapshots, IsSnapshot, TableStays, InForce
    <2> QED BY <2>2, <2>3 DEF ReadsAreSnapshots
  <1>3. CASE Stores(p, t, k)
    <2>0. /\ thread[p][t].step = "read" /\ k.step = "kept"
          /\ cached'[p] = thread[p][t].rows /\ source'[p].read = thread[p][t].now
          /\ source'[p].origin = thread[p][t].origin
          /\ \A q \in ListProcs \ {p} : cached'[q] = cached[q] /\ source'[q] = source[q]
        BY <1>3 DEF Stores, ListShape
    <2>1. ASSUME NEW q \in ListProcs, source'[q].read # NotYet, source'[q].origin # "json"
          PROVE  IsSnapshot(cached[q], source[q].read)'
      <3>1. CASE q = p
        <4>1. IsSnapshot(thread[p][t].rows, thread[p][t].now)
            BY <2>0, <2>1, <3>1 DEF ReadsAreSnapshots
        <4> QED BY <1>0, <2>0, <3>1, <4>1 DEF IsSnapshot, TableStays, InForce
      <3>2. CASE q # p
        <4>1. IsSnapshot(cached[q], source[q].read)
            BY <2>0, <2>1, <3>2 DEF CachesAreSnapshots
        <4> QED BY <1>0, <2>0, <3>2, <4>1 DEF IsSnapshot, TableStays, InForce
      <3> QED BY <3>1, <3>2
    <2>2. ASSUME NEW q \in ListProcs, NEW u \in ListThreads, thread'[q][u].step = "read",
                 thread'[q][u].origin # "json"
          PROVE  IsSnapshot(thread[q][u].rows, thread[q][u].now)'
      <3>1. thread'[q][u] = thread[q][u]
          BY <1>0, <2>0, <2>2
      <3>2. IsSnapshot(thread[q][u].rows, thread[q][u].now)
          BY <2>2, <3>1 DEF ReadsAreSnapshots
      <3> QED BY <1>0, <3>1, <3>2 DEF IsSnapshot, TableStays, InForce
    <2> QED BY <2>1, <2>2 DEF ReadsAreSnapshots, CachesAreSnapshots
  <1> QED BY <1>1, <1>2, <1>3 DEF Moves

(* Every step keeps the types, the snapshots and the order of every process. *)
LEMMA ListStep == ListInv /\ [ListNext]_ListVars => ListInv'
  <1> SUFFICES ASSUME ListInv, [ListNext]_ListVars PROVE ListInv'
      OBVIOUS
  <1>0. /\ ListShape /\ ReadsAreSnapshots /\ CachesAreSnapshots
        /\ \A p \in ListProcs : ProcessInOrder(p)
        /\ ltime \in Nat
      BY DEF ListInv, ListShape
  <1>1. CASE /\ ltime' >= ltime /\ ltime' \in Nat /\ TableStays
             /\ UNCHANGED <<cached, source, loaded, thread, beside>>
    <2>1. ListShape'
        BY <1>0, <1>1 DEF ListShape, TableStays
    <2>2. ReadsAreSnapshots' /\ CachesAreSnapshots'
        BY <1>0, <1>1, SnapshotsStay
    <2>3. \A p \in ListProcs : ProcessInOrder(p)'
        BY <1>0, <1>1, OrderLasts
    <2> QED BY <2>1, <2>2, <2>3 DEF ListInv
  <1>2. CASE ChangeNoted /\ UNCHANGED thread
    <2>0. UNCHANGED <<cached, source, loaded, beside, ltime>> /\ ltime' \in Nat /\ ltime' >= ltime
        BY <1>0, <1>2 DEF ChangeNoted
    <2>1. ListShape'
        BY <1>0, <1>2, <2>0 DEF ListShape, ChangeNoted
    <2>2. ReadsAreSnapshots' /\ CachesAreSnapshots'
        BY <1>0, <1>2, <2>0, SnapshotsStay
    <2>3. \A p \in ListProcs : ProcessInOrder(p)'
        BY <1>0, <1>2, <2>0, OrderLasts
    <2> QED BY <2>1, <2>2, <2>3 DEF ListInv
  <1>3. ASSUME ltime' = ltime, NEW p \in ListProcs, NEW t \in ListThreads, NEW k \in ListTasks,
               Moves(p, t, k)
        PROVE  \A q \in ListProcs : ProcessInOrder(q)'
    <2>1. ProcessInOrder(p)'
        BY <1>0, <1>3, OrderMoves
    <2>2. ASSUME NEW q \in ListProcs \ {p} PROVE ProcessInOrder(q)'
      <3>1. /\ cached'[q] = cached[q] /\ source'[q] = source[q] /\ loaded'[q] = loaded[q]
            /\ thread'[q] = thread[q] /\ beside'[q] = beside[q]
          BY <1>0, <1>3, MovesAreLocal
      <3>2. ltime' \in Nat /\ ltime' >= ltime
          BY <1>0, <1>3
      <3> QED BY <1>0, <3>1, <3>2, OrderLasts
    <2> QED BY <2>1, <2>2
  <1>4. ASSUME ChangeNoted, NEW p \in ListProcs, NEW t \in ListThreads, NEW k \in ListTasks,
               thread' = [thread EXCEPT ![p][t] = k], Turns(p, t, k)
        PROVE  ListInv'
    <2>0. UNCHANGED <<cached, source, loaded, beside, ltime>> /\ ltime' \in Nat /\ ltime' >= ltime
        BY <1>0, <1>4 DEF ChangeNoted
    <2>1. Moves(p, t, k)
        BY <1>4 DEF Moves
    <2>2. ListShape'
        BY <1>0, <1>4, <2>0, <2>1, MovesKeepShape DEF ListShape, ChangeNoted
    <2>3. \A q \in ListProcs : \A u \in ListThreads :
              thread'[q][u].step = "read" => thread'[q][u] = thread[q][u]
      <3>1. /\ thread'[p][t] = k /\ \A q \in ListProcs \ {p} : thread'[q] = thread[q]
            /\ \A u \in ListThreads \ {t} : thread'[p][u] = thread[p][u]
          BY <1>0, <1>4, OneThreadMoves DEF ListShape
      <3> QED BY <1>4, <3>1 DEF Turns
    <2>4. ReadsAreSnapshots' /\ CachesAreSnapshots'
        BY <1>0, <1>4, <2>0, <2>3, SnapshotsStay
    <2> QED BY <1>3, <2>0, <2>1, <2>2, <2>4 DEF ListInv
  <1>5. ASSUME TableStays, ltime' = ltime, NEW p \in ListProcs, NEW t \in ListThreads,
               NEW k \in ListTasks, Moves(p, t, k)
        PROVE  ListInv'
    <2>1. ListShape'
        BY <1>0, <1>5, MovesKeepShape DEF ListShape, TableStays
    <2>2. ReadsAreSnapshots' /\ CachesAreSnapshots'
        BY <1>0, <1>5, SnapshotMoves
    <2> QED BY <1>3, <1>5, <2>1, <2>2 DEF ListInv
  <1>6. ChangeNoted =>
            \/ UNCHANGED thread
            \/ \E p \in ListProcs : \E t \in ListThreads : \E k \in ListTasks :
                  thread' = [thread EXCEPT ![p][t] = k] /\ Turns(p, t, k)
      BY DEF ChangeNoted
  <1> QED BY <1>1, <1>2, <1>4, <1>5, <1>6, ListStepsAre

(* A decision is what the cache holds when a look-up answers.                *)
LEMMA DecisionStep == ListInv /\ DecisionIsRecent /\ [ListNext]_ListVars => DecisionIsRecent'
  <1> SUFFICES ASSUME ListInv, DecisionIsRecent, [ListNext]_ListVars PROVE DecisionIsRecent'
      OBVIOUS
  <1>1. CASE answer' = NoAnswer
      BY <1>1 DEF DecisionIsRecent
  <1>2. CASE UNCHANGED ListVars
      BY <1>2 DEF DecisionIsRecent, ListVars, listCache
  <1>3. ASSUME NEW p \in ListProcs, NEW t \in ListThreads, Answer(p, t) PROVE DecisionIsRecent'
    <2> DEFINE now == thread[p][t].now
               read == source[p].read
               horizon == IF source[p].beside THEN read - 1 ELSE now - ListTtl
    <2>0. /\ answer'.at = now /\ answer'.rows = cached[p] /\ answer'.source = source[p]
          /\ UNCHANGED <<listRow, changed, ltime>>
        BY <1>3 DEF Answer
    <2>1. /\ read # NotYet /\ source[p].kept > now - ListTtl
          /\ ~source[p].beside => read > now - ListTtl
        BY <1>3 DEF Answer, ListInv, ProcessInOrder, TaskInOrder
    <2>2. now \in Int /\ read \in Int /\ source[p].beside \in BOOLEAN /\ ListTtl \in Nat
          /\ ltime \in Int
        BY ListAssumption DEF ListInv, ListShape, ListTasks, Sources
    <2>3. read > horizon /\ horizon \in Int
        BY <2>1, <2>2
    <2>4. ASSUME source[p].origin # "json", NEW i \in ListIds
          PROVE  \/ changed[i] > horizon
                 \/ \E n \in (horizon + 1) .. ltime : cached[p][i] = InForce(i, n)
      <3>1. read <= ltime /\ (changed[i] >= read \/ cached[p][i] = InForce(i, read))
          BY <2>1, <2>4 DEF ListInv, CachesAreSnapshots, IsSnapshot
      <3>2. read \in (horizon + 1) .. ltime
          BY <2>2, <2>3, <3>1
      <3>3. changed[i] \in Int
          BY DEF ListInv, ListShape
      <3> QED BY <2>2, <2>3, <3>1, <3>2, <3>3
    <2> HIDE DEF horizon
    <2>5. horizon = IF answer'.source.beside THEN answer'.source.read - 1
                    ELSE answer'.at - ListTtl
        BY <2>0 DEF horizon
    <2> QED BY <2>0, <2>1, <2>3, <2>4, <2>5 DEF DecisionIsRecent, InForce
  <1>4. ListNext => \/ answer' = NoAnswer
                    \/ \E p \in ListProcs : \E t \in ListThreads : Answer(p, t)
    <2>1. ListTick => answer' = NoAnswer
        BY DEF ListTick
    <2>2. \A i, r : Change(i, r) => answer' = NoAnswer
        BY DEF Change
    <2>3. ASSUME NEW p, NEW i \in ListIds, NEW s, NEW until,
                 CreateEntry(p, i, s, until) \/ UpdateEntry(p, i, s, until)
          PROVE  answer' = NoAnswer
        BY <2>2, <2>3 DEF CreateEntry, UpdateEntry
    <2>4. ASSUME NEW p, NEW i \in ListIds, DeleteEntry(p, i) \/ ToggleEntry(p, i)
          PROVE  answer' = NoAnswer
        BY <2>2, <2>4 DEF DeleteEntry, ToggleEntry
    <2>5. ASSUME NEW p \in ListProcs, NEW t \in ListThreads,
                 \/ StartLoad(p, t) \/ ReadList(p, t) \/ StoreList(p, t) \/ StoreTime(p, t)
                 \/ DropCache(p, t) \/ ForceRefresh(p, t) \/ LookUp(p, t)
          PROVE  answer' = NoAnswer
        BY <2>5 DEF StartLoad, ReadList, StoreList, StoreTime, DropCache, ForceRefresh, LookUp
    <2> QED BY <2>1, <2>3, <2>4, <2>5 DEF ListNext
  <1> QED BY <1>1, <1>2, <1>3, <1>4

(* Whatever the entries, the processes, their threads and the overlap of
   their loads: what _ensure_cache returns was stored less than the time to
   live before it was asked for and, unless another load overlapped the one
   that stored it, read from the table no longer ago than that. *)
THEOREM DecisionsAreRecent == ListSpec => []DecisionIsRecent
<1>1. ListInit => ListInv /\ DecisionIsRecent
    BY ListInitOK
<1>2. ListInv /\ DecisionIsRecent /\ [ListNext]_ListVars => (ListInv /\ DecisionIsRecent)'
    BY ListStep, DecisionStep
<1> QED BY <1>1, <1>2, PTL DEF ListSpec

(* The clock keeps to its bound, and what is loaded was stored before now.   *)
LEMMA ClockStep == ltime <= MaxListTime /\ ListInv /\ [ListNext]_ListVars => ltime' <= MaxListTime
<1> SUFFICES ASSUME ltime <= MaxListTime, ListInv, [ListNext]_ListVars PROVE ltime' <= MaxListTime
    OBVIOUS
<1>1. CASE ListTick
    BY <1>1, ListAssumption DEF ListTick, ListInv, ListShape
<1>3. \A i, r : Change(i, r) => ltime' = ltime
    BY DEF Change
<1>4. ASSUME NEW p, NEW i \in ListIds, NEW s, NEW until,
             \/ CreateEntry(p, i, s, until) \/ UpdateEntry(p, i, s, until)
             \/ DeleteEntry(p, i) \/ ToggleEntry(p, i)
      PROVE  ltime' = ltime
    BY <1>3, <1>4 DEF CreateEntry, UpdateEntry, DeleteEntry, ToggleEntry
<1>5. ASSUME NEW p \in ListProcs, NEW t \in ListThreads,
             \/ StartLoad(p, t) \/ ReadList(p, t) \/ StoreList(p, t) \/ StoreTime(p, t)
             \/ DropCache(p, t) \/ ForceRefresh(p, t) \/ LookUp(p, t) \/ Answer(p, t)
      PROVE  ltime' = ltime
    BY <1>5, ThreadSteps DEF ListInv
<1>6. CASE UNCHANGED ListVars
    BY <1>6 DEF ListVars
<1>7. CASE \E p \in ListProcs \cup {Elsewhere} : \E i \in ListIds :
          \/ \E s \in Shapes : \E until \in {1, Forever} :
                CreateEntry(p, i, s, until) \/ UpdateEntry(p, i, s, until)
          \/ DeleteEntry(p, i) \/ ToggleEntry(p, i)
    BY <1>4, <1>7
<1> QED BY <1>1, <1>5, <1>6, <1>7 DEF ListNext

(* The rows of the table, the ages of the caches and the loads that overlap  *)
(* keep the values the model gives them.                                      *)
THEOREM ListTypeCorrect == ListSpec => []ListTypeOK
<1>1. ListInit => ListInv /\ ltime <= MaxListTime
  <2>1. ListInit => ltime <= MaxListTime
      BY ListAssumption DEF ListInit
  <2> QED BY <2>1, ListInitOK
<1>2. ListInv /\ ltime <= MaxListTime /\ [ListNext]_ListVars => (ListInv /\ ltime <= MaxListTime)'
    BY ListStep, ClockStep
<1>3. ListInv /\ ltime <= MaxListTime => ListTypeOK
  <2> SUFFICES ASSUME ListInv, ltime <= MaxListTime PROVE ListTypeOK
      OBVIOUS
  <2>1. ListShape /\ MaxListTime \in Nat
      BY ListAssumption DEF ListInv
  <2>2. ltime \in 0 .. MaxListTime
      BY <2>1 DEF ListShape
  <2>3. loaded \in [ListProcs -> {NotYet} \cup 0 .. MaxListTime]
    <3>1. ASSUME NEW p \in ListProcs PROVE loaded[p] \in {NotYet} \cup 0 .. MaxListTime
      <4>1. CacheInOrder(p) /\ loaded[p] \in Int /\ source[p].kept \in Int /\ NotYet <= loaded[p]
          BY <2>1 DEF ListInv, ProcessInOrder, ListShape, Sources, CacheInOrder
      <4> QED BY <2>1, <2>2, <4>1 DEF CacheInOrder, NotYet
    <3> QED BY <2>1, <3>1 DEF ListShape
  <2>4. \A i \in ListIds : listRow[i] = NoRow \/ listRow[i].shape \in Shapes
      BY <2>1 DEF ListShape, ListRows
  <2>5. \A p \in ListProcs : beside[p] \subseteq ListThreads
      BY <2>1 DEF ListShape
  <2> QED BY <2>2, <2>3, <2>4, <2>5 DEF ListTypeOK
<1> QED BY <1>1, <1>2, <1>3, PTL DEF ListSpec

-------------------------------------------------------------------------------
(* The block list job *)

SyncShape ==
    /\ overlap \in BOOLEAN
    /\ DOMAIN sync = SyncRuns
    /\ \A r \in SyncRuns : "phase" \in DOMAIN sync[r]

OneUnderWay ==
    \A q, r \in SyncRuns : sync[q].phase # "idle" /\ sync[r].phase # "idle" => q = r

(* The order of the alerts: no two at once, and in every group a last one.   *)
RaisedInOrder ==
    /\ stamps \in Nat
    /\ \A x \in raised : x.at \in Nat /\ x.at < stamps
    /\ \A x, y \in raised : x.at = y.at => x = y
    /\ \A x \in raised : \E m \in raised :
          m.group = x.group /\ \A y \in raised : y.group = x.group => y.at <= m.at

(* What the alert a run is about to commit repeats has been followed by      *)
(* another of its group.                                                     *)
MailedIsNew ==
    \A r \in SyncRuns : sync[r].phase = "mailed" =>
        /\ sync[r].at \in Nat /\ sync[r].at < stamps
        /\ \A x \in raised : x.at < sync[r].at
        /\ \A x \in raised :
              x.group = Group(r, NextAddress(r)) /\ x.hash = sync[r].feed[NextAddress(r)]
                  => \E z \in raised : z.group = x.group /\ x.at < z.at

NothingRepeats ==
    \A x \in raised : \A y \in raised :
        (x.group = y.group /\ x.hash = y.hash /\ x.at < y.at)
            => \E z \in raised : z.group = x.group /\ x.at < z.at /\ z.at < y.at

SyncInv ==
    /\ SyncShape
    /\ overlap \/ (OneUnderWay /\ RaisedInOrder /\ MailedIsNew /\ NothingRepeats)

(* At the start no run is under way.                                         *)
LEMMA SyncInitOK == SyncInit => SyncInv
<1> SUFFICES ASSUME SyncInit PROVE SyncInv
    OBVIOUS
<1>1. SyncShape
    BY DEF SyncInit, SyncShape, Resting
<1>2. OneUnderWay /\ RaisedInOrder /\ MailedIsNew /\ NothingRepeats
    BY DEF SyncInit, OneUnderWay, RaisedInOrder, MailedIsNew, NothingRepeats, Resting
<1> QED BY <1>1, <1>2 DEF SyncInv

(* Every step keeps the shapes, and runs that overlapped have overlapped.    *)
LEMMA SyncShapeStep == SyncShape /\ [SyncNext]_SyncVars => SyncShape' /\ (overlap => overlap')
<1> SUFFICES ASSUME SyncShape, [SyncNext]_SyncVars PROVE SyncShape' /\ (overlap => overlap')
    OBVIOUS
<1> USE DEF SyncShape
<1>1. CASE UNCHANGED <<sync, overlap>>
    BY <1>1
<1>2. ASSUME NEW r \in SyncRuns, NEW s, "phase" \in DOMAIN s,
             sync' = [sync EXCEPT ![r] = s], overlap' \in BOOLEAN, overlap => overlap'
      PROVE  SyncShape' /\ (overlap => overlap')
    BY <1>2
<1>3. ASSUME NEW r \in SyncRuns, StartSync(r) PROVE SyncShape' /\ (overlap => overlap')
    BY <1>2, <1>3 DEF StartSync
<1>4. ASSUME NEW r \in SyncRuns, SkipAddress(r) PROVE SyncShape' /\ (overlap => overlap')
    BY <1>4 DEF SkipAddress
<1>5. ASSUME NEW r \in SyncRuns, RaiseAndMail(r) PROVE SyncShape' /\ (overlap => overlap')
    BY <1>5 DEF RaiseAndMail
<1>6. ASSUME NEW r \in SyncRuns, CommitRaised(r) PROVE SyncShape' /\ (overlap => overlap')
    BY <1>6 DEF CommitRaised
<1>7. ASSUME NEW r \in SyncRuns, EndSync(r) \/ SyncDies(r) PROVE SyncShape' /\ (overlap => overlap')
    BY <1>7 DEF EndSync, SyncDies, Resting
<1>8. ASSUME NEW a, NEW h, FeedChange(a, h) \/ InventoryChange(a, h) PROVE UNCHANGED <<sync, overlap>>
    BY <1>8 DEF FeedChange, InventoryChange
<1>9. CASE UNCHANGED SyncVars
    BY <1>1, <1>9 DEF SyncVars
<1> QED BY <1>1, <1>3, <1>4, <1>5, <1>6, <1>7, <1>8, <1>9 DEF SyncNext

(* A run that raises an alert has found the last one of the group to differ. *)
LEMMA RaisedIsNew ==
    ASSUME RaisedInOrder, NEW r \in SyncRuns, NEW a, ShouldAlert(r, a),
           NEW x \in raised, x.group = Group(r, a), x.hash = sync[r].feed[a]
    PROVE  \E z \in raised : z.group = x.group /\ x.at < z.at
<1> DEFINE mine == {y \in raised : y.group = Group(r, a)}
           m == CHOOSE y \in mine : \A z \in mine : z.at <= y.at
<1>1. \E y \in mine : \A z \in mine : z.at <= y.at
    BY DEF RaisedInOrder
<1>2. m \in mine /\ \A z \in mine : z.at <= m.at
    BY <1>1
<1>3. x \in mine
    OBVIOUS
<1> HIDE DEF m
<1>4. LastHash(Group(r, a)) = m.hash
    BY <1>3 DEF LastHash, m
<1>5. m # x
    BY <1>4 DEF ShouldAlert
<1> QED BY <1>2, <1>3, <1>5 DEF RaisedInOrder

(* Every step keeps the alerts of serial runs in turn.                       *)
LEMMA SyncStep == SyncInv /\ [SyncNext]_SyncVars => SyncInv'
<1> SUFFICES ASSUME SyncInv, [SyncNext]_SyncVars, ~overlap'
             PROVE  (OneUnderWay /\ RaisedInOrder /\ MailedIsNew /\ NothingRepeats)'
    BY SyncShapeStep DEF SyncInv
<1>1. /\ SyncShape /\ SyncShape' /\ ~overlap
      /\ OneUnderWay /\ RaisedInOrder /\ MailedIsNew /\ NothingRepeats
    BY SyncShapeStep DEF SyncInv
<1>2. CASE UNCHANGED <<sync, raised, stamps>>
    BY <1>1, <1>2 DEF OneUnderWay, RaisedInOrder, MailedIsNew, NothingRepeats, Group, NextAddress
<1>3. ASSUME NEW r \in SyncRuns, UNCHANGED <<raised, stamps>>, sync'[r].phase # "mailed",
             \A q \in SyncRuns \ {r} : sync'[q] = sync[q],
             sync'[r].phase # "idle" => \A q \in SyncRuns \ {r} : sync[q].phase = "idle"
      PROVE  (OneUnderWay /\ RaisedInOrder /\ MailedIsNew /\ NothingRepeats)'
  <2>1. OneUnderWay'
      BY <1>1, <1>3 DEF OneUnderWay
  <2>2. RaisedInOrder' /\ NothingRepeats'
      BY <1>1, <1>3 DEF RaisedInOrder, NothingRepeats
  <2>3. ASSUME NEW q \in SyncRuns, sync'[q].phase = "mailed"
        PROVE  /\ sync'[q] = sync[q] /\ NextAddress(q)' = NextAddress(q)
               /\ Group(q, NextAddress(q))' = Group(q, NextAddress(q))
    <3>1. sync'[q] = sync[q]
        BY <1>3, <2>3
    <3>2. NextAddress(q)' = NextAddress(q)
        BY <3>1 DEF NextAddress
    <3> QED BY <3>1, <3>2 DEF Group
  <2>4. MailedIsNew'
      BY <1>1, <1>3, <2>3 DEF MailedIsNew
  <2> QED BY <2>1, <2>2, <2>4
<1>4. ASSUME NEW r \in SyncRuns, StartSync(r) \/ SkipAddress(r) \/ EndSync(r) \/ SyncDies(r)
      PROVE  (OneUnderWay /\ RaisedInOrder /\ MailedIsNew /\ NothingRepeats)'
  <2>1. UNCHANGED <<raised, stamps>> /\ \A q \in SyncRuns \ {r} : sync'[q] = sync[q]
      BY <1>1, <1>4 DEF StartSync, SkipAddress, EndSync, SyncDies, SyncShape
  <2>2. CASE StartSync(r)
    <3>1. \A q \in SyncRuns \ {r} : sync[q].phase = "idle"
        BY <1>1, <2>2 DEF StartSync
    <3>2. sync'[r].phase = "loop"
        BY <1>1, <2>2 DEF StartSync, SyncShape
    <3> QED BY <1>3, <2>1, <3>1, <3>2
  <2>3. CASE SkipAddress(r)
    <3>1. sync'[r].phase = "loop" /\ sync[r].phase = "loop"
        BY <1>1, <2>3 DEF SkipAddress, SyncShape
    <3>2. \A q \in SyncRuns \ {r} : sync[q].phase = "idle"
        BY <1>1, <3>1 DEF OneUnderWay
    <3> QED BY <1>3, <2>1, <3>1, <3>2
  <2>4. CASE EndSync(r) \/ SyncDies(r)
    <3>1. sync'[r].phase = "idle"
        BY <1>1, <2>4 DEF EndSync, SyncDies, SyncShape, Resting
    <3> QED BY <1>3, <2>1, <3>1
  <2> QED BY <1>4, <2>2, <2>3, <2>4
<1>5. ASSUME NEW r \in SyncRuns, RaiseAndMail(r)
      PROVE  (OneUnderWay /\ RaisedInOrder /\ MailedIsNew /\ NothingRepeats)'
  <2> DEFINE a == NextAddress(r)
  <2>1. /\ sync[r].phase = "loop" /\ ShouldAlert(r, a)
        /\ stamps' = stamps + 1 /\ raised' = raised
        /\ sync' = [sync EXCEPT ![r] = [phase |-> "mailed", feed |-> sync[r].feed,
                      kind |-> sync[r].kind, left |-> sync[r].left, at |-> stamps]]
      BY <1>5 DEF RaiseAndMail
  <2>2. /\ sync'[r].phase = "mailed" /\ sync'[r].feed = sync[r].feed
        /\ sync'[r].kind = sync[r].kind /\ sync'[r].left = sync[r].left
        /\ sync'[r].at = stamps
        /\ \A q \in SyncRuns \ {r} : sync'[q] = sync[q] /\ sync[q].phase = "idle"
      BY <1>1, <2>1 DEF SyncShape, OneUnderWay
  <2>3. OneUnderWay' /\ RaisedInOrder' /\ NothingRepeats'
      BY <1>1, <2>1, <2>2 DEF OneUnderWay, RaisedInOrder, NothingRepeats
  <2>4. NextAddress(r)' = a /\ Group(r, NextAddress(r))' = Group(r, a)
      BY <2>2 DEF NextAddress, Group
  <2>5. \A x \in raised : x.group = Group(r, a) /\ x.hash = sync[r].feed[a]
            => \E z \in raised : z.group = x.group /\ x.at < z.at
      BY <1>1, <2>1, RaisedIsNew
  <2> HIDE DEF a
  <2>6. MailedIsNew'
      BY <1>1, <2>1, <2>2, <2>4, <2>5 DEF MailedIsNew, RaisedInOrder
  <2> QED BY <2>3, <2>6
<1>6. ASSUME NEW r \in SyncRuns, CommitRaised(r)
      PROVE  (OneUnderWay /\ RaisedInOrder /\ MailedIsNew /\ NothingRepeats)'
  <2> DEFINE n == [group |-> Group(r, NextAddress(r)), hash |-> sync[r].feed[NextAddress(r)],
                   at |-> sync[r].at]
  <2>1. /\ sync[r].phase = "mailed" /\ stamps' = stamps /\ raised' = raised \cup {n}
        /\ sync'[r].phase = "loop"
        /\ \A q \in SyncRuns \ {r} : sync'[q] = sync[q] /\ sync[q].phase = "idle"
      BY <1>1, <1>6 DEF CommitRaised, SyncShape, OneUnderWay
  <2>2. /\ n.at \in Nat /\ n.at < stamps
        /\ \A x \in raised : x.at < n.at
        /\ \A x \in raised : x.group = n.group /\ x.hash = n.hash
              => \E z \in raised : z.group = x.group /\ x.at < z.at
      BY <1>1, <2>1 DEF MailedIsNew
  <2> HIDE DEF n
  <2>3. OneUnderWay' /\ MailedIsNew'
      BY <1>1, <2>1 DEF OneUnderWay, MailedIsNew
  <2>4. RaisedInOrder'
    <3>1. ASSUME NEW x \in raised'
          PROVE  \E m \in raised' :
                    m.group = x.group /\ \A y \in raised' : y.group = x.group => y.at <= m.at
      <4>1. CASE x.group = n.group
          BY <1>1, <2>1, <2>2, <4>1 DEF RaisedInOrder
      <4>2. CASE x.group # n.group
          BY <1>1, <2>1, <4>2 DEF RaisedInOrder
      <4> QED BY <4>1, <4>2
    <3>2. /\ stamps' \in Nat
          /\ \A x \in raised' : x.at \in Nat /\ x.at < stamps'
          /\ \A x, y \in raised' : x.at = y.at => x = y
        BY <1>1, <2>1, <2>2 DEF RaisedInOrder
    <3> QED BY <3>1, <3>2 DEF RaisedInOrder
  <2>5. NothingRepeats'
    <3> SUFFICES ASSUME NEW x \in raised', NEW y \in raised',
                        x.group = y.group, x.hash = y.hash, x.at < y.at
                 PROVE  \E z \in raised' : z.group = x.group /\ x.at < z.at /\ z.at < y.at
        BY DEF NothingRepeats
    <3>1. CASE y \in raised
        BY <1>1, <2>1, <2>2, <3>1 DEF NothingRepeats, RaisedInOrder
    <3>2. CASE y \notin raised
      <4>1. y = n /\ x \in raised
          BY <2>1, <2>2, <3>2
      <4> QED BY <2>1, <2>2, <4>1
    <3> QED BY <3>1, <3>2
  <2> QED BY <2>3, <2>4, <2>5
<1>7. ASSUME NEW b, NEW h, FeedChange(b, h) \/ InventoryChange(b, h)
      PROVE  UNCHANGED <<sync, raised, stamps>>
    BY <1>7 DEF FeedChange, InventoryChange
<1>8. CASE UNCHANGED SyncVars
    BY <1>2, <1>8 DEF SyncVars
<1> QED BY <1>2, <1>4, <1>5, <1>6, <1>7, <1>8 DEF SyncNext

(* Whatever the addresses, the lists and the recipients: runs of the block
   list job that do not overlap never raise two alerts of one group with the
   same hash and none in between, also when runs died after the mail. *)
THEOREM SerialSyncs == SyncSpec => []SerialSyncsRepeatNothing
<1>1. SyncInv => SerialSyncsRepeatNothing
    BY DEF SyncInv, NothingRepeats, SerialSyncsRepeatNothing
<1> QED BY <1>1, SyncInitOK, SyncStep, PTL DEF SyncSpec
-------------------------------------------------------------------------------

(* What a run has read, and the address it is about.                         *)
SyncHands ==
    /\ feed \in [Addresses -> ListSets \cup {Clear}]
    /\ \A r \in SyncRuns : sync[r].phase # "idle" =>
          /\ sync[r].feed \in [Addresses -> ListSets \cup {Clear}]
          /\ sync[r].left \in SUBSET Addresses
    /\ \A r \in SyncRuns : sync[r].phase = "mailed" =>
          /\ {"feed", "kind", "left", "at"} \subseteq DOMAIN sync[r]
          /\ sync[r].left # {} /\ sync[r].feed[NextAddress(r)] # Clear
    /\ \A r \in SyncRuns : sync[r].phase = "loop" => {"feed", "kind", "left"} \subseteq DOMAIN sync[r]

(* The provider's addresses are taken in their order.                        *)
LEMMA NextIsLeft ==
    ASSUME SyncHands, NEW r \in SyncRuns, sync[r].phase # "idle", sync[r].left # {}
    PROVE  NextAddress(r) \in sync[r].left /\ NextAddress(r) \in Addresses
<1> DEFINE T == sync[r].left
<1>1. T \subseteq Nat /\ T # {} /\ T \subseteq Addresses
    BY SyncAssumption DEF SyncHands
<1> HIDE DEF T
<1>2. \E x \in T : \A y \in T : ~(<<y, x>> \in OpToRel(<, Nat))
    BY <1>1, WFMin, NatLessThanWellFounded
<1>3. \E x \in T : \A y \in T : x <= y
  <2>1. ASSUME NEW x \in Nat, NEW y \in Nat, y < x PROVE <<y, x>> \in OpToRel(<, Nat)
      BY <2>1 DEF OpToRel
  <2>2. ASSUME NEW x \in T, NEW y \in T, ~(<<y, x>> \in OpToRel(<, Nat)) PROVE x <= y
    <3>1. x \in Nat /\ y \in Nat /\ ~(y < x)
        BY <1>1, <2>1, <2>2
    <3> QED BY <3>1
  <2> QED BY <1>2, <2>2
<1>4. NextAddress(r) = CHOOSE x \in T : \A y \in T : x <= y
    BY DEF NextAddress, T
<1>5. NextAddress(r) \in T
    BY <1>3, <1>4
<1> QED BY <1>1, <1>5 DEF T

(* The next address of a run depends on nothing but what it has left.        *)
LEMMA NextStays ==
    ASSUME NEW r, sync'[r].left = sync[r].left PROVE NextAddress(r)' = NextAddress(r)
BY DEF NextAddress

LEMMA SyncTypesStep ==
    SyncShape /\ SyncHands /\ SyncTypeOK /\ [SyncNext]_SyncVars => SyncHands' /\ SyncTypeOK'
<1> SUFFICES ASSUME SyncShape, SyncHands, SyncTypeOK, [SyncNext]_SyncVars
             PROVE  SyncHands' /\ SyncTypeOK'
    OBVIOUS
<1>1. ASSUME UNCHANGED <<sync, raised, mails>>, feed' \in [Addresses -> ListSets \cup {Clear}]
      PROVE  SyncHands' /\ SyncTypeOK'
    BY <1>1 DEF SyncHands, SyncTypeOK, NextAddress
<1>2. ASSUME NEW r \in SyncRuns, NEW s, sync' = [sync EXCEPT ![r] = s], "phase" \in DOMAIN s,
             feed' = feed, raised' = raised, mails' \in [Recipients -> Nat],
             \/ s = Resting
             \/ /\ s.feed \in [Addresses -> ListSets \cup {Clear}]
                /\ s.left \in SUBSET Addresses
                /\ {"feed", "kind", "left"} \subseteq DOMAIN s
                /\ \/ s.phase = "loop"
                   \/ /\ s.phase = "mailed" /\ "at" \in DOMAIN s
                      /\ s.left # {} /\ s.feed[NextAddress(r)'] # Clear
      PROVE  SyncHands' /\ SyncTypeOK'
  <2>1. sync'[r] = s /\ \A q \in SyncRuns \ {r} : sync'[q] = sync[q]
      BY <1>2 DEF SyncShape
  <2>2. \A q \in SyncRuns \ {r} : NextAddress(q)' = NextAddress(q)
      BY <2>1, NextStays
  <2>3. Resting.phase = "idle"
      BY DEF Resting
  <2>4. SyncTypeOK'
      BY <1>2, <2>1, <2>3 DEF SyncTypeOK
  <2>5. SyncHands'
      BY <1>2, <2>1, <2>2, <2>3 DEF SyncHands
  <2> QED BY <2>4, <2>5
<1>3. ASSUME NEW a, NEW h \in ListSets \cup {Clear}, FeedChange(a, h) PROVE SyncHands' /\ SyncTypeOK'
    BY <1>1, <1>3 DEF FeedChange, SyncHands
<1>4. ASSUME NEW a, NEW c, InventoryChange(a, c) PROVE SyncHands' /\ SyncTypeOK'
    BY <1>1, <1>4 DEF InventoryChange, SyncHands
<1>5. ASSUME NEW r \in SyncRuns, StartSync(r) PROVE SyncHands' /\ SyncTypeOK'
  <2> DEFINE s == [phase |-> "loop", feed |-> feed, kind |-> inventory, left |-> Addresses]
  <2>1. /\ sync' = [sync EXCEPT ![r] = s] /\ UNCHANGED <<feed, raised, mails>>
        /\ s.feed \in [Addresses -> ListSets \cup {Clear}] /\ s.left \in SUBSET Addresses
        /\ {"phase", "feed", "kind", "left"} \subseteq DOMAIN s /\ s.phase = "loop"
        /\ mails \in [Recipients -> Nat]
      BY <1>5 DEF StartSync, SyncHands, SyncTypeOK
  <2> HIDE DEF s
  <2> QED BY <1>2, <2>1
<1>6. ASSUME NEW r \in SyncRuns, SkipAddress(r) PROVE SyncHands' /\ SyncTypeOK'
  <2> DEFINE s == [sync[r] EXCEPT !.left = @ \ {NextAddress(r)}]
  <2>1. sync[r].phase = "loop" /\ sync' = [sync EXCEPT ![r] = s] /\ UNCHANGED <<feed, raised, mails>>
      BY <1>6 DEF SkipAddress
  <2>2. /\ s.feed \in [Addresses -> ListSets \cup {Clear}] /\ s.left \in SUBSET Addresses
        /\ {"phase", "feed", "kind", "left"} \subseteq DOMAIN s /\ s.phase = "loop"
        /\ mails \in [Recipients -> Nat]
      BY <2>1 DEF SyncHands, SyncTypeOK, SyncShape
  <2> HIDE DEF s
  <2> QED BY <1>2, <2>1, <2>2
<1>7. ASSUME NEW r \in SyncRuns, RaiseAndMail(r) PROVE SyncHands' /\ SyncTypeOK'
  <2> DEFINE s == [phase |-> "mailed", feed |-> sync[r].feed, kind |-> sync[r].kind,
                   left |-> sync[r].left, at |-> stamps]
  <2>1. /\ sync[r].phase = "loop" /\ sync[r].left # {}
        /\ sync[r].feed[NextAddress(r)] # Clear
        /\ sync' = [sync EXCEPT ![r] = s] /\ UNCHANGED <<feed, raised>>
        /\ mails' = [u \in Recipients |->
                        IF Bucket(sync[r].kind[NextAddress(r)]) \in Wants[u] THEN mails[u] + 1 ELSE mails[u]]
      BY <1>7 DEF RaiseAndMail
  <2>2. mails' \in [Recipients -> Nat]
      BY <2>1 DEF SyncTypeOK
  <2>3. sync'[r].left = sync[r].left
      BY <2>1 DEF SyncShape
  <2>4. NextAddress(r)' = NextAddress(r)
      BY <2>3, NextStays
  <2>5. /\ s.feed \in [Addresses -> ListSets \cup {Clear}] /\ s.left \in SUBSET Addresses
        /\ {"phase", "feed", "kind", "left", "at"} \subseteq DOMAIN s /\ s.phase = "mailed"
        /\ s.left # {} /\ s.feed[NextAddress(r)'] # Clear
      BY <2>1, <2>4 DEF SyncHands
  <2> HIDE DEF s
  <2> QED BY <1>2, <2>1, <2>2, <2>5
<1>8. ASSUME NEW r \in SyncRuns, CommitRaised(r) PROVE SyncHands' /\ SyncTypeOK'
  <2> DEFINE a == NextAddress(r)
             n == [group |-> Group(r, a), hash |-> sync[r].feed[a], at |-> sync[r].at]
  <2>1. /\ sync[r].phase = "mailed" /\ raised' = raised \cup {n} /\ UNCHANGED <<feed, mails>>
        /\ sync' = [sync EXCEPT ![r].phase = "loop", ![r].left = @ \ {a}]
      BY <1>8 DEF CommitRaised
  <2>2. a \in Addresses /\ sync[r].feed[a] \in ListSets \ {Clear}
    <3>1. sync[r].phase # "idle" /\ sync[r].left # {} /\ sync[r].feed[a] # Clear
          /\ sync[r].feed \in [Addresses -> ListSets \cup {Clear}]
        BY <2>1 DEF SyncHands
    <3>2. a \in Addresses
        BY <3>1, NextIsLeft
    <3> QED BY <3>1, <3>2
  <2>3. n.group[2] \in Addresses /\ n.hash \in ListSets \ {Clear}
      BY <2>2 DEF Group
  <2>4. /\ sync'[r].phase = "loop" /\ sync'[r].feed = sync[r].feed
        /\ sync'[r].left = sync[r].left \ {a} /\ DOMAIN sync'[r] = DOMAIN sync[r]
        /\ \A q \in SyncRuns \ {r} : sync'[q] = sync[q]
    <3>1. {"phase", "feed", "kind", "left"} \subseteq DOMAIN sync[r]
        BY <2>1 DEF SyncHands, SyncShape
    <3> QED BY <2>1, <3>1 DEF SyncShape
  <2> HIDE DEF n, a
  <2>5. \A q \in SyncRuns \ {r} : NextAddress(q)' = NextAddress(q)
      BY <2>4, NextStays
  <2>6. SyncTypeOK'
      BY <2>1, <2>3, <2>4 DEF SyncTypeOK
  <2>7. SyncHands'
      BY <2>1, <2>4, <2>5 DEF SyncHands
  <2> QED BY <2>6, <2>7
<1>9. ASSUME NEW r \in SyncRuns, EndSync(r) \/ SyncDies(r) PROVE SyncHands' /\ SyncTypeOK'
  <2>1. /\ sync' = [sync EXCEPT ![r] = Resting] /\ UNCHANGED <<feed, raised, mails>>
        /\ "phase" \in DOMAIN Resting /\ mails \in [Recipients -> Nat]
      BY <1>9 DEF EndSync, SyncDies, Resting, SyncTypeOK
  <2> QED BY <1>2, <2>1
<1>10. CASE UNCHANGED SyncVars
    BY <1>1, <1>10 DEF SyncVars, SyncHands
<1> QED BY <1>3, <1>4, <1>5, <1>6, <1>7, <1>8, <1>9, <1>10 DEF SyncNext

(* A committed alert of the block list job is about an address of the       *)
(* provider and a set of lists it was on, never about one that is clear.     *)
THEOREM SyncTypeCorrect == SyncSpec => []SyncTypeOK
<1>1. SyncInit => SyncShape /\ SyncHands /\ SyncTypeOK
    BY SyncInitOK DEF SyncInit, SyncInv, SyncHands, SyncTypeOK, Resting
<1>2. SyncShape /\ SyncHands /\ SyncTypeOK /\ [SyncNext]_SyncVars
        => (SyncShape /\ SyncHands /\ SyncTypeOK)'
    BY SyncShapeStep, SyncTypesStep
<1> QED BY <1>1, <1>2, PTL DEF SyncSpec
===============================================================================
