------------------------- MODULE UploadPipelineProofs -------------------------
(* Theorems of UploadPipeline and UploadFleet, for every number of uploads  *)
(* and workers.                                                              *)
EXTENDS UploadFleet, FiniteSetTheorems, TLAPS

USE DEF table, worker, budgets, ghosts, MarkedError

(* Every step keeps the types. *)
LEMMA TypePreserved == TypeOK /\ [Next]_vars => TypeOK'
<1> SUFFICES ASSUME TypeOK, [Next]_vars PROVE TypeOK'
    OBVIOUS
<1> USE UploadAssumption DEF TypeOK, Statuses, Holds, PCs
<1>1. ASSUME NEW u \in Uploads, Receive(u) PROVE TypeOK'
    BY <1>1 DEF Receive
<1>2. ASSUME NEW u \in Uploads, Enqueue(u) PROVE TypeOK'
    BY <1>2 DEF Enqueue
<1>3. ASSUME NEW u \in Uploads, RequestDies(u) PROVE TypeOK'
    BY <1>3 DEF RequestDies
<1>4. ASSUME NEW u \in Uploads, UiRequeue(u) PROVE TypeOK'
    BY <1>4 DEF UiRequeue
<1>5. ASSUME NEW u \in Uploads, UiEngineRequeue(u) PROVE TypeOK'
    BY <1>5 DEF UiEngineRequeue
<1>6. ASSUME NEW u \in Uploads, Age(u) PROVE TypeOK'
    BY <1>6 DEF Age
<1>7. ASSUME UiPause PROVE TypeOK'
    BY <1>7 DEF UiPause
<1>8. ASSUME NEW w \in Workers, Crash(w) PROVE TypeOK'
    BY <1>8 DEF Crash
<1>9. ASSUME NEW w \in Workers, Step(w) PROVE TypeOK'
  <2>1. CASE RequeueRead(w)
      BY <2>1 DEF RequeueRead, Stale
  <2>2. CASE RequeueWrite(w)
      BY <2>2 DEF RequeueWrite
  <2>3. CASE Throttle(w)
      BY <2>3 DEF Throttle
  <2>4. ASSUME NEW u \in Uploads, Claim(w, u) PROVE TypeOK'
      BY <2>4 DEF Claim, ClaimedStatus
  <2>5. CASE NothingToClaim(w)
      BY <2>5 DEF NothingToClaim
  <2>6. CASE RejectUntyped(w)
      BY <2>6 DEF RejectUntyped, Drop, NextJob
  <2>7. CASE SkipParse(w)
      BY <2>7 DEF SkipParse
  <2>8. CASE StartParse(w)
      BY <2>8 DEF StartParse
  <2>9. CASE FinishParse(w)
    <3>1. PICK st \in {"processed", "parsed_with_errors"} :
              status' = [status EXCEPT ![job[w]] = st]
        BY <2>9 DEF FinishParse
    <3>2. status' \in [Uploads -> Statuses]
        BY <3>1
    <3>3. passes' \in [Uploads -> Nat]
      <4>1. pc[w] = "parsing"
          BY <2>9 DEF FinishParse
      <4>2. job[w] \in Uploads
          BY <4>1
      <4>3. passes[job[w]] \in Nat
          BY <4>2
      <4>4. passes' = [passes EXCEPT ![job[w]] = passes[job[w]] + 1]
          BY <2>9 DEF FinishParse
      <4> QED
          BY <4>2, <4>3, <4>4
    <3>4. /\ pc' \in [Workers -> PCs]
          /\ \A v \in Workers : Holds(v)' => job'[v] \in Uploads
        BY <2>9 DEF FinishParse
    <3>5. UNCHANGED <<startedAt, handler, paused, job, seen, budgets, epoch, gen>>
        BY <2>9 DEF FinishParse
    <3> QED
        BY <3>2, <3>3, <3>4, <3>5
  <2>10. ASSUME RecordFailure(w), Holds(w),
                UNCHANGED <<ages, ui>>, crashes' \in Nat
         PROVE  TypeOK'
    <3>1. status' \in [Uploads -> Statuses]
        BY <2>10 DEF RecordFailure
    <3>2. CASE pc' = [pc EXCEPT ![w] = "mark"] /\ UNCHANGED <<job, seen, ghosts>>
        BY <2>10, <3>1, <3>2 DEF RecordFailure
    <3>3. ASSUME NEW next \in NextJob, Drop(w, next) PROVE TypeOK'
        BY <2>10, <3>1, <3>3 DEF RecordFailure, Drop, NextJob
    <3> QED
        BY <2>10, <3>2, <3>3 DEF RecordFailure
  <2>11. CASE FailParse(w) \/ FailStart(w)
      BY <2>10, <2>11 DEF FailParse, FailStart
  <2>12. CASE MarkRead(w)
    <3>1. CASE pc' = [pc EXCEPT ![w] = "write"] /\ UNCHANGED <<job, seen, ghosts>>
        BY <2>12, <3>1 DEF MarkRead
    <3>2. ASSUME NEW next \in NextJob, Drop(w, next) PROVE TypeOK'
        BY <2>12, <3>2 DEF MarkRead, Drop, NextJob
    <3> QED
        BY <2>12, <3>1, <3>2 DEF MarkRead
  <2>13. CASE MarkWrite(w)
      BY <2>13 DEF MarkWrite, Drop, NextJob
  <2> QED
      BY <1>9, <2>1, <2>2, <2>3, <2>4, <2>5, <2>6, <2>7, <2>8, <2>9, <2>11,
         <2>12, <2>13 DEF Step
<1>10. ASSUME UNCHANGED vars PROVE TypeOK'
    BY <1>10 DEF vars
<1> QED
    BY <1>1, <1>2, <1>3, <1>4, <1>5, <1>6, <1>7, <1>8, <1>9, <1>10 DEF Next

LEMMA TypeInitially == Init => TypeOK
<1> SUFFICES ASSUME Init PROVE TypeOK
    OBVIOUS
<1>1. status \in [Uploads -> Statuses] /\ handler \in [Uploads -> {"none", "open", "closed"}]
      /\ startedAt \in [Uploads -> {"none", "fresh", "stale"}]
    BY DEF Init, Statuses
<1>2. paused \in BOOLEAN
    BY DEF Init
<1>3. pc \in [Workers -> PCs] /\ job \in [Workers -> Uploads \cup {0}]
    BY DEF Init, PCs
<1>4. seen \in [Workers -> SUBSET Uploads]
    BY DEF Init
<1>5. crashes \in Nat /\ ages \in Nat /\ ui \in Nat
    BY DEF Init
<1>6. epoch \in [Uploads -> Nat] /\ passes \in [Uploads -> Nat]
      /\ gen \in [Workers -> Nat]
    BY DEF Init
<1>7. \A w \in Workers : Holds(w) => job[w] \in Uploads
    BY DEF Init, Holds
<1> QED
    BY <1>1, <1>2, <1>3, <1>4, <1>5, <1>6, <1>7 DEF TypeOK

(* The table and the workers keep their types. *)
THEOREM TypeCorrect == Spec => []TypeOK
<1> QED
    BY TypeInitially, TypePreserved, PTL DEF Spec

-------------------------------------------------------------------------------

(* A worker's claim is never newer than the queue entry of its row, and it  *)
(* is strictly older once the row is queued again: the next claim of the    *)
(* row is then of another entry.                                            *)
ClaimsAreOfPastEntries ==
    \A w \in Workers : Holds(w) =>
        /\ gen[w] <= epoch[job[w]]
        /\ status[job[w]] = "queued" => gen[w] < epoch[job[w]]

ClaimInv == TypeOK /\ ClaimsAreOfPastEntries /\ OneClaimPerQueueEntry

(* A step that starts no claim, puts no row in the queue without counting   *)
(* the entry, and counts entries upwards only, keeps the invariant.         *)
LEMMA NoNewClaim ==
    ASSUME ClaimInv, TypeOK',
           \A w \in Workers : Holds(w)' => Holds(w) /\ job'[w] = job[w] /\ gen'[w] = gen[w],
           \A u \in Uploads : \/ status'[u] # "queued" /\ epoch[u] <= epoch'[u]
                              \/ status'[u] = status[u] /\ epoch'[u] = epoch[u]
                              \/ epoch[u] < epoch'[u]
    PROVE  ClaimInv'
<1>1. ASSUME NEW w \in Workers, Holds(w)'
      PROVE  /\ gen'[w] <= epoch'[job'[w]]
             /\ status'[job'[w]] = "queued" => gen'[w] < epoch'[job'[w]]
  <2>1. /\ Holds(w) /\ job'[w] = job[w] /\ gen'[w] = gen[w]
        /\ gen[w] \in Nat /\ job[w] \in Uploads
      BY <1>1 DEF ClaimInv, TypeOK
  <2>2. /\ epoch[job[w]] \in Nat /\ epoch'[job[w]] \in Nat
        /\ gen[w] <= epoch[job[w]]
        /\ status[job[w]] = "queued" => gen[w] < epoch[job[w]]
      BY <2>1 DEF ClaimInv, ClaimsAreOfPastEntries, TypeOK
  <2> QED
      BY <2>1, <2>2
<1>2. ClaimsAreOfPastEntries'
    BY <1>1 DEF ClaimsAreOfPastEntries
<1>3. OneClaimPerQueueEntry'
    BY DEF ClaimInv, OneClaimPerQueueEntry
<1> QED
    BY <1>2, <1>3 DEF ClaimInv

(* The claim of a row: its entry is newer than that of any other holder.    *)
LEMMA NewClaim ==
    ASSUME ClaimInv, TypeOK', NEW w \in Workers, NEW u \in Uploads, Claim(w, u)
    PROVE  ClaimInv'
<1>1. /\ status[u] = "queued" /\ status' = [status EXCEPT ![u] = "parsing"]
      /\ pc' = [pc EXCEPT ![w] = "claimed"] /\ job' = [job EXCEPT ![w] = u]
      /\ gen' = [gen EXCEPT ![w] = epoch[u]] /\ epoch' = epoch
    BY DEF Claim, Claimable, ClaimedStatus
<1>2. ASSUME NEW v \in Workers, v # w
      PROVE  /\ Holds(v)' <=> Holds(v)
             /\ job'[v] = job[v] /\ gen'[v] = gen[v]
    BY <1>1, <1>2 DEF Holds, ClaimInv, TypeOK
<1>3. Holds(w)' /\ job'[w] = u /\ gen'[w] = epoch[u] /\ epoch[u] \in Nat
    BY <1>1 DEF Holds, ClaimInv, TypeOK
<1>4. ASSUME NEW v \in Workers, v # w, Holds(v), job[v] = u
      PROVE  gen[v] < epoch[u]
    BY <1>1, <1>4 DEF ClaimInv, ClaimsAreOfPastEntries
<1>5. ASSUME NEW v \in Workers, Holds(v)'
      PROVE  /\ gen'[v] <= epoch'[job'[v]]
             /\ status'[job'[v]] = "queued" => gen'[v] < epoch'[job'[v]]
  <2>1. CASE v = w
      BY <1>1, <1>3, <2>1 DEF ClaimInv, TypeOK
  <2>2. CASE v # w
      BY <1>1, <1>2, <1>5, <2>2 DEF ClaimInv, ClaimsAreOfPastEntries, TypeOK
  <2> QED
      BY <2>1, <2>2
<1>6. ClaimsAreOfPastEntries'
    BY <1>5 DEF ClaimsAreOfPastEntries
<1>7. ASSUME NEW v \in Workers, NEW x \in Workers, v # x,
             Holds(v)', Holds(x)', job'[v] = job'[x]
      PROVE  gen'[v] # gen'[x]
  <2>1. CASE v = w
      BY <1>2, <1>3, <1>4, <1>7, <2>1 DEF ClaimInv, TypeOK
  <2>2. CASE x = w
      BY <1>2, <1>3, <1>4, <1>7, <2>2 DEF ClaimInv, TypeOK
  <2>3. CASE v # w /\ x # w
      BY <1>2, <1>7, <2>3 DEF ClaimInv, OneClaimPerQueueEntry
  <2> QED
      BY <2>1, <2>2, <2>3
<1>8. OneClaimPerQueueEntry'
    BY <1>7 DEF OneClaimPerQueueEntry
<1> QED
    BY <1>6, <1>8 DEF ClaimInv

LEMMA ClaimInvPreserved == ClaimInv /\ [Next]_vars => ClaimInv'
<1> SUFFICES ASSUME ClaimInv, [Next]_vars PROVE ClaimInv'
    OBVIOUS
<1>0. TypeOK /\ TypeOK'
    BY TypePreserved DEF ClaimInv
<1> USE <1>0 DEF Holds
<1>1. ASSUME NEW u \in Uploads,
             \/ Receive(u) \/ Enqueue(u) \/ RequestDies(u)
             \/ UiRequeue(u) \/ UiEngineRequeue(u) \/ Age(u)
      PROVE  ClaimInv'
  <2>1. UNCHANGED <<pc, job, gen>>
      BY <1>1 DEF Receive, Enqueue, RequestDies, UiRequeue, UiEngineRequeue, Age
  <2>2. CASE Receive(u) \/ RequestDies(u) \/ UiEngineRequeue(u) \/ Age(u)
    <3>1. ASSUME NEW v \in Uploads
          PROVE  epoch'[v] = epoch[v] /\ (status'[v] # "queued" \/ status'[v] = status[v])
        BY <2>2 DEF Receive, RequestDies, UiEngineRequeue, Age, TypeOK
    <3> QED
        BY <2>1, <3>1, NoNewClaim DEF TypeOK
  <2>3. CASE Enqueue(u) \/ UiRequeue(u)
    <3>1. ASSUME NEW v \in Uploads
          PROVE  \/ status'[v] = status[v] /\ epoch'[v] = epoch[v]
                 \/ epoch[v] < epoch'[v]
        BY <2>3 DEF Enqueue, UiRequeue, TypeOK
    <3> QED
        BY <2>1, <3>1, NoNewClaim
  <2> QED
      BY <1>1, <2>2, <2>3
<1>2. ASSUME NEW w \in Workers, Step(w) \/ Crash(w) PROVE ClaimInv'
  <2>1. ASSUME NEW u \in Uploads, Claim(w, u) PROVE ClaimInv'
      BY <2>1, NewClaim
  <2>2. CASE RequeueWrite(w)
    <3>1. \A v \in Workers : Holds(v)' => Holds(v) /\ job'[v] = job[v] /\ gen'[v] = gen[v]
        BY <2>2 DEF RequeueWrite, TypeOK
    <3>2. ASSUME NEW v \in Uploads
          PROVE  \/ status'[v] = status[v] /\ epoch'[v] = epoch[v]
                 \/ epoch[v] < epoch'[v]
        BY <2>2 DEF RequeueWrite, TypeOK
    <3> QED
        BY <3>1, <3>2, NoNewClaim
  <2>3. CASE RequeueRead(w) \/ Throttle(w) \/ NothingToClaim(w) \/ Crash(w)
    <3>1. \A v \in Workers : Holds(v)' => Holds(v) /\ job'[v] = job[v] /\ gen'[v] = gen[v]
        BY <2>3 DEF RequeueRead, Throttle, NothingToClaim, Crash, TypeOK
    <3>2. UNCHANGED <<status, epoch>>
        BY <2>3 DEF RequeueRead, Throttle, NothingToClaim, Crash
    <3> QED
        BY <3>1, <3>2, NoNewClaim DEF TypeOK
  <2>4. CASE SkipParse(w) \/ StartParse(w) \/ FinishParse(w) \/ RejectUntyped(w)
             \/ FailParse(w) \/ FailStart(w) \/ MarkRead(w) \/ MarkWrite(w)
    <3>1. Holds(w) /\ epoch' = epoch
        BY <2>4 DEF SkipParse, StartParse, FinishParse, RejectUntyped, FailParse,
                    FailStart, MarkRead, MarkWrite, RecordFailure, Drop
    <3>2. \A v \in Workers : Holds(v)' => Holds(v) /\ job'[v] = job[v] /\ gen'[v] = gen[v]
        BY <2>4 DEF SkipParse, StartParse, FinishParse, RejectUntyped, FailParse,
                    FailStart, MarkRead, MarkWrite, RecordFailure, Drop, NextJob, TypeOK
    <3>3. ASSUME NEW v \in Uploads
          PROVE  status'[v] # "queued" \/ status'[v] = status[v]
        BY <2>4 DEF SkipParse, StartParse, FinishParse, RejectUntyped, FailParse,
                    FailStart, MarkRead, MarkWrite, RecordFailure, TypeOK
    <3> QED
        BY <3>1, <3>2, <3>3, NoNewClaim DEF TypeOK
  <2> QED
      BY <1>2, <2>1, <2>2, <2>3, <2>4 DEF Step
<1>3. CASE UNCHANGED vars \/ UiPause
  <2>1. UNCHANGED <<pc, job, gen, status, epoch>>
      BY <1>3 DEF vars, UiPause
  <2> QED
      BY <2>1, NoNewClaim DEF TypeOK
<1> QED
    BY <1>1, <1>2, <1>3 DEF Next

LEMMA ClaimInvInitially == Init => ClaimInv
<1> SUFFICES ASSUME Init PROVE ClaimsAreOfPastEntries /\ OneClaimPerQueueEntry
    BY TypeInitially DEF ClaimInv
<1> QED
    BY DEF Init, Holds, ClaimsAreOfPastEntries, OneClaimPerQueueEntry

(* For any number of workers and uploads, two workers hold one upload only  *)
(* when the row was put back in the queue between their claims.             *)
THEOREM ClaimsAreExclusive == Spec => []OneClaimPerQueueEntry
<1>1. ClaimInv => OneClaimPerQueueEntry
    BY DEF ClaimInv
<1> QED
    BY ClaimInvInitially, ClaimInvPreserved, <1>1, PTL DEF Spec

-------------------------------------------------------------------------------

(* What a worker about to mark its upload knows when no other worker can    *)
(* have touched the row: unfinished statuses are left by a complete pass.    *)
MarksFollowPasses ==
    \A w \in Workers :
        /\ (pc[w] = "mark" /\ status[job[w]] \in Unfinished) => passes[job[w]] > 0
        /\ pc[w] = "write" => passes[job[w]] > 0

MarkInv == TypeOK /\ ProcessedMeansParsed /\ MarksFollowPasses

(* Only one worker has left its first wait.                                 *)
Lone(w) == \A v \in Workers \ {w} : pc[v] = "poll"

(* The steps of a deployment whose only worker is w.                        *)
LoneNext(w) ==
    \/ \E u \in Uploads : \/ Receive(u) \/ Enqueue(u) \/ RequestDies(u)
                          \/ UiRequeue(u) \/ UiEngineRequeue(u) \/ Age(u)
    \/ UiPause
    \/ Step(w) \/ Crash(w)

(* No other worker moves.                                                    *)
LEMMA LoneStays ==
    ASSUME TypeOK, NEW w \in Workers, Lone(w), LoneNext(w)
    PROVE  Lone(w)'
<1>1. CASE Step(w) \/ Crash(w)
    BY <1>1 DEF Step, Crash, RequeueRead, RequeueWrite, Throttle, Claim, NothingToClaim,
                RejectUntyped, SkipParse, StartParse, FinishParse, FailParse, FailStart,
                MarkRead, MarkWrite, RecordFailure, Drop, Lone, TypeOK
<1>2. CASE ~(Step(w) \/ Crash(w))
  <2>1. pc' = pc
      BY <1>2 DEF LoneNext, Receive, Enqueue, RequestDies, UiRequeue, UiEngineRequeue, Age, UiPause
  <2> QED
      BY <2>1 DEF Lone
<1> QED
    BY <1>1, <1>2

LEMMA MarkInvPreserved ==
    ASSUME NEW w \in Workers
    PROVE  MarkInv /\ Lone(w) /\ (LoneNext(w) \/ UNCHANGED vars) => MarkInv' /\ Lone(w)'
<1> SUFFICES ASSUME MarkInv, Lone(w), LoneNext(w) \/ UNCHANGED vars PROVE MarkInv' /\ Lone(w)'
    OBVIOUS
<1>0. [Next]_vars
    BY DEF Next, LoneNext
<1>00. TypeOK /\ TypeOK'
    BY TypePreserved, <1>0 DEF MarkInv
<1>000. Lone(w)'
    BY LoneStays, <1>00 DEF Lone, vars, MarkInv
<1> USE <1>00 DEF Done, Unfinished
(* Passes are only counted upwards. *)
<1>1. SUFFICES ProcessedMeansParsed' /\ MarksFollowPasses'
    BY <1>000 DEF MarkInv
<1>2. ASSUME NEW u \in Uploads,
             \/ Receive(u) \/ Enqueue(u) \/ RequestDies(u)
             \/ UiRequeue(u) \/ UiEngineRequeue(u) \/ Age(u)
      PROVE  ProcessedMeansParsed' /\ MarksFollowPasses'
  <2>1. UNCHANGED <<pc, job, passes>>
      BY <1>2 DEF Receive, Enqueue, RequestDies, UiRequeue, UiEngineRequeue, Age
  <2>2. ASSUME NEW v \in Uploads
        PROVE  \/ status'[v] = status[v]
               \/ status'[v] \in {"uploaded", "error", "queued"}
               \/ status'[v] = "parsed" /\ status[v] \in {"processed", "parsed"}
      BY <1>2 DEF Receive, Enqueue, RequestDies, UiRequeue, UiEngineRequeue, Age, TypeOK
  <2>3. ProcessedMeansParsed'
      BY <2>1, <2>2 DEF MarkInv, ProcessedMeansParsed
  <2>4. ASSUME NEW v \in Workers, pc[v] = "mark", status'[job[v]] \in Unfinished
        PROVE  passes[job[v]] > 0
    <3>1. job[v] \in Uploads
        BY <2>4 DEF TypeOK, Holds
    <3> QED
        BY <2>2, <2>4, <3>1 DEF MarkInv, MarksFollowPasses, ProcessedMeansParsed
  <2>5. MarksFollowPasses'
      BY <2>1, <2>4 DEF MarkInv, MarksFollowPasses
  <2> QED
      BY <2>3, <2>5
<1>3. ASSUME Step(w) \/ Crash(w)
      PROVE  ProcessedMeansParsed' /\ MarksFollowPasses'
  <2>1. \A v \in Workers : v = w \/ pc'[v] = "poll"
      BY <1>000 DEF Lone
  <2>2. CASE RequeueRead(w) \/ Throttle(w) \/ NothingToClaim(w) \/ Crash(w)
    <3>1. UNCHANGED <<status, passes>> /\ pc'[w] \notin {"mark", "write"}
        BY <2>2 DEF RequeueRead, Throttle, NothingToClaim, Crash, TypeOK
    <3> QED
        BY <2>1, <3>1 DEF MarkInv, MarksFollowPasses, ProcessedMeansParsed
  <2>3. CASE RequeueWrite(w)
    <3>1. /\ passes' = passes /\ pc'[w] = "throttle"
          /\ \A v \in Uploads : status'[v] \in {status[v], "queued"}
        BY <2>3 DEF RequeueWrite, TypeOK
    <3> QED
        BY <2>1, <3>1 DEF MarkInv, MarksFollowPasses, ProcessedMeansParsed
  <2>4. ASSUME NEW u \in Uploads, Claim(w, u)
        PROVE  ProcessedMeansParsed' /\ MarksFollowPasses'
    <3>1. /\ passes' = passes /\ pc'[w] = "claimed"
          /\ \A v \in Uploads : status'[v] \in {status[v], "parsing"}
        BY <2>4 DEF Claim, ClaimedStatus, TypeOK
    <3> QED
        BY <2>1, <3>1 DEF MarkInv, MarksFollowPasses, ProcessedMeansParsed
  <2>5. CASE SkipParse(w)
    <3>1. /\ UNCHANGED <<status, passes, job>> /\ pc'[w] = "mark"
          /\ job[w] \in Uploads /\ status[job[w]] \in Done
        BY <2>5 DEF SkipParse, TypeOK, Holds
    <3> QED
        BY <2>1, <3>1 DEF MarkInv, MarksFollowPasses, ProcessedMeansParsed
  <2>6. CASE StartParse(w)
    <3>1. /\ passes' = passes /\ pc'[w] = "parsing"
          /\ \A v \in Uploads : status'[v] \in {status[v], "parsing"}
        BY <2>6 DEF StartParse, TypeOK
    <3> QED
        BY <2>1, <3>1 DEF MarkInv, MarksFollowPasses, ProcessedMeansParsed
  <2>7. CASE FinishParse(w)
    <3>1. job[w] \in Uploads
        BY <2>7 DEF FinishParse, TypeOK, Holds
    <3>2. /\ pc'[w] = "mark" /\ job' = job
          /\ passes' = [passes EXCEPT ![job[w]] = passes[job[w]] + 1]
        BY <2>7 DEF FinishParse, TypeOK
    <3>3. \A v \in Uploads : v # job[w] => status'[v] = status[v] /\ passes'[v] = passes[v]
        BY <2>7, <3>2 DEF FinishParse, TypeOK
    <3>4. passes'[job[w]] > 0
        BY <3>1, <3>2 DEF TypeOK
    <3> QED
        BY <2>1, <3>1, <3>2, <3>3, <3>4 DEF MarkInv, MarksFollowPasses, ProcessedMeansParsed
  <2>8. CASE RejectUntyped(w) \/ FailParse(w) \/ FailStart(w)
    <3>1. /\ passes' = passes /\ job[w] \in Uploads
          /\ \A v \in Uploads : status'[v] \in {status[v], "error"}
        BY <2>8 DEF RejectUntyped, FailParse, FailStart, RecordFailure, Drop, TypeOK, Holds
    <3>2. \/ pc'[w] = "mark" /\ job' = job
          \/ pc'[w] \in {"claim", "poll"}
        BY <2>8 DEF RejectUntyped, FailParse, FailStart, RecordFailure, Drop, NextJob, TypeOK
    <3>3. status'[job[w]] = "error"
        BY <2>8, <3>1 DEF RejectUntyped, FailParse, FailStart, RecordFailure, TypeOK
    <3> QED
        BY <2>1, <3>1, <3>2, <3>3 DEF MarkInv, MarksFollowPasses, ProcessedMeansParsed
  <2>9. CASE MarkRead(w)
    <3>1. UNCHANGED <<status, passes>> /\ pc[w] = "mark"
        BY <2>9 DEF MarkRead, Drop
    <3>2. \/ pc'[w] = "write" /\ job' = job /\ status[job[w]] \in Unfinished
          \/ pc'[w] \in {"claim", "poll"}
        BY <2>9 DEF MarkRead, Drop, NextJob, TypeOK
    <3> QED
        BY <2>1, <3>1, <3>2 DEF MarkInv, MarksFollowPasses, ProcessedMeansParsed
  <2>10. CASE MarkWrite(w)
    <3>1. /\ passes' = passes /\ pc'[w] \in {"claim", "poll"}
          /\ status' = [status EXCEPT ![job[w]] = "processed"]
          /\ passes[job[w]] > 0
        BY <2>10 DEF MarkWrite, Drop, NextJob, MarkInv, MarksFollowPasses, TypeOK
    <3> QED
        BY <2>1, <3>1 DEF MarkInv, MarksFollowPasses, ProcessedMeansParsed, TypeOK
  <2> QED
      BY <1>3, <2>2, <2>3, <2>4, <2>5, <2>6, <2>7, <2>8, <2>9, <2>10 DEF Step
<1>4. CASE UNCHANGED vars \/ UiPause
  <2>1. UNCHANGED <<pc, job, passes, status>>
      BY <1>4 DEF vars, UiPause
  <2> QED
      BY <2>1 DEF MarkInv, MarksFollowPasses, ProcessedMeansParsed
<1> QED
    BY <1>2, <1>3, <1>4 DEF LoneNext

(* A deployment only makes steps of the pipeline, so what is proved of any   *)
(* number of workers holds of every fleet.                                    *)
THEOREM FleetsArePipelines == FleetSpec => Spec /\ [](fleet \subseteq Workers)
<1>1. FleetInit => Init /\ fleet \subseteq Workers
    BY DEF FleetInit
<1>2. fleet \subseteq Workers /\ [FleetNext]_<<vars, fleet>>
        => [Next]_vars /\ (fleet \subseteq Workers)'
    BY DEF FleetNext, Next
<1> QED
    BY <1>1, <1>2, PTL DEF FleetSpec, Spec

(* What is true of a fleet of one: its worker is alone, and marks what it    *)
(* has read.                                                                   *)
FleetInv ==
    /\ fleet \subseteq Workers
    /\ \A w \in Workers : fleet = {w} => MarkInv /\ Lone(w)

(* The same upload by upload, for any number of workers: what the pipeline  *)
(* knows of a row that was put in the queue at most once.                    *)
ClaimsAreCounted ==
    /\ \A u \in Uploads : status[u] = "queued" => epoch[u] >= 1
    /\ \A w \in Workers : Holds(w) => gen[w] >= 1

IsTold(u) ==
    /\ status[u] \in Done => passes[u] > 0
    /\ \A w \in Workers : job[w] = u =>
          /\ (pc[w] = "mark" /\ status[u] \in Unfinished) => passes[u] > 0
          /\ pc[w] = "write" => passes[u] > 0

SinglesAreTold == \A u \in Uploads : epoch[u] <= 1 => IsTold(u)

SingleInv == ClaimInv /\ ClaimsAreCounted /\ SinglesAreTold

(* One queue entry, one claim: nobody else works on the upload.             *)
LEMMA SoleHolder ==
    ASSUME ClaimInv, ClaimsAreCounted, NEW v \in Workers, NEW w \in Workers,
           Holds(v), Holds(w), job[v] = job[w], epoch[job[w]] <= 1
    PROVE  v = w
<1>1. /\ gen[v] \in Nat /\ gen[w] \in Nat /\ epoch[job[w]] \in Nat
    BY DEF ClaimInv, TypeOK
<1>2. gen[v] = 1 /\ gen[w] = 1
    BY <1>1 DEF ClaimInv, ClaimsAreOfPastEntries, ClaimsAreCounted
<1> QED
    BY <1>2 DEF ClaimInv, OneClaimPerQueueEntry

(* ... and nobody at all while it waits.                                    *)
LEMMA WaitingIsFree ==
    ASSUME ClaimInv, ClaimsAreCounted, NEW u \in Uploads, NEW w \in Workers,
           status[u] = "queued", epoch[u] <= 1, Holds(w)
    PROVE  job[w] # u
<1>1. gen[w] \in Nat /\ epoch[u] \in Nat /\ gen[w] >= 1
    BY DEF ClaimInv, TypeOK, ClaimsAreCounted
<1> QED
    BY <1>1 DEF ClaimInv, ClaimsAreOfPastEntries

LEMMA CountedPreserved ==
    TypeOK /\ ClaimsAreCounted /\ [Next]_vars => ClaimsAreCounted' /\ \A u \in Uploads : epoch[u] <= epoch'[u]
<1> SUFFICES ASSUME TypeOK, ClaimsAreCounted, [Next]_vars
             PROVE  ClaimsAreCounted' /\ \A u \in Uploads : epoch[u] <= epoch'[u]
    OBVIOUS
<1>0. TypeOK'
    BY TypePreserved
<1> DEFINE IsCounted(u) ==
             /\ epoch[u] <= epoch'[u]
             /\ status'[u] = "queued" => status[u] = "queued" \/ epoch'[u] = epoch[u] + 1
<1>1. ASSUME NEW u \in Uploads PROVE IsCounted(u)
  <2>1. ASSUME NEW x \in Uploads,
               \/ Receive(x) \/ Enqueue(x) \/ RequestDies(x)
               \/ UiRequeue(x) \/ UiEngineRequeue(x) \/ Age(x)
        PROVE  IsCounted(u)
      BY <2>1 DEF Receive, Enqueue, RequestDies, UiRequeue, UiEngineRequeue, Age, TypeOK
  <2>2. ASSUME NEW w \in Workers, Step(w) \/ Crash(w) PROVE IsCounted(u)
    <3>1. CASE RequeueWrite(w)
        BY <3>1 DEF RequeueWrite, TypeOK
    <3>2. ASSUME NEW x \in Uploads, Claim(w, x) PROVE IsCounted(u)
        BY <3>2 DEF Claim, ClaimedStatus, TypeOK
    <3>3. CASE RequeueRead(w) \/ Throttle(w) \/ NothingToClaim(w) \/ Crash(w)
               \/ SkipParse(w) \/ MarkRead(w)
        BY <3>3 DEF RequeueRead, Throttle, NothingToClaim, Crash, SkipParse, MarkRead, Drop, TypeOK
    <3>4. CASE StartParse(w) \/ FinishParse(w) \/ RejectUntyped(w)
               \/ FailParse(w) \/ FailStart(w) \/ MarkWrite(w)
        BY <3>4 DEF StartParse, FinishParse, RejectUntyped, FailParse, FailStart, MarkWrite,
                    RecordFailure, Drop, TypeOK
    <3> QED
        BY <2>2, <3>1, <3>2, <3>3, <3>4 DEF Step
  <2>3. CASE UNCHANGED vars \/ UiPause
      BY <2>3 DEF vars, UiPause, TypeOK
  <2> QED
      BY <2>1, <2>2, <2>3 DEF Next
<1>2. ASSUME NEW u \in Uploads, status'[u] = "queued" PROVE epoch'[u] >= 1
    BY <1>0, <1>1, <1>2 DEF ClaimsAreCounted, TypeOK
<1>3. ASSUME NEW w \in Workers, Holds(w)' PROVE gen'[w] >= 1
  <2>1. ASSUME NEW x \in Uploads,
               \/ Receive(x) \/ Enqueue(x) \/ RequestDies(x)
               \/ UiRequeue(x) \/ UiEngineRequeue(x) \/ Age(x)
        PROVE  gen'[w] >= 1
      BY <1>3, <2>1 DEF Receive, Enqueue, RequestDies, UiRequeue, UiEngineRequeue, Age, Holds, ClaimsAreCounted
  <2>2. ASSUME NEW v \in Workers, Step(v) \/ Crash(v) PROVE gen'[w] >= 1
    <3>1. ASSUME NEW x \in Uploads, Claim(v, x) PROVE gen'[w] >= 1
      <4>1. CASE v = w
        <5>1. gen'[w] = epoch[x] /\ status[x] = "queued"
            BY <3>1, <4>1 DEF Claim, Claimable, TypeOK
        <5> QED
            BY <5>1 DEF ClaimsAreCounted
      <4>2. CASE v # w
          BY <1>3, <3>1, <4>2 DEF Claim, Holds, ClaimsAreCounted, TypeOK
      <4> QED
          BY <4>1, <4>2
    <3>2. CASE RequeueRead(v) \/ RequeueWrite(v) \/ Throttle(v) \/ NothingToClaim(v) \/ Crash(v)
        BY <1>3, <3>2 DEF RequeueRead, RequeueWrite, Throttle, NothingToClaim, Crash, Holds,
                          ClaimsAreCounted, TypeOK
    <3>3. CASE SkipParse(v) \/ StartParse(v) \/ FinishParse(v) \/ MarkRead(v) \/ MarkWrite(v)
        BY <1>3, <3>3 DEF SkipParse, StartParse, FinishParse, MarkRead, MarkWrite, Drop, NextJob,
                          Holds, ClaimsAreCounted, TypeOK
    <3>4. CASE RejectUntyped(v) \/ FailParse(v) \/ FailStart(v)
        BY <1>3, <3>4 DEF RejectUntyped, FailParse, FailStart, RecordFailure, Drop, NextJob,
                          Holds, ClaimsAreCounted, TypeOK
    <3> QED
        BY <2>2, <3>1, <3>2, <3>3, <3>4 DEF Step
  <2>3. CASE UNCHANGED vars \/ UiPause
      BY <1>3, <2>3 DEF vars, UiPause, Holds, ClaimsAreCounted
  <2> QED
      BY <2>1, <2>2, <2>3 DEF Next
<1> QED
    BY <1>1, <1>2, <1>3 DEF ClaimsAreCounted

(* What the rows queued once need of a step: the row keeps its status or    *)
(* gets one that says nothing, or its only holder has just read it.          *)
LEMMA SinglesPreserved == SingleInv /\ [Next]_vars => SinglesAreTold'
<1> SUFFICES ASSUME SingleInv, [Next]_vars, NEW u \in Uploads, epoch'[u] <= 1
             PROVE  IsTold(u)'
    BY DEF SinglesAreTold
<1>0. /\ TypeOK /\ TypeOK' /\ ClaimInv /\ ClaimsAreCounted
      /\ epoch[u] \in Nat /\ epoch'[u] \in Nat /\ epoch[u] <= epoch'[u]
    BY TypePreserved, CountedPreserved DEF SingleInv, ClaimInv, TypeOK
<1>1. epoch[u] <= 1 /\ IsTold(u)
    BY <1>0 DEF SingleInv, SinglesAreTold
<1> USE <1>0, <1>1 DEF Done, Unfinished
(* Enough for a step of one worker on another upload, or on none.           *)
<1>2. ASSUME passes'[u] = passes[u], status'[u] = status[u],
             \A v \in Workers : (pc'[v] \in {"mark", "write"} /\ job'[v] = u) =>
                                   pc'[v] = pc[v] /\ job'[v] = job[v]
      PROVE  IsTold(u)'
    BY <1>2 DEF IsTold
<1>3. ASSUME NEW x \in Uploads,
             \/ Receive(x) \/ Enqueue(x) \/ RequestDies(x)
             \/ UiRequeue(x) \/ UiEngineRequeue(x) \/ Age(x)
      PROVE  IsTold(u)'
  <2>1. UNCHANGED <<pc, job, passes>>
      BY <1>3 DEF Receive, Enqueue, RequestDies, UiRequeue, UiEngineRequeue, Age
  <2>2. \/ status'[u] = status[u]
        \/ status'[u] \in {"uploaded", "error", "queued"}
        \/ status'[u] = "parsed" /\ status[u] \in {"processed", "parsed"}
      BY <1>3 DEF Receive, Enqueue, RequestDies, UiRequeue, UiEngineRequeue, Age, TypeOK
  <2> QED
      BY <2>1, <2>2 DEF IsTold
<1>4. ASSUME NEW w \in Workers, Step(w) \/ Crash(w) PROVE IsTold(u)'
  <2>1. CASE RequeueRead(w) \/ Throttle(w) \/ NothingToClaim(w) \/ Crash(w)
    <3>1. /\ UNCHANGED <<status, passes>> /\ pc'[w] \notin {"mark", "write"}
          /\ \A v \in Workers : v # w => pc'[v] = pc[v] /\ job'[v] = job[v]
        BY <2>1 DEF RequeueRead, Throttle, NothingToClaim, Crash, TypeOK
    <3> QED
        BY <3>1, <1>2
  <2>2. CASE RequeueWrite(w)
    <3>1. /\ passes' = passes /\ job' = job /\ status'[u] \in {status[u], "queued"}
          /\ pc' = [pc EXCEPT ![w] = "throttle"]
        BY <2>2 DEF RequeueWrite, TypeOK
    <3> QED
        BY <3>1 DEF IsTold, TypeOK
  <2>3. ASSUME NEW x \in Uploads, Claim(w, x) PROVE IsTold(u)'
    <3>1. /\ passes' = passes /\ pc' = [pc EXCEPT ![w] = "claimed"]
          /\ job' = [job EXCEPT ![w] = x] /\ status[x] = "queued"
          /\ status' = [status EXCEPT ![x] = "parsing"]
        BY <2>3 DEF Claim, ClaimedStatus, Claimable
    <3>2. CASE x = u
      <4>1. ASSUME NEW v \in Workers, pc'[v] \in {"mark", "write"} PROVE job'[v] # u
        <5>1. v # w /\ pc[v] \in {"mark", "write"} /\ job'[v] = job[v]
            BY <3>1, <4>1 DEF TypeOK
        <5> QED
            BY <3>1, <3>2, <5>1, WaitingIsFree DEF Holds
      <4> QED
          BY <3>1, <3>2, <4>1 DEF IsTold, TypeOK
    <3>3. CASE x # u
        BY <1>2, <3>1, <3>3 DEF TypeOK
    <3> QED
        BY <3>2, <3>3
  <2>4. ASSUME Holds(w),
               \A v \in Workers : v # w => pc'[v] = pc[v] /\ job'[v] = job[v],
               job'[w] \in {job[w], 0},
               \A x \in Uploads : x # job[w] => status'[x] = status[x] /\ passes'[x] = passes[x],
               job[w] = u =>
                  /\ status'[u] \in Done => passes'[u] > 0
                  /\ (pc'[w] = "mark" /\ status'[u] \in Unfinished) => passes'[u] > 0
                  /\ pc'[w] = "write" => passes'[u] > 0
        PROVE  IsTold(u)'
    <3>0. job[w] \in Uploads /\ u # 0
        BY <2>4, UploadAssumption DEF TypeOK
    <3>1. CASE job[w] = u
      <4>1. ASSUME NEW v \in Workers, v # w, job'[v] = u
            PROVE  pc'[v] \notin {"mark", "write"}
          BY <2>4, <3>1, <4>1, SoleHolder DEF Holds
      <4> QED
          BY <2>4, <3>1, <4>1 DEF IsTold
    <3>2. CASE job[w] # u
        BY <1>2, <2>4, <3>0, <3>2
    <3> QED
        BY <3>1, <3>2
  <2> HIDE <1>0, <1>1
  <2> USE <1>0
  <2>5. CASE SkipParse(w)
    <3>1. /\ UNCHANGED <<status, passes, job>> /\ pc' = [pc EXCEPT ![w] = "mark"]
          /\ Holds(w) /\ status[job[w]] \in Done
        BY <2>5 DEF SkipParse, Holds
    <3>2. job[w] = u => passes[u] > 0
        BY <1>1, <3>1 DEF IsTold
    <3> QED
        BY <2>4, <3>1, <3>2 DEF TypeOK
  <2>6. CASE StartParse(w)
    <3>1. /\ UNCHANGED <<passes, job>> /\ pc' = [pc EXCEPT ![w] = "parsing"]
          /\ Holds(w) /\ status' = [status EXCEPT ![job[w]] = "parsing"]
        BY <2>6 DEF StartParse, Holds
    <3> QED
        BY <2>4, <3>1 DEF TypeOK
  <2>7. CASE FinishParse(w)
    <3>1. /\ job' = job /\ pc' = [pc EXCEPT ![w] = "mark"] /\ Holds(w)
          /\ passes' = [passes EXCEPT ![job[w]] = passes[job[w]] + 1]
        BY <2>7 DEF FinishParse, Holds
    <3>2. \A x \in Uploads : x # job[w] => status'[x] = status[x] /\ passes'[x] = passes[x]
        BY <2>7, <3>1 DEF FinishParse, TypeOK
    <3>3. job[w] = u => passes'[u] > 0
        BY <3>1 DEF TypeOK
    <3> QED
        BY <2>4, <3>1, <3>2, <3>3 DEF TypeOK
  <2>8. CASE RejectUntyped(w) \/ FailParse(w) \/ FailStart(w)
    <3>1. /\ passes' = passes /\ Holds(w) /\ status' = [status EXCEPT ![job[w]] = "error"]
        BY <2>8 DEF RejectUntyped, FailParse, FailStart, RecordFailure, Drop, Holds
    <3>2. \/ pc' = [pc EXCEPT ![w] = "mark"] /\ job' = job
          \/ pc'[w] \in {"claim", "poll"} /\ job' = [job EXCEPT ![w] = 0]
             /\ \A v \in Workers : v # w => pc'[v] = pc[v]
        BY <2>8 DEF RejectUntyped, FailParse, FailStart, RecordFailure, Drop, NextJob, TypeOK
    <3>3. job[w] \in Uploads
        BY <3>1 DEF TypeOK
    <3> QED
        BY <2>4, <3>1, <3>2, <3>3 DEF TypeOK
  <2>9. CASE MarkRead(w)
    <3>1. UNCHANGED <<status, passes>> /\ pc[w] = "mark" /\ Holds(w)
        BY <2>9 DEF MarkRead, Drop, Holds
    <3>2. \/ /\ pc' = [pc EXCEPT ![w] = "write"] /\ job' = job
             /\ status[job[w]] \in Unfinished
          \/ pc'[w] \in {"claim", "poll"} /\ job' = [job EXCEPT ![w] = 0]
             /\ \A v \in Workers : v # w => pc'[v] = pc[v]
        BY <2>9 DEF MarkRead, Drop, NextJob, TypeOK
    <3>3. job[w] = u /\ status[u] \in Done \cup Unfinished /\ pc'[w] = "write" => passes[u] > 0
        BY <1>1, <3>1, <3>2 DEF IsTold
    <3>4. job[w] = u /\ status[u] \in Done => passes[u] > 0
        BY <1>1 DEF IsTold
    <3> QED
        BY <2>4, <3>1, <3>2, <3>3, <3>4 DEF TypeOK
  <2>10. CASE MarkWrite(w)
    <3>1. /\ passes' = passes /\ pc[w] = "write" /\ Holds(w)
          /\ status' = [status EXCEPT ![job[w]] = "processed"]
          /\ pc'[w] \in {"claim", "poll"} /\ job' = [job EXCEPT ![w] = 0]
          /\ \A v \in Workers : v # w => pc'[v] = pc[v]
        BY <2>10 DEF MarkWrite, Drop, NextJob, Holds, TypeOK
    <3>2. job[w] = u => passes[u] > 0
        BY <1>1, <3>1 DEF IsTold
    <3> QED
        BY <2>4, <3>1, <3>2 DEF TypeOK
  <2> QED
      BY <1>4, <2>1, <2>2, <2>3, <2>5, <2>6, <2>7, <2>8, <2>9, <2>10 DEF Step
<1>5. CASE UNCHANGED vars \/ UiPause
  <2>1. UNCHANGED <<pc, job, passes, status>>
      BY <1>5 DEF vars, UiPause
  <2> QED
      BY <2>1, <1>2
<1> QED
    BY <1>3, <1>4, <1>5 DEF Next

LEMMA FleetInvInitially == FleetInit => FleetInv /\ SingleInv
<1> SUFFICES ASSUME FleetInit PROVE FleetInv /\ SingleInv
    OBVIOUS
<1>1. ProcessedMeansParsed /\ MarksFollowPasses /\ \A w \in Workers : Lone(w)
    BY DEF FleetInit, Init, ProcessedMeansParsed, MarksFollowPasses, Done, Lone
<1>2. TypeOK /\ fleet \subseteq Workers /\ ClaimInv
    BY TypeInitially, ClaimInvInitially DEF FleetInit
<1>3. ClaimsAreCounted /\ SinglesAreTold
    BY DEF FleetInit, Init, ClaimsAreCounted, SinglesAreTold, IsTold, Holds, Done
<1> QED
    BY <1>1, <1>2, <1>3 DEF FleetInv, MarkInv, SingleInv

LEMMA FleetInvPreserved == FleetInv /\ [FleetNext]_<<vars, fleet>> => FleetInv'
<1> SUFFICES ASSUME FleetInv, [FleetNext]_<<vars, fleet>> PROVE FleetInv'
    OBVIOUS
<1>1. fleet' = fleet
    BY DEF FleetNext
<1>2. ASSUME NEW w \in Workers, fleet = {w} PROVE MarkInv' /\ Lone(w)'
  <2>1. LoneNext(w) \/ UNCHANGED vars
      BY <1>2 DEF FleetNext, LoneNext
  <2>2. MarkInv /\ Lone(w)
      BY <1>2 DEF FleetInv
  <2> QED
      BY <2>1, <2>2, MarkInvPreserved
<1> QED
    BY <1>1, <1>2 DEF FleetInv

LEMMA SingleInvPreserved == FleetInv /\ SingleInv /\ [FleetNext]_<<vars, fleet>> => SingleInv'
<1>1. FleetInv /\ [FleetNext]_<<vars, fleet>> => [Next]_vars
    BY DEF FleetInv, FleetNext, Next
<1> QED
    BY <1>1, ClaimInvPreserved, CountedPreserved, SinglesPreserved DEF SingleInv, ClaimInv

(* An upload shown as finished has been read to its end, if one worker runs *)
(* or its row was queued only once.  The hypothesis is needed: with a second *)
(* entry, the mark of one worker writes processed over the parsing another   *)
(* has begun on the same row.                                                 *)
THEOREM UndisturbedMarksAreTrue == FleetSpec => []FinishedWereRead
<1>1. FleetInv /\ SingleInv => FinishedWereRead
  <2> SUFFICES ASSUME FleetInv, SingleInv, NEW u \in Uploads, status[u] \in Done,
                      Cardinality(fleet) = 1 \/ epoch[u] <= 1
               PROVE  passes[u] > 0
      BY DEF FinishedWereRead
  <2>1. CASE Cardinality(fleet) = 1
    <3>1. IsFiniteSet(fleet)
        BY FleetAssumption, FS_Subset DEF FleetInv
    <3>2. PICK w : fleet = {w}
        BY <2>1, <3>1, FS_Singleton
    <3> QED
        BY <3>2 DEF FleetInv, MarkInv, ProcessedMeansParsed
  <2>2. CASE epoch[u] <= 1
      BY <2>2 DEF SingleInv, SinglesAreTold, IsTold
  <2> QED
      BY <2>1, <2>2
<1> QED
    BY <1>1, FleetInvInitially, FleetInvPreserved, SingleInvPreserved, PTL DEF FleetSpec

-------------------------------------------------------------------------------

(* No worker is in front of or inside a parse of the upload once it is shown *)
(* as finished.                                                                *)
FreeWhenDone(u) ==
    status[u] \in Done =>
        \A w \in Workers : job[w] = u => pc[w] \notin {"claimed", "parsing"}

(* Enough for it: no two workers hold the upload before the step.           *)
LEMMA FreePreserved ==
    ASSUME TypeOK, [Next]_vars, NEW u \in Uploads, FreeWhenDone(u),
           \A v, w \in Workers :
               Holds(v) /\ Holds(w) /\ job[v] = u /\ job[w] = u => v = w
    PROVE  FreeWhenDone(u)'
<1> SUFFICES ASSUME status'[u] \in Done, NEW v \in Workers, job'[v] = u,
                    pc'[v] \in {"claimed", "parsing"}
             PROVE  FALSE
    BY DEF FreeWhenDone
<1> USE DEF Done
<1>0. u # 0
    BY UploadAssumption
<1>1. ASSUME pc'[v] = pc[v], job'[v] = job[v] PROVE status[u] \notin Done /\ Holds(v) /\ job[v] = u
    BY <1>1 DEF FreeWhenDone, Holds
<1>2. ASSUME NEW x \in Uploads,
             \/ Receive(x) \/ Enqueue(x) \/ RequestDies(x)
             \/ UiRequeue(x) \/ UiEngineRequeue(x) \/ Age(x)
      PROVE  FALSE
  <2>1. UNCHANGED <<pc, job>>
      BY <1>2 DEF Receive, Enqueue, RequestDies, UiRequeue, UiEngineRequeue, Age
  <2>2. status'[u] \in Done => status[u] \in Done
      BY <1>2 DEF Receive, Enqueue, RequestDies, UiRequeue, UiEngineRequeue, Age, TypeOK
  <2> QED
      BY <1>1, <2>1, <2>2
<1>3. ASSUME NEW w \in Workers, Step(w) \/ Crash(w) PROVE FALSE
  <2>1. CASE RequeueRead(w) \/ Throttle(w) \/ NothingToClaim(w) \/ Crash(w) \/ SkipParse(w) \/ MarkRead(w)
    <3>1. status' = status /\ (v # w => pc'[v] = pc[v] /\ job'[v] = job[v])
        BY <2>1 DEF RequeueRead, Throttle, NothingToClaim, Crash, SkipParse, MarkRead, Drop, TypeOK
    <3>2. pc'[w] \notin {"claimed", "parsing"}
        BY <2>1 DEF RequeueRead, Throttle, NothingToClaim, Crash, SkipParse, MarkRead, Drop,
                    NextJob, TypeOK
    <3> QED
        BY <1>1, <3>1, <3>2
  <2>2. CASE RequeueWrite(w)
    <3>1. /\ job' = job /\ pc' = [pc EXCEPT ![w] = "throttle"]
          /\ status'[u] \in {status[u], "queued"}
        BY <2>2 DEF RequeueWrite
    <3> QED
        BY <1>1, <3>1 DEF TypeOK
  <2>3. ASSUME NEW x \in Uploads, Claim(w, x) PROVE FALSE
    <3>1. /\ pc' = [pc EXCEPT ![w] = "claimed"] /\ job' = [job EXCEPT ![w] = x]
          /\ status' = [status EXCEPT ![x] = "parsing"]
        BY <2>3 DEF Claim, ClaimedStatus
    <3> QED
        BY <1>1, <3>1 DEF TypeOK
  <2>4. CASE StartParse(w)
    <3>1. /\ job' = job /\ pc' = [pc EXCEPT ![w] = "parsing"]
          /\ status' = [status EXCEPT ![job[w]] = "parsing"]
        BY <2>4 DEF StartParse
    <3> QED
        BY <1>1, <3>1 DEF TypeOK
  <2>5. CASE FinishParse(w) \/ RejectUntyped(w) \/ FailParse(w) \/ FailStart(w) \/ MarkWrite(w)
    <3>1. /\ Holds(w) /\ pc'[w] \notin {"claimed", "parsing"}
          /\ v # w => pc'[v] = pc[v] /\ job'[v] = job[v]
          /\ \A x \in Uploads : x # job[w] => status'[x] = status[x]
        BY <2>5 DEF FinishParse, RejectUntyped, FailParse, FailStart, RecordFailure, MarkWrite,
                    Drop, NextJob, Holds, TypeOK
    <3>2. v # w /\ Holds(v) /\ job[v] = u /\ status[u] \notin Done
        BY <1>1, <3>1
    <3> QED
        BY <3>1, <3>2
  <2> QED
      BY <1>3, <2>1, <2>2, <2>3, <2>4, <2>5 DEF Step
<1>4. CASE UNCHANGED vars \/ UiPause
  <2>1. UNCHANGED <<pc, job, status>>
      BY <1>4 DEF vars, UiPause
  <2> QED
      BY <1>1, <2>1
<1> QED
    BY <1>2, <1>3, <1>4 DEF Next

(* A finished row that nobody is about to parse only leaves its status by a *)
(* new entry in the queue.                                                    *)
LEMMA FreeRowsStay ==
    ASSUME TypeOK, [Next]_vars, NEW u \in Uploads, FreeWhenDone(u), status[u] \in Done
    PROVE  status'[u] \in Done \/ epoch'[u] > epoch[u]
<1> USE DEF Done
<1>1. ASSUME NEW x \in Uploads,
             \/ Receive(x) \/ Enqueue(x) \/ RequestDies(x)
             \/ UiRequeue(x) \/ UiEngineRequeue(x) \/ Age(x)
      PROVE  status'[u] \in Done \/ epoch'[u] > epoch[u]
    BY <1>1 DEF Receive, Enqueue, RequestDies, UiRequeue, UiEngineRequeue, Age, TypeOK
<1>2. ASSUME NEW w \in Workers, Step(w) \/ Crash(w)
      PROVE  status'[u] \in Done \/ epoch'[u] > epoch[u]
  <2>1. CASE RequeueRead(w) \/ Throttle(w) \/ NothingToClaim(w) \/ Crash(w) \/ SkipParse(w) \/ MarkRead(w)
      BY <2>1 DEF RequeueRead, Throttle, NothingToClaim, Crash, SkipParse, MarkRead, table
  <2>2. CASE RequeueWrite(w)
      BY <2>2 DEF RequeueWrite, TypeOK
  <2>3. ASSUME NEW x \in Uploads, Claim(w, x) PROVE status'[u] \in Done
    <3>1. x # u /\ status' = [status EXCEPT ![x] = "parsing"]
        BY <2>3 DEF Claim, ClaimedStatus, Claimable
    <3> QED
        BY <3>1 DEF TypeOK
  <2>4. CASE StartParse(w) \/ FinishParse(w) \/ MarkWrite(w)
      BY <2>4 DEF StartParse, FinishParse, MarkWrite, TypeOK
  <2>5. CASE RejectUntyped(w) \/ FailParse(w) \/ FailStart(w)
    <3>1. pc[w] \in {"claimed", "parsing"} /\ status' = [status EXCEPT ![job[w]] = "error"]
        BY <2>5 DEF RejectUntyped, FailParse, FailStart, RecordFailure, MarkedError
    <3>2. job[w] # u
        BY <3>1 DEF FreeWhenDone
    <3> QED
        BY <3>1, <3>2 DEF TypeOK
  <2> QED
      BY <1>2, <2>1, <2>2, <2>3, <2>4, <2>5 DEF Step
<1>3. CASE UNCHANGED vars \/ UiPause
    BY <1>3 DEF vars, UiPause, table
<1> QED
    BY <1>1, <1>2, <1>3 DEF Next

(* The rows that have one holder at most: all of them where one worker runs, *)
(* those queued once everywhere.                                               *)
FreeInv ==
    /\ FleetInv /\ SingleInv
    /\ \A u \in Uploads : ((\E w \in Workers : fleet = {w}) \/ epoch[u] <= 1) => FreeWhenDone(u)

LEMMA FreeInvPreserved == FreeInv /\ [FleetNext]_<<vars, fleet>> => FreeInv'
<1> SUFFICES ASSUME FreeInv, [FleetNext]_<<vars, fleet>> PROVE FreeInv'
    OBVIOUS
<1>1. FleetInv' /\ SingleInv' /\ [Next]_vars /\ fleet' = fleet /\ TypeOK
    BY FleetInvPreserved, SingleInvPreserved DEF FreeInv, FleetInv, FleetNext, Next, SingleInv, ClaimInv
<1>2. ASSUME NEW u \in Uploads, NEW w \in Workers, fleet = {w} PROVE FreeWhenDone(u)'
  <2>1. Lone(w) /\ FreeWhenDone(u)
      BY <1>2 DEF FreeInv, FleetInv
  <2>2. \A v \in Workers : Holds(v) => v = w
      BY <2>1 DEF Lone, Holds
  <2> QED
      BY <1>1, <2>1, <2>2, FreePreserved
<1>3. ASSUME NEW u \in Uploads, epoch'[u] <= 1 PROVE FreeWhenDone(u)'
  <2>1. epoch[u] <= epoch'[u] /\ epoch[u] \in Nat /\ epoch'[u] \in Nat
      BY <1>1, CountedPreserved, TypePreserved DEF FreeInv, SingleInv, TypeOK
  <2>2. epoch[u] <= 1 /\ FreeWhenDone(u)
      BY <1>3, <2>1 DEF FreeInv
  <2>3. \A v, w \in Workers : Holds(v) /\ Holds(w) /\ job[v] = u /\ job[w] = u => v = w
      BY <2>2, SoleHolder DEF FreeInv, SingleInv
  <2> QED
      BY <1>1, <2>2, <2>3, FreePreserved
<1> QED
    BY <1>1, <1>2, <1>3 DEF FreeInv

(* A finished upload leaves that state only by a new entry in the queue, if  *)
(* one worker runs or its row was queued only once.  The hypothesis is       *)
(* needed: with a second entry, the failure of the worker that took it puts  *)
(* error over what the first worker finished meanwhile.                       *)
THEOREM FinishedUploadsStay == FleetSpec => FinishedStays
<1>1. FleetInit => FreeInv
  <2> SUFFICES ASSUME FleetInit PROVE FreeInv
      OBVIOUS
  <2>1. \A u \in Uploads : FreeWhenDone(u)
      BY DEF FleetInit, Init, FreeWhenDone, Done
  <2> QED
      BY <2>1, FleetInvInitially DEF FreeInv
<1>2. ASSUME FreeInv, [FleetNext]_<<vars, fleet>>, NEW u \in Uploads, status[u] \in Done,
             Cardinality(fleet) = 1 \/ epoch[u] <= 1
      PROVE  status'[u] \in Done \/ epoch'[u] > epoch[u]
  <2>1. [Next]_vars /\ TypeOK
      BY <1>2 DEF FreeInv, FleetInv, FleetNext, Next, SingleInv, ClaimInv
  <2>2. Cardinality(fleet) = 1 => \E w \in Workers : fleet = {w}
    <3>1. IsFiniteSet(fleet) /\ fleet \subseteq Workers
        BY <1>2, FleetAssumption, FS_Subset DEF FreeInv, FleetInv
    <3> QED
        BY <3>1, FS_Singleton
  <2>3. FreeWhenDone(u)
      BY <1>2, <2>2 DEF FreeInv
  <2> QED
      BY <1>2, <2>1, <2>3, FreeRowsStay
<1>3. FreeInv /\ [FleetNext]_<<vars, fleet>> =>
        [\A u \in Uploads :
            (status[u] \in Done /\ (Cardinality(fleet) = 1 \/ epoch[u] <= 1))
               => status'[u] \in Done \/ epoch'[u] > epoch[u]]_<<vars, fleet>>
    BY <1>2
<1> QED
    BY <1>1, <1>3, FreeInvPreserved, PTL DEF FleetSpec, FinishedStays

-------------------------------------------------------------------------------

(* Claims of an upload whose pass over the file is still to come. *)
Owed(u) == {w \in Workers : pc[w] \in {"claimed", "parsing"} /\ job[w] = u}

Waits(u) == IF status[u] = "queued" THEN 1 ELSE 0

(* A queue entry is waiting, or claimed, or spent on a pass, or lost. *)
PassInv ==
    \A u \in Uploads :
        /\ IsFiniteSet(Owed(u))
        /\ passes[u] + Cardinality(Owed(u)) + Waits(u) <= epoch[u]

(* Steps that claim nothing and complete no pass. *)
LEMMA NoPass ==
    ASSUME TypeOK, TypeOK', PassInv, passes' = passes,
           \A u \in Uploads : Owed(u)' \subseteq Owed(u),
           \A u \in Uploads :
              /\ epoch[u] <= epoch'[u]
              /\ (status'[u] = "queued" /\ status[u] # "queued") => epoch[u] + 1 <= epoch'[u]
    PROVE  PassInv'
<1> SUFFICES ASSUME NEW u \in Uploads
             PROVE  /\ IsFiniteSet(Owed(u)')
                    /\ passes'[u] + Cardinality(Owed(u)') + Waits(u)' <= epoch'[u]
    BY DEF PassInv
<1>1. /\ IsFiniteSet(Owed(u)') /\ Cardinality(Owed(u)') <= Cardinality(Owed(u))
      /\ Cardinality(Owed(u)') \in Nat /\ Cardinality(Owed(u)) \in Nat
    BY FS_Subset, FS_CardinalityType DEF PassInv
<1>2. passes[u] \in Nat /\ epoch[u] \in Nat /\ epoch'[u] \in Nat
    BY DEF TypeOK
<1>3. passes[u] + Cardinality(Owed(u)) + Waits(u) <= epoch[u]
    BY DEF PassInv
<1>4. Waits(u) \in {0, 1} /\ Waits(u)' \in {0, 1}
    BY DEF Waits
<1>5. Waits(u)' <= Waits(u) \/ (Waits(u) = 0 /\ Waits(u)' = 1 /\ epoch[u] + 1 <= epoch'[u])
    BY DEF Waits
<1> QED
    BY <1>1, <1>2, <1>3, <1>4, <1>5

LEMMA PassInvPreserved == TypeOK /\ PassInv /\ [Next]_vars => PassInv'
<1> SUFFICES ASSUME TypeOK, PassInv, [Next]_vars PROVE PassInv'
    OBVIOUS
<1>0. TypeOK'
    BY TypePreserved
<1>1. ASSUME NEW u \in Uploads,
             \/ Receive(u) \/ Enqueue(u) \/ RequestDies(u)
             \/ UiRequeue(u) \/ UiEngineRequeue(u) \/ Age(u)
      PROVE  PassInv'
  <2>1. UNCHANGED <<pc, job>> /\ passes' = passes
      BY <1>1 DEF Receive, Enqueue, RequestDies, UiRequeue, UiEngineRequeue, Age
  <2>2. ASSUME NEW v \in Uploads
        PROVE  /\ epoch[v] <= epoch'[v]
               /\ (status'[v] = "queued" /\ status[v] # "queued") => epoch[v] + 1 <= epoch'[v]
      BY <1>1 DEF Receive, Enqueue, RequestDies, UiRequeue, UiEngineRequeue, Age, TypeOK
  <2> QED
      BY <1>0, <2>1, <2>2, NoPass DEF Owed
<1>2. ASSUME NEW w \in Workers, Step(w) \/ Crash(w) PROVE PassInv'
  <2>1. CASE RequeueWrite(w)
    <3>1. passes' = passes /\ \A v \in Workers : pc'[v] \in {"claimed", "parsing"} =>
                                  pc[v] \in {"claimed", "parsing"} /\ job'[v] = job[v]
        BY <2>1 DEF RequeueWrite, TypeOK
    <3>2. ASSUME NEW v \in Uploads
          PROVE  /\ epoch[v] <= epoch'[v]
                 /\ (status'[v] = "queued" /\ status[v] # "queued") => epoch[v] + 1 <= epoch'[v]
        BY <2>1 DEF RequeueWrite, TypeOK
    <3>3. \A v \in Uploads : Owed(v)' \subseteq Owed(v)
        BY <3>1 DEF Owed
    <3> QED
        BY <1>0, <3>1, <3>2, <3>3, NoPass
  <2>2. ASSUME NEW u \in Uploads, Claim(w, u) PROVE PassInv'
    <3>1. /\ passes' = passes /\ epoch' = epoch /\ status[u] = "queued"
          /\ status' = [status EXCEPT ![u] = "parsing"]
        BY <2>2 DEF Claim, Claimable, ClaimedStatus
    <3>2. Owed(u)' \subseteq Owed(u) \cup {w} /\ \A v \in Uploads \ {u} : Owed(v)' \subseteq Owed(v)
      <4>1. job'[w] = u /\ \A x \in Workers \ {w} : pc'[x] = pc[x] /\ job'[x] = job[x]
          BY <2>2 DEF Claim, TypeOK
      <4> QED
          BY <4>1 DEF Owed
    <3>3. /\ IsFiniteSet(Owed(u) \cup {w})
          /\ Cardinality(Owed(u) \cup {w}) <= Cardinality(Owed(u)) + 1
          /\ Cardinality(Owed(u)) \in Nat /\ Cardinality(Owed(u) \cup {w}) \in Nat
      <4>1. IsFiniteSet(Owed(u)) /\ Cardinality(Owed(u)) \in Nat
          BY FS_CardinalityType DEF PassInv
      <4>2. /\ IsFiniteSet(Owed(u) \cup {w})
            /\ Cardinality(Owed(u) \cup {w}) =
                  IF w \in Owed(u) THEN Cardinality(Owed(u)) ELSE Cardinality(Owed(u)) + 1
          BY <4>1, FS_AddElement
      <4> QED
          BY <4>1, <4>2
    <3>4. /\ IsFiniteSet(Owed(u)') /\ Cardinality(Owed(u)') \in Nat
          /\ Cardinality(Owed(u)') <= Cardinality(Owed(u) \cup {w})
      <4>1. Owed(u)' \in SUBSET (Owed(u) \cup {w})
          BY <3>2
      <4> QED
          BY <3>3, <4>1, FS_Subset, FS_CardinalityType
    <3>5. Waits(u) = 1 /\ Waits(u)' = 0 /\ passes[u] \in Nat /\ epoch[u] \in Nat
        BY <3>1 DEF Waits, TypeOK
    <3>6. passes[u] + Cardinality(Owed(u)) + 1 <= epoch[u]
        BY <3>5 DEF PassInv
    <3>7. passes'[u] + Cardinality(Owed(u)') + Waits(u)' <= epoch'[u]
        BY <3>1, <3>3, <3>4, <3>5, <3>6
    <3>8. ASSUME NEW v \in Uploads, v # u
          PROVE  /\ IsFiniteSet(Owed(v)')
                 /\ passes'[v] + Cardinality(Owed(v)') + Waits(v)' <= epoch'[v]
      <4>1. /\ IsFiniteSet(Owed(v)') /\ Cardinality(Owed(v)') <= Cardinality(Owed(v))
            /\ Cardinality(Owed(v)') \in Nat /\ Cardinality(Owed(v)) \in Nat
          BY <3>2, <3>8, FS_Subset, FS_CardinalityType DEF PassInv
      <4>2. Waits(v)' = Waits(v) /\ Waits(v) \in Nat /\ passes[v] \in Nat /\ epoch[v] \in Nat
          BY <3>1, <3>8 DEF Waits, TypeOK
      <4>3. passes[v] + Cardinality(Owed(v)) + Waits(v) <= epoch[v]
          BY DEF PassInv
      <4> QED
          BY <3>1, <4>1, <4>2, <4>3
    <3> QED
        BY <3>4, <3>7, <3>8 DEF PassInv
  <2>3. CASE FinishParse(w)
    <3>0. PICK u \in Uploads : u = job[w]
        BY <2>3 DEF FinishParse, TypeOK, Holds
    <3>1. /\ u \in Uploads /\ w \in Owed(u) /\ epoch' = epoch
          /\ passes' = [passes EXCEPT ![u] = passes[u] + 1]
        BY <2>3, <3>0 DEF FinishParse, TypeOK, Owed
    <3>2. \A v \in Uploads : status'[v] = "queued" => status[v] = "queued"
        BY <2>3 DEF FinishParse, TypeOK
    <3>3. Owed(u)' \subseteq Owed(u) \ {w} /\ \A v \in Uploads : Owed(v)' \subseteq Owed(v)
        BY <2>3, <3>0 DEF FinishParse, Owed, TypeOK
    <3>4. ASSUME NEW v \in Uploads
          PROVE  /\ IsFiniteSet(Owed(v)')
                 /\ passes'[v] + Cardinality(Owed(v)') + Waits(v)' <= epoch'[v]
      <4>1. /\ IsFiniteSet(Owed(v)') /\ Cardinality(Owed(v)') <= Cardinality(Owed(v))
            /\ Cardinality(Owed(v)') \in Nat /\ Cardinality(Owed(v)) \in Nat
          BY <3>3, FS_Subset, FS_CardinalityType DEF PassInv
      <4>2. /\ Waits(v)' <= Waits(v) /\ Waits(v) \in Nat /\ Waits(v)' \in Nat
            /\ passes[v] \in Nat /\ epoch[v] \in Nat
          BY <3>2 DEF Waits, TypeOK
      <4>3. passes[v] + Cardinality(Owed(v)) + Waits(v) <= epoch[v]
          BY DEF PassInv
      <4>4. CASE v = u
        <5>1. /\ IsFiniteSet(Owed(u) \ {w})
              /\ Cardinality(Owed(u) \ {w}) = Cardinality(Owed(u)) - 1
            BY <3>1, FS_RemoveElement DEF PassInv
        <5>2. Cardinality(Owed(u)') <= Cardinality(Owed(u)) - 1
          <6>1. Owed(u)' \in SUBSET (Owed(u) \ {w})
              BY <3>3
          <6> QED
              BY <5>1, <6>1, FS_Subset
        <5>3. passes'[v] = passes[v] + 1
            BY <3>1, <4>4 DEF TypeOK
        <5>4. Cardinality(Owed(v)') <= Cardinality(Owed(v)) - 1
            BY <4>4, <5>2
        <5> QED
            BY <3>1, <4>1, <4>2, <4>3, <5>3, <5>4
      <4>5. CASE v # u
        <5>1. passes'[v] = passes[v]
            BY <3>1, <4>5 DEF TypeOK
        <5> QED
            BY <3>1, <4>1, <4>2, <4>3, <5>1
      <4> QED
          BY <4>4, <4>5
    <3> QED
        BY <3>4 DEF PassInv
  <2>4. ASSUME passes' = passes, epoch' = epoch,
               \A v \in Uploads : status'[v] = "queued" => status[v] = "queued",
               \A v \in Workers : pc'[v] \in {"claimed", "parsing"} =>
                   pc[v] \in {"claimed", "parsing"} /\ job'[v] = job[v]
        PROVE  PassInv'
    <3>1. \A v \in Uploads : Owed(v)' \subseteq Owed(v)
        BY <2>4 DEF Owed
    <3>2. \A v \in Uploads : epoch[v] <= epoch'[v]
        BY <2>4 DEF TypeOK
    <3> QED
        BY <1>0, <2>4, <3>1, <3>2, NoPass
  <2>5. CASE \/ RequeueRead(w) \/ Throttle(w) \/ NothingToClaim(w) \/ SkipParse(w)
             \/ StartParse(w) \/ Crash(w)
    <3>1. /\ passes' = passes /\ epoch' = epoch
          /\ \A v \in Uploads : status'[v] = "queued" => status[v] = "queued"
        BY <2>5 DEF RequeueRead, Throttle, NothingToClaim, SkipParse, StartParse, Crash, TypeOK
    <3>2. \A v \in Workers : pc'[v] \in {"claimed", "parsing"} =>
                   pc[v] \in {"claimed", "parsing"} /\ job'[v] = job[v]
        BY <2>5 DEF RequeueRead, Throttle, NothingToClaim, SkipParse, StartParse, Crash, TypeOK
    <3> QED
        BY <2>4, <3>1, <3>2
  <2>6. CASE RejectUntyped(w) \/ FailParse(w) \/ FailStart(w) \/ MarkRead(w) \/ MarkWrite(w)
    <3>1. /\ passes' = passes /\ epoch' = epoch
          /\ \A v \in Uploads : status'[v] = "queued" => status[v] = "queued"
        BY <2>6 DEF RejectUntyped, FailParse, FailStart, RecordFailure, MarkRead, MarkWrite,
                    Drop, TypeOK
    <3>2. \A v \in Workers : pc'[v] \in {"claimed", "parsing"} =>
                   pc[v] \in {"claimed", "parsing"} /\ job'[v] = job[v]
        BY <2>6 DEF RejectUntyped, FailParse, FailStart, RecordFailure, MarkRead, MarkWrite,
                    Drop, NextJob, TypeOK
    <3> QED
        BY <2>4, <3>1, <3>2
  <2> QED
      BY <1>2, <2>1, <2>2, <2>3, <2>5, <2>6 DEF Step
<1>3. CASE UNCHANGED vars \/ UiPause
  <2>1. UNCHANGED <<pc, job, status, epoch, passes>>
      BY <1>3 DEF vars, UiPause
  <2> QED
      BY <2>1 DEF PassInv, Owed, Waits
<1> QED
    BY <1>1, <1>2, <1>3 DEF Next

LEMMA PassInvInitially == Init => PassInv
<1> SUFFICES ASSUME Init, NEW u \in Uploads
             PROVE  /\ IsFiniteSet(Owed(u))
                    /\ passes[u] + Cardinality(Owed(u)) + Waits(u) <= epoch[u]
    BY DEF PassInv
<1>1. Owed(u) = {} /\ Waits(u) = 0 /\ passes[u] = 0 /\ epoch[u] = 0
    BY DEF Init, Owed, Waits
<1> QED
    BY <1>1, FS_EmptySet

(* For any number of workers, a file goes downstream at most once for each  *)
(* time its row was put in the queue.                                        *)
THEOREM PassesAreQueued == Spec => []OnePassPerQueueEntry
<1>1. TypeOK /\ PassInv => OnePassPerQueueEntry
  <2> SUFFICES ASSUME TypeOK, PassInv, NEW u \in Uploads PROVE passes[u] <= epoch[u]
      BY DEF OnePassPerQueueEntry
  <2>1. Cardinality(Owed(u)) \in Nat /\ Waits(u) \in Nat
      BY FS_CardinalityType DEF PassInv, Waits
  <2>2. passes[u] \in Nat /\ epoch[u] \in Nat
      BY DEF TypeOK
  <2> QED
      BY <2>1, <2>2 DEF PassInv
<1> QED
    BY <1>1, TypeInitially, TypePreserved, PassInvInitially, PassInvPreserved, PTL DEF Spec

-------------------------------------------------------------------------------

(* Rows that nothing but a stale requeue or the operator moves again.       *)
Orphans == {u \in Uploads : Orphan(u) \/ Abandoned(u)}

OrphanInv == IsFiniteSet(Orphans) /\ Cardinality(Orphans) <= crashes

LEMMA NoOrphan ==
    ASSUME TypeOK, TypeOK', OrphanInv, Orphans' \subseteq Orphans, crashes <= crashes'
    PROVE  OrphanInv'
<1>1. Orphans' \in SUBSET Orphans
    OBVIOUS
<1>2. /\ IsFiniteSet(Orphans') /\ Cardinality(Orphans') <= Cardinality(Orphans)
      /\ Cardinality(Orphans') \in Nat /\ Cardinality(Orphans) \in Nat
    BY <1>1, FS_Subset, FS_CardinalityType DEF OrphanInv
<1>3. crashes \in Nat /\ crashes' \in Nat
    BY DEF TypeOK
<1> QED
    BY <1>2, <1>3 DEF OrphanInv

(* A step of one worker strands no row if it lets go of its upload only     *)
(* when that is not in parsing, and puts only its own upload in parsing.     *)
LEMMA StepStrandsNothing ==
    ASSUME NEW w \in Workers,
           \A v \in Workers \ {w} : pc'[v] = pc[v] /\ job'[v] = job[v],
           Holds(w) => (Holds(w)' /\ job'[w] = job[w]) \/ status'[job[w]] # "parsing",
           handler' = handler,
           \A u \in Uploads : status'[u] = "uploaded" => status[u] = "uploaded",
           \A u \in Uploads : status'[u] = "parsing" =>
               status[u] = "parsing" \/ (Holds(w)' /\ job'[w] = u)
    PROVE  Orphans' \subseteq Orphans
<1> SUFFICES ASSUME NEW u \in Uploads, status'[u] = "parsing",
                    \A v \in Workers : ~(Holds(v)' /\ job'[v] = u)
             PROVE  status[u] = "parsing" /\ \A v \in Workers : ~(Holds(v) /\ job[v] = u)
    BY DEF Orphans, Orphan, Abandoned
<1>1. status[u] = "parsing"
    OBVIOUS
<1>2. ~(Holds(w) /\ job[w] = u)
    OBVIOUS
<1>3. ASSUME NEW v \in Workers, v # w PROVE ~(Holds(v) /\ job[v] = u)
    BY <1>3 DEF Holds
<1> QED
    BY <1>1, <1>2, <1>3

(* A death strands one row at most. *)
LEMMA OneOrphanMore ==
    ASSUME TypeOK, OrphanInv, NEW x, Orphans' \subseteq Orphans \cup {x}, crashes' = crashes + 1
    PROVE  OrphanInv'
<1>1. IsFiniteSet(Orphans) /\ Cardinality(Orphans) \in Nat /\ crashes \in Nat
    BY FS_CardinalityType DEF OrphanInv, TypeOK
<1>2. /\ IsFiniteSet(Orphans \cup {x})
      /\ Cardinality(Orphans \cup {x}) =
            IF x \in Orphans THEN Cardinality(Orphans) ELSE Cardinality(Orphans) + 1
    BY <1>1, FS_AddElement
<1>3. Orphans' \in SUBSET (Orphans \cup {x})
    OBVIOUS
<1>4. /\ IsFiniteSet(Orphans') /\ Cardinality(Orphans') \in Nat
      /\ Cardinality(Orphans') <= Cardinality(Orphans \cup {x})
    BY <1>2, <1>3, FS_Subset, FS_CardinalityType
<1> QED
    BY <1>1, <1>2, <1>4 DEF OrphanInv

LEMMA OrphanInvPreserved == TypeOK /\ OrphanInv /\ [Next]_vars => OrphanInv'
<1> SUFFICES ASSUME TypeOK, OrphanInv, [Next]_vars PROVE OrphanInv'
    OBVIOUS
<1>0. TypeOK'
    BY TypePreserved
<1>1. ASSUME NEW u \in Uploads,
             \/ Receive(u) \/ Enqueue(u) \/ RequestDies(u)
             \/ UiRequeue(u) \/ UiEngineRequeue(u) \/ Age(u)
      PROVE  OrphanInv'
  <2>1. pc' = pc /\ job' = job
      BY <1>1 DEF Receive, Enqueue, RequestDies, UiRequeue, UiEngineRequeue, Age
  <2>2. \A v \in Uploads : status'[v] = "parsing" => status[v] = "parsing"
      BY <1>1 DEF Receive, Enqueue, RequestDies, UiRequeue, UiEngineRequeue, Age, TypeOK
  <2>3. \A v \in Uploads : Orphan(v)' => Orphan(v)
      BY <2>1, <2>2 DEF Orphan, Holds
  <2>4. CASE RequestDies(u)
    <3>1. /\ crashes' = crashes + 1 /\ status' = status
          /\ \A v \in Uploads : v # u => handler'[v] = handler[v]
        BY <2>4 DEF RequestDies, table, TypeOK
    <3>2. Orphans' \subseteq Orphans \cup {u}
        BY <2>3, <3>1 DEF Orphans, Abandoned
    <3> QED
        BY <3>1, <3>2, OneOrphanMore
  <2>5. CASE ~RequestDies(u)
    <3>1. crashes' = crashes
        BY <1>1, <2>5 DEF Receive, Enqueue, UiRequeue, UiEngineRequeue, Age, budgets
    <3>2. ASSUME NEW v \in Uploads, Abandoned(v)' PROVE Abandoned(v)
      <4>1. CASE Receive(u)
          BY <3>2, <4>1 DEF Receive, Abandoned, TypeOK
      <4>2. CASE Enqueue(u)
          BY <3>2, <4>2 DEF Enqueue, Abandoned, TypeOK
      <4>3. CASE UiRequeue(u) \/ UiEngineRequeue(u) \/ Age(u)
          BY <3>2, <4>3 DEF UiRequeue, UiEngineRequeue, Age, Abandoned, TypeOK
      <4> QED
          BY <1>1, <2>5, <4>1, <4>2, <4>3
    <3>3. Orphans' \subseteq Orphans /\ crashes <= crashes'
        BY <2>3, <3>1, <3>2 DEF Orphans, TypeOK
    <3> QED
        BY <1>0, <3>3, NoOrphan
  <2> QED
      BY <2>4, <2>5
<1>2. ASSUME NEW w \in Workers, Step(w) PROVE OrphanInv'
  <2>0. /\ handler' = handler
        /\ \A u \in Uploads : status'[u] = "uploaded" => status[u] = "uploaded"
    <3>1. CASE StartParse(w) \/ FinishParse(w) \/ MarkWrite(w)
               \/ RejectUntyped(w) \/ FailParse(w) \/ FailStart(w)
        BY <3>1 DEF StartParse, FinishParse, MarkWrite, RejectUntyped, FailParse, FailStart,
                    RecordFailure, MarkedError, TypeOK
    <3>2. ASSUME NEW u \in Uploads, Claim(w, u)
          PROVE  /\ handler' = handler
                 /\ \A v \in Uploads : status'[v] = "uploaded" => status[v] = "uploaded"
        BY <3>2 DEF Claim, ClaimedStatus, TypeOK
    <3>3. CASE RequeueWrite(w)
        BY <3>3 DEF RequeueWrite, TypeOK
    <3>4. CASE RequeueRead(w) \/ Throttle(w) \/ NothingToClaim(w) \/ SkipParse(w) \/ MarkRead(w)
        BY <3>4 DEF RequeueRead, Throttle, NothingToClaim, SkipParse, MarkRead, table
    <3> QED
        BY <1>2, <3>1, <3>2, <3>3, <3>4 DEF Step
  <2>1. crashes <= crashes'
    <3>1. crashes' = crashes \/ crashes' = crashes + 1
        BY <1>2 DEF Step, RequeueRead, RequeueWrite, Throttle, Claim, NothingToClaim,
                    RejectUntyped, SkipParse, StartParse, FinishParse, FailParse, FailStart,
                    MarkRead, MarkWrite
    <3> QED
        BY <3>1 DEF TypeOK
  <2>2. CASE RequeueRead(w) \/ RequeueWrite(w) \/ Throttle(w) \/ NothingToClaim(w)
    <3>1. /\ ~Holds(w) /\ \A v \in Workers \ {w} : pc'[v] = pc[v] /\ job'[v] = job[v]
          /\ \A v \in Uploads : status'[v] = "parsing" => status[v] = "parsing"
        BY <2>2 DEF RequeueRead, RequeueWrite, Throttle, NothingToClaim, Holds, TypeOK
    <3> QED
        BY <1>0, <2>0, <2>1, <3>1, StepStrandsNothing, NoOrphan
  <2>3. ASSUME NEW u \in Uploads, Claim(w, u) PROVE OrphanInv'
    <3>1. /\ ~Holds(w) /\ \A v \in Workers \ {w} : pc'[v] = pc[v] /\ job'[v] = job[v]
          /\ \A v \in Uploads : status'[v] = "parsing" => status[v] = "parsing" \/ v = u
          /\ Holds(w)' /\ job'[w] = u
        BY <2>3 DEF Claim, Holds, TypeOK
    <3> QED
        BY <1>0, <2>0, <2>1, <3>1, StepStrandsNothing, NoOrphan
  <2>4. CASE SkipParse(w) \/ StartParse(w) \/ FinishParse(w)
    <3>1. /\ \A v \in Workers \ {w} : pc'[v] = pc[v] /\ job'[v] = job[v]
          /\ \A v \in Uploads : status'[v] = "parsing" => status[v] = "parsing" \/ v = job[w]
          /\ Holds(w)' /\ job'[w] = job[w]
        BY <2>4 DEF SkipParse, StartParse, FinishParse, Holds, TypeOK
    <3> QED
        BY <1>0, <2>0, <2>1, <3>1, StepStrandsNothing, NoOrphan
  <2>5. CASE RejectUntyped(w) \/ FailParse(w) \/ FailStart(w) \/ MarkWrite(w)
    <3>1. \A v \in Workers \ {w} : pc'[v] = pc[v] /\ job'[v] = job[v]
        BY <2>5 DEF RejectUntyped, FailParse, FailStart, RecordFailure, MarkWrite, Drop, TypeOK
    <3>2. job[w] \in Uploads
        BY <2>5 DEF RejectUntyped, FailParse, FailStart, MarkWrite, Holds, TypeOK
    <3>3. \E st \in {"error", "processed"} : status' = [status EXCEPT ![job[w]] = st]
        BY <2>5 DEF RejectUntyped, FailParse, FailStart, RecordFailure, MarkWrite
    <3>4. /\ status'[job[w]] # "parsing"
          /\ \A v \in Uploads : status'[v] = "parsing" => status[v] = "parsing"
        BY <3>2, <3>3 DEF TypeOK
    <3> QED
        BY <1>0, <2>0, <2>1, <3>1, <3>4, StepStrandsNothing, NoOrphan
  <2>6. CASE MarkRead(w)
    <3>1. status' = status /\ \A v \in Workers \ {w} : pc'[v] = pc[v] /\ job'[v] = job[v]
        BY <2>6 DEF MarkRead, Drop, TypeOK
    <3>2. (Holds(w)' /\ job'[w] = job[w]) \/ status[job[w]] # "parsing"
        BY <2>6 DEF MarkRead, Unfinished, Holds, TypeOK
    <3> QED
        BY <1>0, <2>0, <2>1, <3>1, <3>2, StepStrandsNothing, NoOrphan
  <2> QED
      BY <1>2, <2>2, <2>3, <2>4, <2>5, <2>6 DEF Step
<1>3. ASSUME NEW w \in Workers, Crash(w) PROVE OrphanInv'
  <2>1. /\ status' = status /\ handler' = handler /\ crashes' = crashes + 1
        /\ \A v \in Workers \ {w} : pc'[v] = pc[v] /\ job'[v] = job[v]
      BY <1>3 DEF Crash, TypeOK, table
  <2>2. Orphans' \subseteq Orphans \cup {job[w]}
    <3> SUFFICES ASSUME NEW u \in Uploads, u # job[w], status[u] = "parsing",
                        \A v \in Workers : ~(Holds(v)' /\ job'[v] = u)
                 PROVE  \A v \in Workers : ~(Holds(v) /\ job[v] = u)
        BY <2>1 DEF Orphans, Orphan, Abandoned
    <3> QED
        BY <2>1 DEF Holds
  <2> QED
      BY <2>1, <2>2, OneOrphanMore
<1>4. CASE UNCHANGED vars \/ UiPause
  <2>1. UNCHANGED <<pc, job, status, handler, crashes>>
      BY <1>4 DEF vars, UiPause
  <2> QED
      BY <2>1 DEF OrphanInv, Orphans, Orphan, Abandoned, Holds
<1> QED
    BY <1>1, <1>2, <1>3, <1>4 DEF Next

(* For any number of workers and uploads, only deaths strand rows, in        *)
(* parsing or before the queue, and one each: requeues and marks of other    *)
(* workers never do.                                                          *)
THEOREM DeathsStrandOneEach == Spec => []OrphansNeedCrashes
<1>1. Init => OrphanInv
  <2> SUFFICES ASSUME Init PROVE OrphanInv
      OBVIOUS
  <2>1. Orphans = {} /\ crashes = 0
      BY DEF Init, Orphans, Orphan, Abandoned
  <2> QED
      BY <2>1, FS_EmptySet DEF OrphanInv
<1>2. OrphanInv => OrphansNeedCrashes
    BY DEF OrphanInv, Orphans, OrphansNeedCrashes
<1> QED
    BY <1>1, <1>2, TypeInitially, TypePreserved, OrphanInvPreserved, PTL DEF Spec

===============================================================================
