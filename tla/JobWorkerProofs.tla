--------------------------- MODULE JobWorkerProofs ---------------------------
(***************************************************************************)
(* Proofs about JobWorker for every number of jobs, workers, clients and   *)
(* attempts.                                                               *)
(***************************************************************************)
EXTENDS JobWorker, TLAPS

USE DEF NoWorker

-----------------------------------------------------------------------------
(* Types *)

LEMMA ParentStatusType ==
  ASSUME NEW j \in Jobs, NEW s \in Statuses
  PROVE  ParentStatus(j, s) \in ParentStatuses(j)
  BY DEF ParentStatus, ParentStatuses, Statuses

LEMMA ParentStatusRange ==
  ASSUME NEW j \in Jobs
  PROVE  ParentStatuses(j) \subseteq Statuses \union {"processing", "ready"}
  BY DEF ParentStatuses, Statuses

LEMMA ExhaustedRowType ==
  ASSUME NEW row \in JobRow PROVE ExhaustedRow(row) \in JobRow
  BY DEF ExhaustedRow, JobRow, Statuses

LEMMA ClaimedRowType ==
  ASSUME NEW row \in JobRow, NEW w \in Workers
  PROVE  ClaimedRow(row, w) \in JobRow
<1> DEFINE p == AtLeast(1, row.progress)
           a == row.attempt + 1
           g == row.generation + 1
<1>1. p \in Nat /\ a \in Nat /\ g \in Nat
  BY DEF AtLeast, JobRow
<1>2. ClaimedRow(row, w) =
        [row EXCEPT !.status = "running", !.progress = p, !.attempt = a,
                    !.generation = g, !.owner = w, !.lease = "live"]
  BY DEF ClaimedRow
<1> HIDE DEF p, a, g
<1> QED
  BY <1>1, <1>2 DEF JobRow, Statuses

LEMMA FailedRowType ==
  ASSUME NEW row \in JobRow, NEW f \in Failures
  PROVE  FailedRow(row, f) \in JobRow
<1> DEFINE m == IF Retryable(f) /\ RearmCategory(f) /\ row.attempt >= row.maxAttempts
                THEN row.attempt + 1 ELSE row.maxAttempts
           r == Retryable(f) /\ (RearmCategory(f) \/ row.attempt < row.maxAttempts)
           c == RearmCode(f)
<1>1. m \in Nat
  BY DEF JobRow
<1>2. r \in BOOLEAN /\ c \in BOOLEAN
  BY DEF Retryable, RearmCode
<1>3. FailedRow(row, f) =
        [row EXCEPT !.status = "failed", !.maxAttempts = m, !.retryable = r,
                    !.rearm = c, !.owner = NoWorker, !.lease = "none"]
  BY Zenon DEF FailedRow
<1> HIDE DEF m, r, c
<1> QED
  BY <1>1, <1>2, <1>3 DEF JobRow, Statuses

LEMMA RecordFailureType ==
  ASSUME QueueTypeOK, NEW j \in Jobs, NEW f \in Failures, RecordFailure(j, f)
  PROVE  QueueTypeOK'
<1>1. job' \in [Jobs -> JobRow]
  BY FailedRowType DEF RecordFailure, QueueTypeOK
<1>2. ParentStatus(j, "failed") \in ParentStatuses(j)
  BY ParentStatusType DEF Statuses
<1>3. QED
  BY <1>1, <1>2, ParentStatusRange DEF RecordFailure, QueueTypeOK

LEMMA ClaimWritesType ==
  ASSUME QueueTypeOK, NEW w \in Workers, NEW chosen \in SUBSET Jobs, ClaimWrites(w, chosen)
  PROVE  QueueTypeOK'
<1>1. job' \in [Jobs -> JobRow]
  <2>1. \A j \in Jobs : job[j] \in JobRow
    BY DEF QueueTypeOK
  <2>2. QED
    BY <2>1, ExhaustedRowType, ClaimedRowType DEF ClaimWrites
<1>2. \A j \in Jobs : StatusAfterClaim(j, chosen) \in Statuses
  BY DEF StatusAfterClaim, QueueTypeOK, JobRow, Statuses
<1>3. \A j \in Jobs : ParentStatus(j, StatusAfterClaim(j, chosen)) \in ParentStatuses(j)
  BY <1>2, ParentStatusType
<1>4. \A j \in Jobs : parent'[j] \in ParentStatuses(j)
  BY <1>3 DEF ClaimWrites, QueueTypeOK
<1>5. parent' \in [Jobs -> Statuses \union {"processing", "ready"}]
  BY <1>4, ParentStatusRange DEF ClaimWrites
<1> QED
  BY <1>1, <1>4, <1>5 DEF ClaimWrites, QueueTypeOK

LEMMA RowTypes ==
  ASSUME NEW row \in JobRow
  PROVE  /\ RenewedRow(row) \in JobRow
         /\ ExpiredRow(row) \in JobRow
         /\ AbandonedRow(row) \in JobRow
         /\ SucceededRow(row) \in JobRow
         /\ CanceledRow(row) \in JobRow
         /\ DeletedRow(row) \in JobRow
  BY DEF RenewedRow, ExpiredRow, AbandonedRow, SucceededRow, CanceledRow, DeletedRow,
         ReleasedRow, JobRow, Statuses

LEMMA StagedRowType ==
  ASSUME NEW row \in JobRow, NEW p \in Nat
  PROVE  StagedRow(row, p) \in JobRow
<1> DEFINE q == AtLeast(p, row.progress)
<1>1. q \in Nat
  BY DEF AtLeast, JobRow
<1>2. StagedRow(row, p) = [row EXCEPT !.progress = q, !.lease = "live"]
  BY DEF StagedRow
<1> HIDE DEF q
<1> QED
  BY <1>1, <1>2 DEF JobRow

LEMMA RequeuedRowType ==
  ASSUME NEW row \in JobRow, NEW m \in Nat
  PROVE  RequeuedRow(row, m) \in JobRow
  BY DEF RequeuedRow, ReleasedRow, JobRow, Statuses

LEMMA ThreadTypes ==
  /\ NoThread \in Thread
  /\ EndedThread \in Thread
  /\ \A t \in Thread :
       /\ [t EXCEPT !.leaseLost = TRUE] \in Thread
       /\ \A p \in StagePoints : [t EXCEPT !.point = p] \in Thread
       /\ \A f \in Failures : [t EXCEPT !.point = "failing", !.why = f] \in Thread
       /\ \A m \in FaultModes : [t EXCEPT !.point = "faulted", !.fault = m] \in Thread
  /\ \A w \in Workers : [NoThread EXCEPT !.point = "start", !.by = w] \in Thread
<1>1. NoThread \in Thread /\ EndedThread \in Thread
  BY DEF NoThread, EndedThread, Thread, ThreadRecord, FaultModes
<1>2. ASSUME NEW t \in Thread
      PROVE  /\ [t EXCEPT !.leaseLost = TRUE] \in Thread
             /\ \A p \in StagePoints : [t EXCEPT !.point = p] \in Thread
             /\ \A f \in Failures : [t EXCEPT !.point = "failing", !.why = f] \in Thread
             /\ \A m \in FaultModes : [t EXCEPT !.point = "faulted", !.fault = m] \in Thread
  <2>1. [t EXCEPT !.leaseLost = TRUE] \in Thread
    BY DEF Thread, ThreadRecord
  <2>2. \A p \in StagePoints : [t EXCEPT !.point = p] \in Thread
    BY DEF Thread, ThreadRecord, StagePoints
  <2>3. \A f \in Failures : [t EXCEPT !.point = "failing", !.why = f] \in Thread
    BY DEF Thread, ThreadRecord
  <2>4. "faulted" \in StagePoints
    BY DEF StagePoints
  <2>5. \A m \in FaultModes : [t EXCEPT !.point = "faulted", !.fault = m] \in Thread
    BY <2>4 DEF Thread, ThreadRecord
  <2>6. QED
    BY <2>1, <2>2, <2>3, <2>5
<1>3. \A w \in Workers : [NoThread EXCEPT !.point = "start", !.by = w] \in Thread
  BY DEF NoThread, Thread, ThreadRecord, FaultModes, StagePoints
<1> QED
  BY <1>1, <1>2, <1>3

LEMMA InitType == Init => TypeOK
<1> SUFFICES ASSUME Init PROVE TypeOK
  OBVIOUS
<1>1. QueueTypeOK
  BY ConstantsAssumption DEF Init, QueueTypeOK, JobRow, Statuses, ParentStatuses, Kind
<1>2. WorkerTypeOK
  BY ThreadTypes DEF Init, WorkerTypeOK, NoWatch
<1>3. FaultTypeOK
  BY DEF Init, FaultTypeOK, FaultModes
<1>4. ClientTypeOK
  BY DEF Init, ClientTypeOK, Snapshot, NoSnapshot
<1> QED
  BY <1>1, <1>2, <1>3, <1>4 DEF TypeOK

\* A row and its parent are rewritten together.
LEMMA SettleType ==
  ASSUME QueueTypeOK, NEW j \in Jobs, NEW row \in JobRow, NEW s \in Statuses,
         job' = [job EXCEPT ![j] = row],
         parent' = [parent EXCEPT ![j] = ParentStatus(j, s)],
         results' \in [Jobs -> SUBSET Generations]
  PROVE  QueueTypeOK'
<1>1. ParentStatus(j, s) \in ParentStatuses(j)
  BY ParentStatusType
<1> QED
  BY <1>1, ParentStatusRange DEF QueueTypeOK

LEMMA RowOnlyType ==
  ASSUME QueueTypeOK, NEW j \in Jobs, NEW row \in JobRow,
         job' = [job EXCEPT ![j] = row], UNCHANGED <<parent, results>>
  PROVE  QueueTypeOK'
  BY DEF QueueTypeOK

LEMMA ExecType ==
  ASSUME WorkerTypeOK, NEW j \in Jobs, NEW g \in Generations, NEW t \in Thread,
         exec' = [exec EXCEPT ![j][g] = t],
         UNCHANGED <<phase, watch, isolated, stopping, outages>>
  PROVE  WorkerTypeOK'
  BY DEF WorkerTypeOK

LEMMA UnchangedTypes ==
  /\ QueueTypeOK /\ UNCHANGED queueVars => QueueTypeOK'
  /\ WorkerTypeOK /\ UNCHANGED workerVars => WorkerTypeOK'
  /\ FaultTypeOK /\ UNCHANGED faultVars => FaultTypeOK'
  /\ ClientTypeOK /\ UNCHANGED pending => ClientTypeOK'
<1>1. QueueTypeOK /\ UNCHANGED queueVars => QueueTypeOK'
  BY DEF QueueTypeOK, queueVars
<1>2. WorkerTypeOK /\ UNCHANGED workerVars => WorkerTypeOK'
  BY DEF WorkerTypeOK, workerVars
<1>3. FaultTypeOK /\ UNCHANGED faultVars => FaultTypeOK'
  BY DEF FaultTypeOK, faultVars
<1>4. ClientTypeOK /\ UNCHANGED pending => ClientTypeOK'
  BY DEF ClientTypeOK
<1> QED
  BY <1>1, <1>2, <1>3, <1>4

\* Type facts about the execution a worker watches and about a thread.
LEMMA WatchType ==
  ASSUME TypeOK, NEW w \in Workers, phase[w] = "watching"
  PROVE  /\ watch[w][1] \in Jobs
         /\ watch[w][2] \in Generations
         /\ exec[watch[w][1]][watch[w][2]] \in Thread
  BY DEF TypeOK, WorkerTypeOK, Executions

LEMMA ClaimType ==
  ASSUME TypeOK, NEW w \in Workers, NEW j \in Jobs, Claim(w, j)
  PROVE  TypeOK'
<1> DEFINE g == job[j].generation + 1
<1>1. g \in Generations
  BY ConstantsAssumption DEF Claim, TypeOK, QueueTypeOK, JobRow, Generations
<1>2. QueueTypeOK'
  BY ClaimWritesType DEF Claim, TypeOK
<1>3. exec' = [exec EXCEPT ![j][g] = [NoThread EXCEPT !.point = "start", !.by = w]]
      /\ watch' = [watch EXCEPT ![w] = <<j, g>>]
  BY DEF Claim
<1> HIDE DEF g
<1>4. exec' \in [Jobs -> [Generations -> Thread]]
  BY <1>1, <1>3, ThreadTypes DEF TypeOK, WorkerTypeOK
<1>5. <<j, g>> \in Executions
  BY <1>1 DEF Executions
<1>6. WorkerTypeOK'
  BY <1>3, <1>4, <1>5 DEF Claim, TypeOK, WorkerTypeOK
<1>7. FaultTypeOK' /\ ClientTypeOK'
  BY UnchangedTypes DEF Claim, ClaimWrites, TypeOK
<1> QED
  BY <1>2, <1>6, <1>7 DEF TypeOK

LEMMA MainLoopType ==
  ASSUME TypeOK, NEW w \in Workers, MainLoop(w) \/ Deadline(w) \/ Renew(w)
  PROVE  TypeOK'
<1>1. ASSUME NEW j \in Jobs, Claim(w, j) PROVE TypeOK'
  BY <1>1, ClaimType
<1>2. CASE SweepExhausted(w)
  <2>1. QueueTypeOK'
    BY <1>2, ClaimWritesType DEF SweepExhausted, TypeOK
  <2>2. WorkerTypeOK'
    BY <1>2 DEF SweepExhausted, TypeOK, WorkerTypeOK
  <2>3. QED
    BY <1>2, <2>1, <2>2, UnchangedTypes DEF SweepExhausted, ClaimWrites, TypeOK
<1>3. CASE ObserveCompletion(w)
  <2>1. WorkerTypeOK'
    BY <1>3 DEF ObserveCompletion, Unwatch, TypeOK, WorkerTypeOK
  <2>2. QED
    BY <1>3, <2>1, UnchangedTypes DEF ObserveCompletion, TypeOK
<1>4. CASE ObserveLeaseLost(w)
  <2>1. watch[w] \in Executions
    BY <1>4 DEF ObserveLeaseLost, TypeOK, WorkerTypeOK
  <2>2. isolated' \in [Workers -> SUBSET Executions]
    BY <1>4, <2>1 DEF ObserveLeaseLost, Isolate, TypeOK, WorkerTypeOK, Executions
  <2>3. WorkerTypeOK'
    BY <1>4, <2>2 DEF ObserveLeaseLost, Unwatch, TypeOK, WorkerTypeOK
  <2>4. QED
    BY <1>4, <2>3, UnchangedTypes DEF ObserveLeaseLost, TypeOK
<1>5. CASE Abandon(w)
  <2>1. QueueTypeOK'
    BY <1>5, WatchType, RowTypes DEF Abandon, TypeOK, QueueTypeOK
  <2>2. WorkerTypeOK'
    BY <1>5 DEF Abandon, Unwatch, TypeOK, WorkerTypeOK
  <2>3. QED
    BY <1>5, <2>1, <2>2, UnchangedTypes DEF Abandon, TypeOK
<1>6. CASE Exit(w)
  <2>1. WorkerTypeOK'
    BY <1>6, ThreadTypes DEF Exit, ProcessGone, TypeOK, WorkerTypeOK
  <2>2. QED
    BY <1>6, <2>1, UnchangedTypes DEF Exit, ProcessGone, TypeOK
<1>7. CASE Restart(w)
  <2>1. WorkerTypeOK'
    BY <1>7 DEF Restart, TypeOK, WorkerTypeOK
  <2>2. QED
    BY <1>7, <2>1, UnchangedTypes DEF Restart, TypeOK
<1>8. CASE Deadline(w)
  <2>1. watch[w] \in Executions
    BY <1>8 DEF Deadline, TypeOK, WorkerTypeOK
  <2>2. isolated' \in [Workers -> SUBSET Executions]
    BY <1>8, <2>1 DEF Deadline, Isolate, TypeOK, WorkerTypeOK, Executions
  <2>3. WorkerTypeOK'
    BY <1>8, <2>2 DEF Deadline, Unwatch, TypeOK, WorkerTypeOK
  <2>4. "transient" \in Failures
    BY DEF Failures
  <2>5. QueueTypeOK'
    BY <1>8, <2>4, WatchType, RecordFailureType, UnchangedTypes DEF Deadline, TypeOK
  <2>6. QED
    BY <1>8, <2>3, <2>5, UnchangedTypes DEF Deadline, TypeOK
<1>9. CASE Renew(w)
  <2>1. job' \in [Jobs -> JobRow]
    <3>1. \A row \in JobRow : RenewedRow(row) \in JobRow
      BY RowTypes
    <3>2. QED
      BY <1>9, <3>1, WatchType DEF Renew, TypeOK, QueueTypeOK
  <2>2. exec' \in [Jobs -> [Generations -> Thread]]
    <3> DEFINE j == watch[w][1]
               g == watch[w][2]
               t == [exec[j][g] EXCEPT !.leaseLost = TRUE]
    <3>1. j \in Jobs /\ g \in Generations /\ t \in Thread
      BY <1>9, WatchType, ThreadTypes DEF Renew
    <3>2. exec' = exec \/ exec' = [exec EXCEPT ![j][g] = t]
      BY <1>9 DEF Renew
    <3> HIDE DEF j, g, t
    <3>3. QED
      BY <3>1, <3>2 DEF TypeOK, WorkerTypeOK
  <2>3. WorkerTypeOK'
    BY <1>9, <2>2 DEF Renew, TypeOK, WorkerTypeOK
  <2>4. QueueTypeOK'
    BY <1>9, <2>1 DEF Renew, TypeOK, QueueTypeOK
  <2>5. QED
    BY <1>9, <2>3, <2>4, UnchangedTypes DEF Renew, TypeOK
<1> QED
  BY <1>1, <1>2, <1>3, <1>4, <1>5, <1>6, <1>7, <1>8, <1>9 DEF MainLoop

LEMMA FenceRaisesType ==
  ASSUME TypeOK, NEW j \in Jobs, NEW g \in Generations, FenceRaises(j, g)
  PROVE  TypeOK'
<1> DEFINE f == IF job[j].status = "deleted" THEN "permanent" ELSE "transient"
           t == IF job[j].status = "canceled" THEN EndedThread
                ELSE [exec[j][g] EXCEPT !.point = "failing", !.why = f]
<1>1. f \in Failures
  BY DEF Failures
<1>2. exec[j][g] \in Thread
  BY DEF TypeOK, WorkerTypeOK
<1>3. t \in Thread
  BY <1>1, <1>2, ThreadTypes
<1>4. exec' = [exec EXCEPT ![j][g] = t]
  BY DEF FenceRaises
<1> HIDE DEF t
<1>5. WorkerTypeOK'
  BY <1>3, <1>4, ExecType DEF FenceRaises, TypeOK
<1> QED
  BY <1>5, UnchangedTypes DEF FenceRaises, TypeOK

LEMMA StageTypes ==
  ASSUME NEW j \in Jobs, NEW s \in StagesOf(j)
  PROVE  s.to \in StagePoints /\ s.progress \in 0 .. 100
  BY DEF StagesOf, PipelineStages, PreviewStages, StagePoints

LEMMA ThreadStepType ==
  ASSUME TypeOK, NEW j \in Jobs, NEW g \in Generations,
         Execute(j, g) \/ Raise(j, g) \/ FailRaises(j, g)
  PROVE  TypeOK'
<1>0. exec[j][g] \in Thread /\ job[j] \in JobRow
  BY DEF TypeOK, WorkerTypeOK, QueueTypeOK
<1>a. CASE FenceRaises(j, g)
  BY <1>a, FenceRaisesType
<1>1. CASE EnterStage(j, g) /\ ~FenceRaises(j, g)
  <2>1. PICK s \in StagesOf(j) :
          /\ job' = [job EXCEPT ![j] = StagedRow(job[j], s.progress)]
          /\ exec' = [exec EXCEPT ![j][g] = [exec[j][g] EXCEPT !.point = s.to]]
          /\ UNCHANGED <<parent, results, phase, watch, isolated, stopping, outages,
                         faultVars, pending>>
    BY <1>1 DEF EnterStage
  <2>2. StagedRow(job[j], s.progress) \in JobRow
    <3>1. s.progress \in Nat
      BY StageTypes
    <3>2. QED
      BY <1>0, <3>1, StagedRowType
  <2>3. [exec[j][g] EXCEPT !.point = s.to] \in Thread
    BY <1>0, StageTypes, ThreadTypes
  <2>4. QueueTypeOK'
    BY <2>1, <2>2, RowOnlyType DEF TypeOK
  <2>5. WorkerTypeOK'
    BY <2>1, <2>3, ExecType DEF TypeOK
  <2>6. QED
    BY <2>1, <2>4, <2>5, UnchangedTypes DEF TypeOK
<1>2. CASE ConsumeFault(j, g)
  <2>1. [exec[j][g] EXCEPT !.point = "faulted", !.fault = fault] \in Thread
    BY <1>0, ThreadTypes DEF TypeOK, FaultTypeOK
  <2>2. WorkerTypeOK'
    BY <1>2, <2>1, ExecType DEF ConsumeFault, TypeOK
  <2>3. FaultTypeOK'
    BY <1>2 DEF ConsumeFault, TypeOK, FaultTypeOK, FaultModes
  <2>4. QED
    BY <1>2, <2>2, <2>3, UnchangedTypes DEF ConsumeFault, TypeOK
<1>3. CASE CheckPlan(j, g) /\ ~FenceRaises(j, g)
  <2>1. [exec[j][g] EXCEPT !.point = "planned"] \in Thread
    BY <1>0, ThreadTypes DEF StagePoints
  <2>2. WorkerTypeOK'
    BY <1>3, <2>1, ExecType DEF CheckPlan, TypeOK
  <2>3. QED
    BY <1>3, <2>2, UnchangedTypes DEF CheckPlan, TypeOK
<1>4. CASE FaultFires(j, g)
  <2>1. [exec[j][g] EXCEPT !.point = "failing", !.why = "transient"] \in Thread
    BY <1>0, ThreadTypes DEF Failures
  <2>2. WorkerTypeOK'
    BY <1>4, <2>1, ExecType DEF FaultFires, TypeOK
  <2>3. QED
    BY <1>4, <2>2, UnchangedTypes DEF FaultFires, TypeOK
<1>5. CASE Finish(j, g) /\ ~FenceRaises(j, g)
  <2>1. SucceededRow(job[j]) \in JobRow /\ EndedThread \in Thread
    BY <1>0, RowTypes, ThreadTypes
  <2>2. results' \in [Jobs -> SUBSET Generations]
    BY <1>5 DEF Finish, TypeOK, QueueTypeOK
  <2>3. "succeeded" \in Statuses
    BY DEF Statuses
  <2>4. QueueTypeOK'
    BY <1>5, <2>1, <2>2, <2>3, SettleType DEF Finish, TypeOK
  <2>5. WorkerTypeOK'
    BY <1>5, <2>1, ExecType DEF Finish, EndThread, TypeOK
  <2>6. QED
    BY <1>5, <2>4, <2>5, UnchangedTypes DEF Finish, TypeOK
<1>6. CASE Fail(j, g)
  <2>1. WorkerTypeOK'
    BY <1>6, ThreadTypes, ExecType DEF Fail, EndThread, TypeOK
  <2>2. exec[j][g].why \in Failures
    BY <1>0, <1>6 DEF Fail, Thread
  <2>3. QueueTypeOK'
    BY <1>6, <2>2, RecordFailureType, UnchangedTypes DEF Fail, TypeOK
  <2>4. QED
    BY <1>6, <2>1, <2>3, UnchangedTypes DEF Fail, TypeOK
<1>7. CASE Raise(j, g)
  <2>1. PICK f \in Raises(j, exec[j][g].point) :
          exec' = [exec EXCEPT ![j][g] = [exec[j][g] EXCEPT !.point = "failing", !.why = f]]
    BY <1>7 DEF Raise
  <2>2. f \in Failures
    BY DEF Raises, Failures
  <2>3. [exec[j][g] EXCEPT !.point = "failing", !.why = f] \in Thread
    BY <1>0, <2>2, ThreadTypes
  <2>4. WorkerTypeOK'
    BY <1>7, <2>1, <2>3, ExecType DEF Raise, TypeOK
  <2>5. QED
    BY <1>7, <2>4, UnchangedTypes DEF Raise, TypeOK
<1>8. CASE FailRaises(j, g)
  <2>1. WorkerTypeOK'
    BY <1>8, ThreadTypes, ExecType DEF FailRaises, EndThread, TypeOK
  <2>2. QED
    BY <1>8, <2>1, UnchangedTypes DEF FailRaises, TypeOK
<1> QED
  BY <1>a, <1>1, <1>2, <1>3, <1>4, <1>5, <1>6, <1>7, <1>8 DEF Execute

LEMMA ApiType ==
  ASSUME TypeOK, Api
  PROVE  TypeOK'
<1>1. ASSUME NEW c \in Clients, NEW j \in Jobs, RetryRead(c, j) PROVE TypeOK'
  <2> DEFINE m == IF job[j].attempt >= job[j].maxAttempts THEN job[j].attempt + 1
                                                           ELSE job[j].maxAttempts
             snap == [job |-> j, attempt |-> job[j].attempt, rearm |-> job[j].rearm,
                      maxAttempts |-> m]
  <2>1. job[j] \in JobRow
    BY DEF TypeOK, QueueTypeOK
  <2>2. m \in Nat
    BY <2>1 DEF JobRow
  <2>3. snap \in Snapshot
    BY <2>1, <2>2 DEF JobRow, Snapshot
  <2>4. pending' = [pending EXCEPT ![c] = snap]
    BY <1>1 DEF RetryRead
  <2> HIDE DEF snap
  <2>5. ClientTypeOK'
    BY <2>3, <2>4 DEF TypeOK, ClientTypeOK
  <2>6. QED
    BY <1>1, <2>5, UnchangedTypes DEF RetryRead, TypeOK
<1>2. ASSUME NEW c \in Clients, RetryWrite(c) PROVE TypeOK'
  <2> DEFINE j == pending[c].job
             m == pending[c].maxAttempts
  <2>1. pending[c] \in Snapshot /\ j # NoJob
    BY <1>2 DEF RetryWrite, TypeOK, ClientTypeOK
  <2>2. j \in Jobs /\ m \in Nat
    BY <2>1 DEF Snapshot
  <2>3. job[j] \in JobRow
    BY <2>2 DEF TypeOK, QueueTypeOK
  <2>4. RequeuedRow(job[j], m) \in JobRow
    BY <2>2, <2>3, RequeuedRowType
  <2>5. \/ UNCHANGED queueVars
        \/ /\ job' = [job EXCEPT ![j] = RequeuedRow(job[j], m)]
           /\ parent' = [parent EXCEPT ![j] = ParentStatus(j, "queued")]
           /\ results' = results
    BY <1>2 DEF RetryWrite, queueVars
  <2>6. NoSnapshot \in Snapshot
    BY DEF NoSnapshot, Snapshot
  <2>7. ClientTypeOK'
    BY <1>2, <2>6 DEF RetryWrite, TypeOK, ClientTypeOK
  <2>8. results \in [Jobs -> SUBSET Generations] /\ "queued" \in Statuses
    BY DEF TypeOK, QueueTypeOK, Statuses
  <2> HIDE DEF j, m
  <2>9. QueueTypeOK'
    BY <2>2, <2>4, <2>5, <2>8, SettleType, UnchangedTypes DEF TypeOK
  <2>10. QED
    BY <1>2, <2>7, <2>9, UnchangedTypes DEF RetryWrite, TypeOK
<1>3. ASSUME NEW j \in Jobs, Cancel(j) \/ DeleteProject(j) PROVE TypeOK'
  <2>1. CanceledRow(job[j]) \in JobRow /\ DeletedRow(job[j]) \in JobRow
    BY RowTypes DEF TypeOK, QueueTypeOK
  <2>2. results \in [Jobs -> SUBSET Generations] /\ {"canceled", "deleted"} \subseteq Statuses
    BY DEF TypeOK, QueueTypeOK, Statuses
  <2>3. ParentStatus(j, "deleted") = "deleted"
    BY DEF ParentStatus
  <2>4. QueueTypeOK'
    BY <1>3, <2>1, <2>2, <2>3, SettleType DEF Cancel, DeleteProject, TypeOK
  <2>5. QED
    BY <1>3, <2>4, UnchangedTypes DEF Cancel, DeleteProject, TypeOK
<1>4. ASSUME NEW mode \in FaultModes, SetFault(mode) PROVE TypeOK'
  <2>1. FaultTypeOK'
    BY <1>4 DEF SetFault, TypeOK, FaultTypeOK
  <2>2. QED
    BY <1>4, <2>1, UnchangedTypes DEF SetFault, TypeOK
<1> QED
  BY <1>1, <1>2, <1>3, <1>4 DEF Api

LEMMA OutageType ==
  ASSUME TypeOK, NEW w \in Workers, Terminate(w) \/ Crash(w)
  PROVE  TypeOK'
<1>1. CASE Terminate(w)
  <2>1. WorkerTypeOK'
    BY <1>1 DEF Terminate, TypeOK, WorkerTypeOK
  <2>2. QED
    BY <1>1, <2>1, UnchangedTypes DEF Terminate, TypeOK
<1>2. CASE Crash(w)
  <2>1. exec' \in [Jobs -> [Generations -> Thread]]
    BY <1>2, ThreadTypes DEF Crash, ProcessGone, TypeOK, WorkerTypeOK
  <2>2. outages' \in Nat /\ phase' \in [Workers -> {"idle", "watching", "down"}]
    BY <1>2 DEF Crash, ProcessGone, TypeOK, WorkerTypeOK
  <2>3. watch' \in [Workers -> Executions \union {NoWatch}]
    BY <1>2 DEF Crash, ProcessGone, TypeOK, WorkerTypeOK
  <2>4. \A v \in Workers : phase'[v] = "watching" => watch'[v] \in Executions
    BY <1>2 DEF Crash, ProcessGone, TypeOK, WorkerTypeOK
  <2>5. isolated' \in [Workers -> SUBSET Executions] /\ stopping' \in [Workers -> BOOLEAN]
    BY <1>2 DEF Crash, ProcessGone, TypeOK, WorkerTypeOK
  <2>6. WorkerTypeOK'
    BY <2>1, <2>2, <2>3, <2>4, <2>5 DEF WorkerTypeOK
  <2>7. QED
    BY <1>2, <2>6, UnchangedTypes DEF Crash, ProcessGone, TypeOK
<1> QED
  BY <1>1, <1>2

LEMMA LeaseExpiresType ==
  ASSUME TypeOK, NEW j \in Jobs, LeaseExpires(j)
  PROVE  TypeOK'
<1>1. ExpiredRow(job[j]) \in JobRow
  BY RowTypes DEF TypeOK, QueueTypeOK
<1>2. QueueTypeOK'
  BY <1>1, RowOnlyType DEF LeaseExpires, TypeOK
<1> QED
  BY <1>2, UnchangedTypes DEF LeaseExpires, TypeOK

LEMMA NextType == TypeOK /\ [Next]_vars => TypeOK'
<1> SUFFICES ASSUME TypeOK, [Next]_vars PROVE TypeOK'
  OBVIOUS
<1>1. ASSUME NEW w \in Workers,
             MainLoop(w) \/ Deadline(w) \/ Renew(w) \/ Terminate(w) \/ Crash(w)
      PROVE  TypeOK'
  BY <1>1, MainLoopType, OutageType
<1>2. ASSUME NEW j \in Jobs, NEW g \in Generations,
             Execute(j, g) \/ Raise(j, g) \/ FailRaises(j, g)
      PROVE  TypeOK'
  BY <1>2, ThreadStepType
<1>3. ASSUME NEW j \in Jobs, LeaseExpires(j) PROVE TypeOK'
  BY <1>3, LeaseExpiresType
<1>4. CASE Api
  BY <1>4, ApiType
<1>5. CASE UNCHANGED vars
  BY <1>5, UnchangedTypes DEF TypeOK, vars
<1> QED
  BY <1>1, <1>2, <1>3, <1>4, <1>5 DEF Next

\* Every variable keeps the shape the code gives it; in particular a Project
\* only takes Project.status values and a PreviewRender only its own.
THEOREM TypeCorrect == Spec => []TypeOK
<1>1. Init => TypeOK
  BY InitType
<1>2. TypeOK /\ [Next]_vars => TypeOK'
  BY NextType
<1> QED
  BY <1>1, <1>2, PTL DEF Spec

-----------------------------------------------------------------------------
(***************************************************************************)
(* What one step may do to one job.  Every action is one of these changes  *)
(* for every job, so the invariants about rows, parents and results, and   *)
(* the refinement, need to look at ten cases and at no worker, thread or   *)
(* client.                                                                 *)
(***************************************************************************)
SameParent(j)    == parent'[j] = parent[j] /\ results'[j] = results[j]
NewParent(j, s)  == parent'[j] = ParentStatus(j, s) /\ results'[j] = results[j]

Untouched(j)  == job'[j] = job[j] /\ SameParent(j)
Held(j)       == /\ job[j].status = "running"
                 /\ job[j].owner # NoWorker
                 /\ \/ job'[j] = RenewedRow(job[j])
                    \/ job'[j] = AbandonedRow(job[j])
                    \/ \E p \in 0 .. 100 : job'[j] = StagedRow(job[j], p)
                 /\ SameParent(j)
Lapsed(j)     == job[j].status = "running" /\ job'[j] = ExpiredRow(job[j]) /\ SameParent(j)
Claimed(j)    == /\ job[j].status \in {"queued", "running"}
                 /\ \E w \in Workers : job'[j] = ClaimedRow(job[j], w)
                 /\ NewParent(j, "running")
Swept(j)      == /\ job[j].status = "running"
                 /\ job'[j] = ExhaustedRow(job[j])
                 /\ NewParent(j, "failed")
GaveUp(j)     == /\ job[j].status = "running"
                 /\ \E f \in Failures : job'[j] = FailedRow(job[j], f)
                 /\ NewParent(j, "failed")
Finished(j)   == /\ job[j].status = "running"
                 /\ job'[j] = SucceededRow(job[j])
                 /\ parent'[j] = ParentStatus(j, "succeeded")
                 /\ results'[j] = results[j] \union {job[j].generation}
Requeued(j)   == /\ job[j].status = "failed"
                 /\ \E m \in Nat : job[j].attempt < m /\ job'[j] = RequeuedRow(job[j], m)
                 /\ NewParent(j, "queued")
Withdrawn(j)  == /\ job[j].status \in {"queued", "running"}
                 /\ job'[j] = CanceledRow(job[j])
                 /\ NewParent(j, "canceled")
Removed(j)    == /\ job[j].status # "deleted"
                 /\ job'[j] = DeletedRow(job[j])
                 /\ NewParent(j, "deleted")

RowStep(j) ==
  \/ Untouched(j) \/ Held(j) \/ Lapsed(j) \/ Claimed(j) \/ Swept(j) \/ GaveUp(j)
  \/ Finished(j) \/ Requeued(j) \/ Withdrawn(j) \/ Removed(j)

\* A pending retry was granted an attempt that is still to be spent.
PendingCanRun ==
  \A c \in Clients : pending[c].job # NoJob => pending[c].attempt < pending[c].maxAttempts

LEMMA PendingInit == Init => PendingCanRun
  BY DEF Init, PendingCanRun, NoSnapshot

LEMMA PendingStep ==
  ASSUME TypeOK, PendingCanRun, [Next]_vars
  PROVE  PendingCanRun'
<1>1. CASE UNCHANGED pending
  BY <1>1 DEF PendingCanRun
<1>2. ASSUME NEW c \in Clients, NEW j \in Jobs, RetryRead(c, j) PROVE PendingCanRun'
  <2> DEFINE m == IF job[j].attempt >= job[j].maxAttempts THEN job[j].attempt + 1
                                                           ELSE job[j].maxAttempts
             snap == [job |-> j, attempt |-> job[j].attempt, rearm |-> job[j].rearm,
                      maxAttempts |-> m]
  <2>1. job[j] \in JobRow
    BY DEF TypeOK, QueueTypeOK
  <2>2. snap.attempt < snap.maxAttempts
    BY <2>1 DEF JobRow
  <2>3. pending' = [pending EXCEPT ![c] = snap]
    BY <1>2 DEF RetryRead
  <2> HIDE DEF snap
  <2>4. QED
    BY <2>2, <2>3 DEF PendingCanRun, TypeOK, ClientTypeOK
<1>3. ASSUME NEW c \in Clients, RetryWrite(c) PROVE PendingCanRun'
  BY <1>3 DEF RetryWrite, NoSnapshot, PendingCanRun, TypeOK, ClientTypeOK
<1>4. ASSUME NEW w \in Workers,
             MainLoop(w) \/ Deadline(w) \/ Renew(w) \/ Terminate(w) \/ Crash(w)
      PROVE  UNCHANGED pending
  BY <1>4 DEF MainLoop, Claim, ClaimWrites, SweepExhausted, ObserveCompletion,
     ObserveLeaseLost, Abandon, Exit, Restart, Deadline, Renew, Terminate, Crash, ProcessGone
<1>5. ASSUME NEW j \in Jobs, NEW g \in Generations,
             Execute(j, g) \/ Raise(j, g) \/ FailRaises(j, g)
      PROVE  UNCHANGED pending
  BY <1>5 DEF Execute, EnterStage, ConsumeFault, CheckPlan, FaultFires, Finish, Fail,
     Raise, FailRaises, FenceRaises
<1>6. ASSUME NEW j \in Jobs, LeaseExpires(j) \/ Cancel(j) \/ DeleteProject(j)
      PROVE  UNCHANGED pending
  BY <1>6 DEF LeaseExpires, Cancel, DeleteProject
<1>7. ASSUME NEW mode \in FaultModes, SetFault(mode) PROVE UNCHANGED pending
  BY <1>7 DEF SetFault
<1> QED
  BY <1>1, <1>2, <1>3, <1>4, <1>5, <1>6, <1>7 DEF Next, Api, vars

LEMMA FencedRow ==
  ASSUME NEW w \in Workers, NEW j \in Jobs, NEW g \in Generations, Fenced(w, j, g)
  PROVE  job[j].status = "running" /\ job[j].owner # NoWorker /\ job[j].generation = g
  BY ConstantsAssumption DEF Fenced

LEMMA UntouchedStep ==
  ASSUME UNCHANGED queueVars
  PROVE  \A j \in Jobs : RowStep(j)
  BY DEF queueVars, RowStep, Untouched, SameParent

LEMMA ClaimRowStep ==
  ASSUME TypeOK, NEW w \in Workers, NEW chosen \in SUBSET Claimable, ClaimWrites(w, chosen)
  PROVE  \A j \in Jobs : RowStep(j)
<1> SUFFICES ASSUME NEW j \in Jobs PROVE RowStep(j)
  OBVIOUS
<1>1. chosen \subseteq Jobs /\ (j \in chosen => job[j].status \in {"queued", "running"})
  BY DEF Claimable
<1>2. results' = results
  BY DEF ClaimWrites
<1>3. CASE j \in Exhausted
  <2>1. job'[j] = ExhaustedRow(job[j]) /\ parent'[j] = ParentStatus(j, "failed")
    BY <1>3 DEF ClaimWrites, StatusAfterClaim
  <2>2. QED
    BY <1>2, <1>3, <2>1 DEF RowStep, Swept, NewParent, Exhausted
<1>4. CASE j \in chosen /\ j \notin Exhausted
  <2>1. job'[j] = ClaimedRow(job[j], w) /\ parent'[j] = ParentStatus(j, "running")
    BY <1>4 DEF ClaimWrites, StatusAfterClaim
  <2>2. QED
    BY <1>1, <1>2, <1>4, <2>1 DEF RowStep, Claimed, NewParent
<1>5. CASE j \notin chosen /\ j \notin Exhausted
  BY <1>2, <1>5 DEF ClaimWrites, RowStep, Untouched, SameParent
<1> QED
  BY <1>3, <1>4, <1>5

LEMMA MainLoopRowStep ==
  ASSUME TypeOK, NEW w \in Workers, MainLoop(w) \/ Deadline(w) \/ Renew(w)
  PROVE  \A j \in Jobs : RowStep(j)
<1>1. ASSUME NEW i \in Jobs, Claim(w, i) PROVE \A j \in Jobs : RowStep(j)
  <2>1. {i} \in SUBSET Claimable
    BY <1>1 DEF Claim
  <2>2. QED
    BY <1>1, <2>1, ClaimRowStep DEF Claim
<1>2. CASE SweepExhausted(w)
  <2>1. {} \in SUBSET Claimable
    OBVIOUS
  <2>2. QED
    BY <1>2, <2>1, ClaimRowStep DEF SweepExhausted
<1>3. CASE ObserveCompletion(w) \/ ObserveLeaseLost(w) \/ Exit(w) \/ Restart(w)
  BY <1>3, UntouchedStep DEF ObserveCompletion, ObserveLeaseLost, Exit, ProcessGone, Restart
<1>4. CASE Abandon(w) \/ Deadline(w) \/ Renew(w)
  <2> DEFINE i == watch[w][1]
             g == watch[w][2]
  <2>1. i \in Jobs /\ g \in Generations
    BY <1>4, WatchType DEF Abandon, Deadline, Renew
  <2>2. CASE UNCHANGED queueVars
    BY <2>2, UntouchedStep
  <2>3. CASE Fenced(w, i, g) /\ UNCHANGED <<parent, results>>
             /\ \E row \in {AbandonedRow(job[i]), RenewedRow(job[i])} :
                  job' = [job EXCEPT ![i] = row]
    <3>1. job[i].status = "running" /\ job[i].owner # NoWorker
      BY <2>1, <2>3, FencedRow
    <3> HIDE DEF i, g
    <3>2. QED
      BY <2>1, <2>3, <3>1 DEF RowStep, Held, Untouched, SameParent, TypeOK, QueueTypeOK
  <2>4. CASE Fenced(w, i, g) /\ RecordFailure(i, "transient")
    <3>1. job[i].status = "running" /\ "transient" \in Failures
      BY <2>1, <2>4, FencedRow DEF Failures
    <3> HIDE DEF i, g
    <3>2. QED
      BY <2>1, <2>4, <3>1
      DEF RecordFailure, RowStep, GaveUp, Untouched, NewParent, SameParent, TypeOK, QueueTypeOK
  <2>5. QED
    BY <1>4, <2>2, <2>3, <2>4 DEF Abandon, Deadline, Renew, queueVars
<1> QED
  BY <1>1, <1>2, <1>3, <1>4 DEF MainLoop

-----------------------------------------------------------------------------
(* Every live thread belongs to a worker slot *)

StartedByWorker ==
  \A j \in Jobs, g \in Generations : Live(j, g) => exec[j][g].by \in Workers

\* What one step may do to one thread: nothing, end it, start it, or move it.
Begun(j, g) ==
  \E w \in Workers : /\ Claim(w, j) /\ g = job[j].generation + 1
                     /\ exec'[j][g].by = w
Moved(j, g) == Live(j, g) /\ exec'[j][g].by = exec[j][g].by

ThreadStep(j, g) ==
  exec'[j][g] = exec[j][g] \/ exec'[j][g] = EndedThread \/ Begun(j, g) \/ Moved(j, g)

LEMMA OneThreadStep ==
  ASSUME TypeOK, NEW i \in Jobs, NEW k \in Generations, NEW t,
         exec' = [exec EXCEPT ![i][k] = t],
         t = EndedThread \/ (Live(i, k) /\ t.by = exec[i][k].by)
  PROVE  \A j \in Jobs, g \in Generations : ThreadStep(j, g)
<1> SUFFICES ASSUME NEW j \in Jobs, NEW g \in Generations PROVE ThreadStep(j, g)
  OBVIOUS
<1>1. exec'[j][g] = IF j = i /\ g = k THEN t ELSE exec[j][g]
  BY DEF TypeOK, WorkerTypeOK
<1> QED
  BY <1>1 DEF ThreadStep, Moved

LEMMA StillThread ==
  ASSUME UNCHANGED exec
  PROVE  \A j \in Jobs, g \in Generations : ThreadStep(j, g)
  BY DEF ThreadStep

LEMMA KeepsBy ==
  ASSUME TypeOK, NEW i \in Jobs, NEW k \in Generations, Live(i, k), NEW p, NEW f
  PROVE  /\ [exec[i][k] EXCEPT !.point = p].by = exec[i][k].by
         /\ [exec[i][k] EXCEPT !.point = p, !.why = f].by = exec[i][k].by
         /\ [exec[i][k] EXCEPT !.point = p, !.fault = f].by = exec[i][k].by
         /\ [exec[i][k] EXCEPT !.leaseLost = TRUE].by = exec[i][k].by
<1>1. exec[i][k] \in ThreadRecord
  BY DEF TypeOK, WorkerTypeOK, Thread
<1> QED
  BY <1>1 DEF ThreadRecord

LEMMA AtStagePoint ==
  ASSUME NEW j \in Jobs, NEW g \in Generations,
         \/ \E s \in StagesOf(j) : exec[j][g].point = s.from
         \/ exec[j][g].point \in StagePoints
         \/ exec[j][g].point = "failing"
  PROVE  Live(j, g)
  BY DEF Live, StagesOf, PipelineStages, PreviewStages, StagePoints

LEMMA ThreadSteps ==
  ASSUME TypeOK, [Next]_vars
  PROVE  \A j \in Jobs, g \in Generations : ThreadStep(j, g)
<1> USE DEF StagePoints
<1>1. CASE UNCHANGED exec
  BY <1>1, StillThread
<1>2. ASSUME NEW w \in Workers, NEW i \in Jobs, Claim(w, i)
      PROVE  \A j \in Jobs, g \in Generations : ThreadStep(j, g)
  <2> DEFINE k == job[i].generation + 1
             t == [NoThread EXCEPT !.point = "start", !.by = w]
  <2>1. k \in Generations
    BY <1>2, ConstantsAssumption DEF Claim, TypeOK, QueueTypeOK, JobRow, Generations
  <2>2. t.by = w /\ exec' = [exec EXCEPT ![i][k] = t]
    BY <1>2 DEF Claim, NoThread
  <2> HIDE DEF t
  <2>3. \A j \in Jobs, g \in Generations :
          exec'[j][g] = IF j = i /\ g = k THEN t ELSE exec[j][g]
    BY <2>1, <2>2 DEF TypeOK, WorkerTypeOK
  <2>4. QED
    BY <1>2, <2>2, <2>3 DEF ThreadStep, Begun
<1>3. ASSUME NEW w \in Workers, Renew(w)
      PROVE  \A j \in Jobs, g \in Generations : ThreadStep(j, g)
  <2> DEFINE i == watch[w][1]
             k == watch[w][2]
  <2>1. i \in Jobs /\ k \in Generations /\ Live(i, k)
    BY <1>3, WatchType DEF Renew
  <2>2. UNCHANGED exec \/ exec' = [exec EXCEPT ![i][k] = [exec[i][k] EXCEPT !.leaseLost = TRUE]]
    BY <1>3 DEF Renew
  <2> HIDE DEF i, k
  <2>3. QED
    BY <2>1, <2>2, KeepsBy, OneThreadStep, StillThread
<1>4. ASSUME NEW w \in Workers, ProcessGone(w)
      PROVE  \A j \in Jobs, g \in Generations : ThreadStep(j, g)
  BY <1>4 DEF ProcessGone, ThreadStep
<1>5. ASSUME NEW w \in Workers,
             \/ SweepExhausted(w) \/ ObserveCompletion(w) \/ ObserveLeaseLost(w)
             \/ Abandon(w) \/ Restart(w) \/ Deadline(w) \/ Terminate(w)
      PROVE  UNCHANGED exec
  BY <1>5 DEF SweepExhausted, ObserveCompletion, ObserveLeaseLost, Abandon, Restart,
     Deadline, Terminate
<1>6. ASSUME NEW i \in Jobs, NEW k \in Generations,
             Execute(i, k) \/ Raise(i, k) \/ FailRaises(i, k)
      PROVE  \A j \in Jobs, g \in Generations : ThreadStep(j, g)
  <2>1. Live(i, k)
    BY <1>6, AtStagePoint
    DEF Execute, EnterStage, ConsumeFault, CheckPlan, FaultFires, Finish, Fail, Raise, FailRaises
  <2>2. \/ \E p : exec' = [exec EXCEPT ![i][k] = [exec[i][k] EXCEPT !.point = p]]
        \/ \E p, f : exec' = [exec EXCEPT ![i][k] = [exec[i][k] EXCEPT !.point = p, !.why = f]]
        \/ \E p, f : exec' = [exec EXCEPT ![i][k] = [exec[i][k] EXCEPT !.point = p, !.fault = f]]
        \/ exec' = [exec EXCEPT ![i][k] = EndedThread]
    <3>1. CASE FenceRaises(i, k)
      BY <3>1 DEF FenceRaises
    <3>2. CASE EnterStage(i, k) /\ ~FenceRaises(i, k)
      BY <3>2 DEF EnterStage
    <3>3. CASE (CheckPlan(i, k) \/ Finish(i, k)) /\ ~FenceRaises(i, k)
      BY <3>3 DEF CheckPlan, Finish, EndThread
    <3>4. CASE ConsumeFault(i, k) \/ FaultFires(i, k) \/ Fail(i, k)
      BY <3>4 DEF ConsumeFault, FaultFires, Fail, EndThread
    <3>5. CASE Raise(i, k) \/ FailRaises(i, k)
      BY <3>5 DEF Raise, FailRaises, EndThread
    <3>6. QED
      BY <1>6, <3>1, <3>2, <3>3, <3>4, <3>5 DEF Execute
  <2>3. ASSUME NEW p, exec' = [exec EXCEPT ![i][k] = [exec[i][k] EXCEPT !.point = p]]
        PROVE  \A j \in Jobs, g \in Generations : ThreadStep(j, g)
    <3> DEFINE t == [exec[i][k] EXCEPT !.point = p]
    <3>1. t.by = exec[i][k].by
      BY <2>1, KeepsBy
    <3> HIDE DEF t
    <3>2. exec' = [exec EXCEPT ![i][k] = t]
      BY <2>3 DEF t
    <3>3. QED
      BY <2>1, <3>1, <3>2, OneThreadStep
  <2>4. ASSUME NEW p, NEW f,
               exec' = [exec EXCEPT ![i][k] = [exec[i][k] EXCEPT !.point = p, !.why = f]]
        PROVE  \A j \in Jobs, g \in Generations : ThreadStep(j, g)
    <3> DEFINE t == [exec[i][k] EXCEPT !.point = p, !.why = f]
    <3>1. t.by = exec[i][k].by
      BY <2>1, KeepsBy
    <3> HIDE DEF t
    <3>2. exec' = [exec EXCEPT ![i][k] = t]
      BY <2>4 DEF t
    <3>3. QED
      BY <2>1, <3>1, <3>2, OneThreadStep
  <2>5. ASSUME NEW p, NEW f,
               exec' = [exec EXCEPT ![i][k] = [exec[i][k] EXCEPT !.point = p, !.fault = f]]
        PROVE  \A j \in Jobs, g \in Generations : ThreadStep(j, g)
    <3> DEFINE t == [exec[i][k] EXCEPT !.point = p, !.fault = f]
    <3>1. t.by = exec[i][k].by
      BY <2>1, KeepsBy
    <3> HIDE DEF t
    <3>2. exec' = [exec EXCEPT ![i][k] = t]
      BY <2>5 DEF t
    <3>3. QED
      BY <2>1, <3>1, <3>2, OneThreadStep
  <2>6. ASSUME exec' = [exec EXCEPT ![i][k] = EndedThread]
        PROVE  \A j \in Jobs, g \in Generations : ThreadStep(j, g)
    BY <2>6, OneThreadStep
  <2>7. QED
    BY <2>2, <2>3, <2>4, <2>5, <2>6
<1>7. ASSUME NEW j \in Jobs, LeaseExpires(j) PROVE UNCHANGED exec
  BY <1>7 DEF LeaseExpires, workerVars
<1>8. CASE Api
  BY <1>1, <1>8 DEF Api, RetryRead, RetryWrite, Cancel, DeleteProject, SetFault, workerVars
<1> QED
  BY <1>1, <1>2, <1>3, <1>4, <1>5, <1>6, <1>7, <1>8
  DEF Next, MainLoop, Exit, Crash, vars, workerVars

LEMMA OwnedThreads ==
  /\ Init => StartedByWorker
  /\ TypeOK /\ StartedByWorker /\ [Next]_vars => StartedByWorker'
<1>1. Init => StartedByWorker
  BY DEF Init, StartedByWorker, Live, NoThread
<1>2. ASSUME TypeOK, StartedByWorker, [Next]_vars PROVE StartedByWorker'
  BY <1>2, ThreadSteps DEF StartedByWorker, ThreadStep, Begun, Moved, Live, EndedThread, NoThread
<1> QED
  BY <1>1, <1>2

-----------------------------------------------------------------------------
(* Every step changes every row in one of the ways of RowStep *)

LEMMA OthersUntouched ==
  ASSUME TypeOK, NEW i \in Jobs,
         \A j \in Jobs : j # i => job'[j] = job[j] /\ parent'[j] = parent[j]
                                  /\ results'[j] = results[j],
         RowStep(i)
  PROVE  \A j \in Jobs : RowStep(j)
  BY DEF RowStep, Untouched, SameParent

LEMMA ThreadRowStep ==
  ASSUME TypeOK, StartedByWorker, NEW i \in Jobs, NEW k \in Generations,
         Execute(i, k) \/ Raise(i, k) \/ FailRaises(i, k)
  PROVE  \A j \in Jobs : RowStep(j)
<1>1. CASE UNCHANGED queueVars
  BY <1>1, UntouchedStep
<1>2. Live(i, k)
  BY AtStagePoint
  DEF Execute, EnterStage, ConsumeFault, CheckPlan, FaultFires, Finish, Fail, Raise,
      FailRaises, StagePoints
<1>3. ASSUME Fenced(exec[i][k].by, i, k)
      PROVE  job[i].status = "running" /\ job[i].owner # NoWorker /\ job[i].generation = k
  BY <1>2, <1>3, FencedRow DEF StartedByWorker
<1>4. CASE EnterStage(i, k) /\ ~UNCHANGED queueVars
  <2>1. PICK s \in StagesOf(i) :
          /\ Fenced(exec[i][k].by, i, k)
          /\ job' = [job EXCEPT ![i] = StagedRow(job[i], s.progress)]
          /\ UNCHANGED <<parent, results>>
    BY <1>4 DEF EnterStage, FenceRaises
  <2>2. s.progress \in 0 .. 100
    BY StageTypes
  <2>3. job'[i] = StagedRow(job[i], s.progress)
        /\ \A j \in Jobs : j # i => job'[j] = job[j]
    BY <2>1 DEF TypeOK, QueueTypeOK
  <2>4. Held(i)
    BY <1>3, <2>1, <2>2, <2>3 DEF Held, SameParent
  <2>5. QED
    BY <2>1, <2>3, <2>4, OthersUntouched DEF RowStep
<1>5. CASE Finish(i, k) /\ ~UNCHANGED queueVars
  <2>1. /\ Fenced(exec[i][k].by, i, k)
        /\ job' = [job EXCEPT ![i] = SucceededRow(job[i])]
        /\ parent' = [parent EXCEPT ![i] = ParentStatus(i, "succeeded")]
        /\ results' = [results EXCEPT ![i] = results[i] \union {k}]
    BY <1>5 DEF Finish, FenceRaises
  <2>2. job'[i] = SucceededRow(job[i]) /\ parent'[i] = ParentStatus(i, "succeeded")
        /\ results'[i] = results[i] \union {k}
        /\ \A j \in Jobs : j # i => job'[j] = job[j] /\ parent'[j] = parent[j]
                                    /\ results'[j] = results[j]
    BY <2>1 DEF TypeOK, QueueTypeOK
  <2>3. QED
    BY <1>3, <2>1, <2>2, OthersUntouched DEF RowStep, Finished
<1>6. CASE Fail(i, k) /\ ~UNCHANGED queueVars
  <2>1. Fenced(exec[i][k].by, i, k) /\ RecordFailure(i, exec[i][k].why)
    BY <1>6 DEF Fail
  <2>2. exec[i][k].why \in Failures
    BY <1>6 DEF Fail, TypeOK, WorkerTypeOK, Thread
  <2>3. job'[i] = FailedRow(job[i], exec[i][k].why) /\ NewParent(i, "failed")
        /\ \A j \in Jobs : j # i => job'[j] = job[j] /\ parent'[j] = parent[j]
                                    /\ results'[j] = results[j]
    BY <2>1 DEF RecordFailure, NewParent, TypeOK, QueueTypeOK
  <2>4. QED
    BY <1>3, <2>1, <2>2, <2>3, OthersUntouched DEF RowStep, GaveUp
<1>7. CASE \/ ConsumeFault(i, k) \/ CheckPlan(i, k) \/ FaultFires(i, k)
           \/ Raise(i, k) \/ FailRaises(i, k)
  BY <1>1, <1>7 DEF ConsumeFault, CheckPlan, FenceRaises, FaultFires, Raise, FailRaises
<1> QED
  BY <1>1, <1>4, <1>5, <1>6, <1>7 DEF Execute

LEMMA ApiRowStep ==
  ASSUME TypeOK, PendingCanRun, Api
  PROVE  \A j \in Jobs : RowStep(j)
<1>1. CASE UNCHANGED queueVars
  BY <1>1, UntouchedStep
<1>2. ASSUME NEW c \in Clients, NEW j \in Jobs, RetryRead(c, j) PROVE UNCHANGED queueVars
  BY <1>2 DEF RetryRead
<1>3. ASSUME NEW c \in Clients, RetryWrite(c), ~UNCHANGED queueVars
      PROVE  \A j \in Jobs : RowStep(j)
  <2> DEFINE i == pending[c].job
             m == pending[c].maxAttempts
  <2>1. i \in Jobs /\ m \in Nat /\ pending[c].attempt < m
    BY <1>3 DEF RetryWrite, PendingCanRun, TypeOK, ClientTypeOK, Snapshot
  <2>2. job[i].status = "failed" /\ job[i].attempt = pending[c].attempt
        /\ job' = [job EXCEPT ![i] = RequeuedRow(job[i], m)]
        /\ parent' = [parent EXCEPT ![i] = ParentStatus(i, "queued")]
        /\ results' = results
    BY <1>3 DEF RetryWrite, RetryStillValid, queueVars
  <2>3. job[i].attempt < m
    BY <2>1, <2>2
  <2> HIDE DEF i, m
  <2>4. job'[i] = RequeuedRow(job[i], m) /\ NewParent(i, "queued")
        /\ \A j \in Jobs : j # i => job'[j] = job[j] /\ parent'[j] = parent[j]
                                    /\ results'[j] = results[j]
    BY <2>1, <2>2 DEF NewParent, TypeOK, QueueTypeOK
  <2>5. QED
    BY <2>1, <2>2, <2>3, <2>4, OthersUntouched DEF RowStep, Requeued
<1>4. ASSUME NEW i \in Jobs, Cancel(i) PROVE \A j \in Jobs : RowStep(j)
  <2>1. job'[i] = CanceledRow(job[i]) /\ NewParent(i, "canceled")
        /\ \A j \in Jobs : j # i => job'[j] = job[j] /\ parent'[j] = parent[j]
                                    /\ results'[j] = results[j]
    BY <1>4 DEF Cancel, NewParent, TypeOK, QueueTypeOK
  <2>2. QED
    BY <1>4, <2>1, OthersUntouched DEF RowStep, Withdrawn, Cancel, Cancelable
<1>5. ASSUME NEW i \in Jobs, DeleteProject(i) PROVE \A j \in Jobs : RowStep(j)
  <2>1. ParentStatus(i, "deleted") = "deleted"
    BY DEF ParentStatus
  <2>2. job'[i] = DeletedRow(job[i]) /\ NewParent(i, "deleted")
        /\ \A j \in Jobs : j # i => job'[j] = job[j] /\ parent'[j] = parent[j]
                                    /\ results'[j] = results[j]
    BY <1>5, <2>1 DEF DeleteProject, NewParent, TypeOK, QueueTypeOK
  <2>3. QED
    BY <1>5, <2>2, OthersUntouched DEF RowStep, Removed, DeleteProject
<1>6. ASSUME NEW mode \in FaultModes, SetFault(mode) PROVE UNCHANGED queueVars
  BY <1>6 DEF SetFault
<1> QED
  BY <1>1, <1>2, <1>3, <1>4, <1>5, <1>6 DEF Api

LEMMA EveryRowStep ==
  ASSUME TypeOK, StartedByWorker, PendingCanRun, [Next]_vars
  PROVE  \A j \in Jobs : RowStep(j)
<1>1. ASSUME NEW w \in Workers, Terminate(w) \/ Crash(w) PROVE UNCHANGED queueVars
  BY <1>1 DEF Terminate, Crash, ProcessGone
<1>2. ASSUME NEW i \in Jobs, LeaseExpires(i) PROVE \A j \in Jobs : RowStep(j)
  <2>1. job'[i] = ExpiredRow(job[i])
        /\ \A j \in Jobs : j # i => job'[j] = job[j]
    BY <1>2 DEF LeaseExpires, TypeOK, QueueTypeOK
  <2>2. QED
    BY <1>2, <2>1, OthersUntouched DEF LeaseExpires, RowStep, Lapsed, SameParent
<1>3. CASE UNCHANGED vars
  BY <1>3, UntouchedStep DEF vars, queueVars
<1> QED
  BY <1>1, <1>2, <1>3, UntouchedStep, MainLoopRowStep, ThreadRowStep, ApiRowStep DEF Next

-----------------------------------------------------------------------------
(* The inductive invariant about rows, and what follows from it *)

\* No stage reports more than 100 percent.
ProgressBound == \A j \in Jobs : job[j].progress =< 100

QueueInv ==
  /\ TypeOK
  /\ StartedByWorker
  /\ PendingCanRun
  /\ ParentMirrorsJob
  /\ NoStrandedJob
  /\ ResultOfLastExecution
  /\ ProgressBound

\* The field values that the invariant reads, after each change of a row.
LEMMA KeptRows ==
  ASSUME NEW row \in JobRow, NEW p \in Nat,
         NEW new \in {RenewedRow(row), AbandonedRow(row), ExpiredRow(row), StagedRow(row, p)}
  PROVE  /\ new.status = row.status
         /\ new.generation = row.generation
         /\ new.attempt = row.attempt /\ new.maxAttempts = row.maxAttempts
         /\ new.retryable = row.retryable
         /\ new.lease \in {"live", "expired"}
         /\ new.owner = row.owner \/ (new.owner = NoWorker /\ new.lease = "expired")
<1>1. CASE new = RenewedRow(row)
  BY <1>1 DEF RenewedRow, JobRow
<1>2. CASE new = AbandonedRow(row)
  BY <1>2 DEF AbandonedRow, JobRow
<1>3. CASE new = ExpiredRow(row)
  BY <1>3 DEF ExpiredRow, JobRow
<1>4. CASE new = StagedRow(row, p)
  <2> DEFINE q == AtLeast(p, row.progress)
  <2>1. StagedRow(row, p) = [row EXCEPT !.progress = q, !.lease = "live"]
    BY DEF StagedRow
  <2> HIDE DEF q
  <2>2. QED
    BY <1>4, <2>1 DEF JobRow
<1> QED
  BY <1>1, <1>2, <1>3, <1>4

LEMMA ClaimedFields ==
  ASSUME NEW row \in JobRow, NEW w \in Workers
  PROVE  /\ ClaimedRow(row, w).status = "running"
         /\ ClaimedRow(row, w).owner = w
         /\ ClaimedRow(row, w).lease = "live"
         /\ ClaimedRow(row, w).generation = row.generation + 1
<1> DEFINE p == AtLeast(1, row.progress)
           a == row.attempt + 1
           g == row.generation + 1
<1>1. ClaimedRow(row, w) =
        [row EXCEPT !.status = "running", !.progress = p, !.attempt = a,
                    !.generation = g, !.owner = w, !.lease = "live"]
  BY DEF ClaimedRow
<1>2. g = row.generation + 1
  OBVIOUS
<1> HIDE DEF p, a, g
<1> QED
  BY <1>1, <1>2 DEF JobRow

LEMMA FailedFields ==
  ASSUME NEW row \in JobRow, NEW f \in Failures
  PROVE  /\ FailedRow(row, f).status = "failed"
         /\ FailedRow(row, f).lease = "none"
         /\ FailedRow(row, f).generation = row.generation
         /\ FailedRow(row, f).retryable => FailedRow(row, f).attempt < FailedRow(row, f).maxAttempts
<1> DEFINE m == IF Retryable(f) /\ RearmCategory(f) /\ row.attempt >= row.maxAttempts
                THEN row.attempt + 1 ELSE row.maxAttempts
           r == Retryable(f) /\ (RearmCategory(f) \/ row.attempt < row.maxAttempts)
           c == RearmCode(f)
<1>1. r => row.attempt < m
  BY DEF JobRow
<1>2. FailedRow(row, f) =
        [row EXCEPT !.status = "failed", !.maxAttempts = m, !.retryable = r,
                    !.rearm = c, !.owner = NoWorker, !.lease = "none"]
  BY Zenon DEF FailedRow
<1> HIDE DEF m, r, c
<1>3. FailedRow(row, f).retryable = r /\ FailedRow(row, f).maxAttempts = m
      /\ FailedRow(row, f).attempt = row.attempt
  BY <1>2, Zenon DEF JobRow
<1>4. FailedRow(row, f).status = "failed" /\ FailedRow(row, f).lease = "none"
      /\ FailedRow(row, f).generation = row.generation
  BY <1>2, Zenon DEF JobRow
<1> QED
  BY <1>1, <1>3, <1>4

LEMMA ReleasedFields ==
  ASSUME NEW row \in JobRow, NEW m \in Nat
  PROVE  /\ \A new \in {ExhaustedRow(row), SucceededRow(row), CanceledRow(row),
                        DeletedRow(row), RequeuedRow(row, m)} :
              new.lease = "none" /\ new.generation = row.generation
         /\ ExhaustedRow(row).status = "failed" /\ ~ExhaustedRow(row).retryable
         /\ SucceededRow(row).status = "succeeded"
         /\ CanceledRow(row).status = "canceled"
         /\ DeletedRow(row).status = "deleted"
         /\ RequeuedRow(row, m).status = "queued"
         /\ RequeuedRow(row, m).attempt = row.attempt
         /\ RequeuedRow(row, m).maxAttempts = m
<1>1. /\ ExhaustedRow(row).status = "failed" /\ ~ExhaustedRow(row).retryable
      /\ ExhaustedRow(row).lease = "none" /\ ExhaustedRow(row).generation = row.generation
  BY DEF ExhaustedRow, JobRow
<1>2. /\ SucceededRow(row).status = "succeeded" /\ SucceededRow(row).lease = "none"
      /\ SucceededRow(row).generation = row.generation
  BY DEF SucceededRow, ReleasedRow, JobRow
<1>3. /\ CanceledRow(row).status = "canceled" /\ CanceledRow(row).lease = "none"
      /\ CanceledRow(row).generation = row.generation
  BY DEF CanceledRow, ReleasedRow, JobRow
<1>4. /\ DeletedRow(row).status = "deleted" /\ DeletedRow(row).lease = "none"
      /\ DeletedRow(row).generation = row.generation
  BY DEF DeletedRow, ReleasedRow, JobRow
<1>5. /\ RequeuedRow(row, m).status = "queued" /\ RequeuedRow(row, m).lease = "none"
      /\ RequeuedRow(row, m).generation = row.generation
      /\ RequeuedRow(row, m).attempt = row.attempt /\ RequeuedRow(row, m).maxAttempts = m
  BY DEF RequeuedRow, ReleasedRow, JobRow
<1> QED
  BY <1>1, <1>2, <1>3, <1>4, <1>5

\* What holds of one job, its parent and its results.
JobConsistent(j) ==
  /\ parent[j] = ParentStatus(j, job[j].status)
  /\ Attended(job[j])
  /\ job[j].status = "succeeded" => results[j] = {job[j].generation}
  /\ job[j].status \notin {"succeeded", "deleted"} => results[j] = {}

LEMMA RowInvariant ==
  ASSUME TypeOK, NEW j \in Jobs, JobConsistent(j), RowStep(j)
  PROVE  /\ JobConsistent(j)'
         /\ [Durable(j)!Next]_(Durable(j)!vars)
         /\ job[j].status \in {"succeeded", "canceled"} =>
              job'[j].status \in {job[j].status, "deleted"} /\ results'[j] = results[j]
<1> DEFINE Goal == /\ JobConsistent(j)'
                   /\ [Durable(j)!Next]_(Durable(j)!vars)
                   /\ job[j].status \in {"succeeded", "canceled"} =>
                        job'[j].status \in {job[j].status, "deleted"} /\ results'[j] = results[j]
<1>0. job[j] \in JobRow
  BY DEF TypeOK, QueueTypeOK
<1>t. job[j].generation \in Nat
  BY <1>0 DEF JobRow
<1> USE DEF JobConsistent, Attended, Durable!Next, Durable!vars, NewParent, SameParent
<1>1. CASE Untouched(j)
  BY <1>1 DEF Untouched
<1>2. ASSUME job[j].status = "running", SameParent(j),
             job[j].owner # NoWorker \/ job'[j] = ExpiredRow(job[j]),
             \E p \in Nat : job'[j] \in {RenewedRow(job[j]), AbandonedRow(job[j]),
                                         ExpiredRow(job[j]), StagedRow(job[j], p)}
      PROVE  Goal
  <2>1. /\ job'[j].status = "running" /\ job'[j].generation = job[j].generation
        /\ job'[j].lease \in {"live", "expired"}
        /\ job'[j].owner = job[j].owner \/ (job'[j].owner = NoWorker /\ job'[j].lease = "expired")
    BY <1>0, <1>2, KeptRows
  <2>2. job'[j] = ExpiredRow(job[j]) => job'[j].lease = "expired"
    BY <1>0 DEF ExpiredRow, JobRow
  <2>3. QED
    BY <1>2, <2>1, <2>2
<1>3. CASE Held(j) \/ Lapsed(j)
  BY <1>2, <1>3 DEF Held, Lapsed
<1>4. CASE Claimed(j)
  <2>1. PICK w \in Workers : job'[j] = ClaimedRow(job[j], w)
    BY <1>4 DEF Claimed
  <2>2. /\ job'[j].status = "running" /\ job'[j].owner # NoWorker
        /\ job'[j].lease = "live" /\ job'[j].generation = job[j].generation + 1
    BY <1>0, <2>1, ClaimedFields, ConstantsAssumption
  <2>3. Durable(j)!Start
    BY <1>4, <2>2 DEF Claimed, Durable!Start
  <2>4. QED
    BY <1>4, <2>2, <2>3 DEF Claimed
<1>5. CASE Swept(j)
  <2>1. /\ job'[j].status = "failed" /\ ~job'[j].retryable
        /\ job'[j].lease = "none" /\ job'[j].generation = job[j].generation
    BY <1>0, <1>5, ReleasedFields DEF Swept
  <2>2. Durable(j)!GiveUp
    BY <1>5, <2>1 DEF Swept, Durable!GiveUp
  <2>3. QED
    BY <1>5, <2>1, <2>2 DEF Swept
<1>6. CASE GaveUp(j)
  <2>1. /\ job'[j].status = "failed" /\ job'[j].generation = job[j].generation
        /\ job'[j].lease = "none"
        /\ job'[j].retryable => job'[j].attempt < job'[j].maxAttempts
    BY <1>0, <1>6, FailedFields DEF GaveUp
  <2>2. Durable(j)!GiveUp
    BY <1>6, <2>1 DEF GaveUp, Durable!GiveUp
  <2>3. QED
    BY <1>6, <2>1, <2>2 DEF GaveUp
<1>7. CASE Finished(j)
  <2>1. /\ job'[j].status = "succeeded" /\ job'[j].generation = job[j].generation
        /\ job'[j].lease = "none"
    BY <1>0, <1>7, ReleasedFields DEF Finished
  <2>2. results'[j] = {job[j].generation}
    BY <1>7 DEF Finished
  <2>3. Durable(j)!Publish
    BY <1>7, <2>1, <2>2 DEF Finished, Durable!Publish
  <2>4. QED
    BY <1>7, <2>1, <2>2, <2>3 DEF Finished
<1>8. CASE Requeued(j)
  <2>1. PICK m \in Nat : job[j].attempt < m /\ job'[j] = RequeuedRow(job[j], m)
    BY <1>8 DEF Requeued
  <2>2. /\ job'[j].status = "queued" /\ job'[j].generation = job[j].generation
        /\ job'[j].lease = "none" /\ job'[j].attempt < job'[j].maxAttempts
    BY <1>0, <2>1, ReleasedFields
  <2>3. Durable(j)!Retry
    BY <1>8, <2>2 DEF Requeued, Durable!Retry
  <2>4. QED
    BY <1>8, <2>2, <2>3 DEF Requeued
<1>9. CASE Withdrawn(j)
  <2>1. /\ job'[j].status = "canceled" /\ job'[j].generation = job[j].generation
        /\ job'[j].lease = "none"
    BY <1>0, <1>9, ReleasedFields DEF Withdrawn
  <2>2. Durable(j)!Cancel
    BY <1>9, <2>1 DEF Withdrawn, Durable!Cancel
  <2>3. QED
    BY <1>9, <2>1, <2>2 DEF Withdrawn
<1>10. CASE Removed(j)
  <2>1. /\ job'[j].status = "deleted" /\ job'[j].generation = job[j].generation
        /\ job'[j].lease = "none"
    BY <1>0, <1>10, ReleasedFields DEF Removed
  <2>2. Durable(j)!Delete
    BY <1>10, <2>1 DEF Removed, Durable!Delete
  <2>3. QED
    BY <1>10, <2>1, <2>2 DEF Removed
<1> QED
  BY <1>1, <1>3, <1>4, <1>5, <1>6, <1>7, <1>8, <1>9, <1>10 DEF RowStep

LEMMA RowProgress ==
  ASSUME TypeOK, NEW j \in Jobs, job[j].progress =< 100, RowStep(j)
  PROVE  job'[j].progress >= job[j].progress /\ job'[j].progress =< 100
<1>0. job[j] \in JobRow
  BY DEF TypeOK, QueueTypeOK
<1>1. \A row \in JobRow :
        /\ RenewedRow(row).progress = row.progress
        /\ AbandonedRow(row).progress = row.progress
        /\ ExpiredRow(row).progress = row.progress
        /\ ExhaustedRow(row).progress = row.progress
        /\ CanceledRow(row).progress = row.progress
        /\ DeletedRow(row).progress = row.progress
  BY DEF RenewedRow, AbandonedRow, ExpiredRow, ExhaustedRow, CanceledRow, DeletedRow,
         ReleasedRow, JobRow
<1>2. \A row \in JobRow : SucceededRow(row).progress = 100
  BY DEF SucceededRow, ReleasedRow, JobRow
<1>3. \A row \in JobRow, m \in Nat : RequeuedRow(row, m).progress = row.progress
  BY DEF RequeuedRow, ReleasedRow, JobRow
<1>4. \A row \in JobRow, f \in Failures : FailedRow(row, f).progress = row.progress
  BY Zenon DEF FailedRow, JobRow
<1>5. \A row \in JobRow, p \in 0 .. 100 : StagedRow(row, p).progress = AtLeast(p, row.progress)
  BY DEF StagedRow, JobRow
<1>6. \A row \in JobRow, w \in Workers : ClaimedRow(row, w).progress = AtLeast(1, row.progress)
  BY DEF ClaimedRow, JobRow
<1>7. job[j].progress \in Nat
  BY <1>0 DEF JobRow
<1>8. CASE Held(j)
  <2>1. CASE job'[j] = RenewedRow(job[j]) \/ job'[j] = AbandonedRow(job[j])
    BY <1>0, <1>1, <1>7, <2>1
  <2>2. ASSUME NEW p \in 0 .. 100, job'[j] = StagedRow(job[j], p)
        PROVE  job'[j].progress >= job[j].progress /\ job'[j].progress =< 100
    <3>1. job'[j].progress = AtLeast(p, job[j].progress)
      BY <1>0, <1>5, <2>2
    <3>2. QED
      BY <1>7, <3>1 DEF AtLeast
  <2>3. QED
    BY <1>8, <2>1, <2>2 DEF Held
<1>9. CASE Claimed(j)
  BY <1>0, <1>6, <1>7, <1>9 DEF Claimed, AtLeast
<1>10. CASE Untouched(j) \/ Lapsed(j) \/ Swept(j) \/ Withdrawn(j) \/ Removed(j)
  BY <1>0, <1>1, <1>7, <1>10 DEF Untouched, Lapsed, Swept, Withdrawn, Removed
<1>11. CASE GaveUp(j) \/ Finished(j) \/ Requeued(j)
  BY <1>0, <1>2, <1>3, <1>4, <1>7, <1>11 DEF GaveUp, Finished, Requeued
<1> QED
  BY <1>8, <1>9, <1>10, <1>11 DEF RowStep

LEMMA ConsistentJobs ==
  ParentMirrorsJob /\ NoStrandedJob /\ ResultOfLastExecution
    <=> \A j \in Jobs : JobConsistent(j)
  BY DEF ParentMirrorsJob, NoStrandedJob, ResultOfLastExecution, JobConsistent

LEMMA QueueInvInit == Init => QueueInv
<1> SUFFICES ASSUME Init PROVE QueueInv
  OBVIOUS
<1>1. \A j \in Jobs : /\ job[j].status = "queued" /\ job[j].lease = "none"
                      /\ job[j].attempt = 0 /\ job[j].maxAttempts \in Nat \ {0}
                      /\ parent[j] = "queued" /\ results[j] = {}
  BY ConstantsAssumption DEF Init
<1>2. \A j \in Jobs : ParentStatus(j, "queued") = "queued"
  BY DEF ParentStatus
<1>3. \A j \in Jobs : JobConsistent(j)
  BY <1>1, <1>2 DEF JobConsistent, Attended
<1>4. ProgressBound
  BY DEF Init, ProgressBound
<1> QED
  BY <1>3, <1>4, ConsistentJobs, InitType, PendingInit, OwnedThreads DEF QueueInv

LEMMA QueueInvStep == QueueInv /\ [Next]_vars => QueueInv'
<1> SUFFICES ASSUME QueueInv, [Next]_vars PROVE QueueInv'
  OBVIOUS
<1>1. \A j \in Jobs : RowStep(j)
  BY EveryRowStep DEF QueueInv
<1>2. \A j \in Jobs : JobConsistent(j)
  BY ConsistentJobs DEF QueueInv
<1>3. \A j \in Jobs : JobConsistent(j)'
  BY <1>1, <1>2, RowInvariant DEF QueueInv
<1>4. ParentMirrorsJob' /\ NoStrandedJob' /\ ResultOfLastExecution'
  BY <1>3 DEF ParentMirrorsJob, NoStrandedJob, ResultOfLastExecution, JobConsistent
<1>5. ProgressBound'
  BY <1>1, RowProgress DEF QueueInv, ProgressBound
<1> QED
  BY <1>4, <1>5, NextType, PendingStep, OwnedThreads DEF QueueInv

\* The inductive invariant of the queue: types, every row consistent with its
\* parent and its results, progress in range, live threads started by workers,
\* and every open retry holding a limit that lets the job run again.
THEOREM QueueCorrect == Spec => []QueueInv
<1>1. QueueInv /\ [Next]_vars => QueueInv'
  BY QueueInvStep
<1> QED
  BY <1>1, QueueInvInit, PTL DEF Spec

\* The parent row is rewritten in the same transaction as its job, by every
\* call of worker.py, jobs.py and projects.py that changes the job's status.
THEOREM ParentMirrors == Spec => []ParentMirrorsJob
<1>1. QueueInv => ParentMirrorsJob
  BY DEF QueueInv
<1> QED
  BY <1>1, QueueCorrect, PTL

\* No call of the worker or of the API leaves a job that neither claim nor
\* retry_job would accept, nor a running job that no claim can recover.
THEOREM NeverStranded == Spec => []NoStrandedJob
<1>1. QueueInv => NoStrandedJob
  BY DEF QueueInv
<1> QED
  BY <1>1, QueueCorrect, PTL

\* The fence on (status, lease_owner, execution_generation) lets only the last
\* execution started publish, and only once.
THEOREM OneResult == Spec => []ResultOfLastExecution
<1>1. QueueInv => ResultOfLastExecution
  BY DEF QueueInv
<1> QED
  BY <1>1, QueueCorrect, PTL

\* Success and cancellation are final: no late thread, sweep or retry changes
\* a decided job or its output.
THEOREM Finality == Spec => FinalStaysFinal
<1>1. QueueInv /\ [Next]_vars =>
        [\A j \in Jobs : job[j].status \in {"succeeded", "canceled"} =>
           /\ job'[j].status \in {job[j].status, "deleted"}
           /\ results'[j] = results[j]]_vars
  BY EveryRowStep, RowInvariant, ConsistentJobs DEF QueueInv
<1> QED
  BY <1>1, QueueCorrect, PTL DEF Spec, FinalStaysFinal

\* The worker pool, with its leases, renewers, detached threads, crashes and
\* concurrent API calls, implements DurableJob for every job.
THEOREM Refinement == Spec => ImplementsDurableJob
<1>1. Init => \A j \in Jobs : Durable(j)!Init
  BY DEF Init, Durable!Init
<1>2. QueueInv /\ [Next]_vars =>
        [\A j \in Jobs : [Durable(j)!Next]_(Durable(j)!vars)]_vars
  BY EveryRowStep, RowInvariant, ConsistentJobs DEF QueueInv
<1> QED
  BY <1>1, <1>2, QueueCorrect, PTL DEF Spec, ImplementsDurableJob

\* What the user sees of a job's progress never goes back: claim and _stage
\* take the maximum, and no stage reports more than the final 100.
THEOREM Progress == Spec => ProgressNeverDrops
<1>1. QueueInv /\ [Next]_vars =>
        [\A j \in Jobs : job'[j].progress >= job[j].progress]_vars
  BY EveryRowStep, RowProgress DEF QueueInv, ProgressBound
<1> QED
  BY <1>1, QueueCorrect, PTL DEF Spec, ProgressNeverDrops

\* An armed demo fault disturbs at most one execution, because _consume_fault
\* reads and clears it in one transaction.
THEOREM FaultOnce == Spec => []FaultHitsOnce
<1>1. Init => FaultHitsOnce
  BY DEF Init, FaultHitsOnce
<1>2. ASSUME TypeOK, FaultHitsOnce, [Next]_vars PROVE FaultHitsOnce'
  <2> USE <1>2 DEF FaultHitsOnce, TypeOK, FaultTypeOK, FaultModes
  <2>1. CASE UNCHANGED faultVars
    BY <2>1 DEF faultVars
  <2>2. ASSUME NEW mode \in FaultModes, SetFault(mode) PROVE FaultHitsOnce'
    BY <2>2 DEF SetFault
  <2>3. ASSUME NEW j \in Jobs, NEW g \in Generations, ConsumeFault(j, g) PROVE FaultHitsOnce'
    BY <2>3 DEF ConsumeFault
  <2>4. ASSUME NEW w \in Workers,
               MainLoop(w) \/ Deadline(w) \/ Renew(w) \/ Terminate(w) \/ Crash(w)
        PROVE  UNCHANGED faultVars
    BY <2>4 DEF MainLoop, Claim, ClaimWrites, SweepExhausted, ObserveCompletion,
       ObserveLeaseLost, Abandon, Exit, Restart, Deadline, Renew, Terminate, Crash, ProcessGone
  <2>5. ASSUME NEW j \in Jobs, NEW g \in Generations,
               \/ EnterStage(j, g) \/ CheckPlan(j, g) \/ FaultFires(j, g) \/ Finish(j, g)
               \/ Fail(j, g) \/ Raise(j, g) \/ FailRaises(j, g)
        PROVE  UNCHANGED faultVars
    BY <2>5 DEF EnterStage, CheckPlan, FaultFires, Finish, Fail, Raise, FailRaises, FenceRaises
  <2>6. ASSUME NEW j \in Jobs, LeaseExpires(j) \/ Cancel(j) \/ DeleteProject(j)
        PROVE  UNCHANGED faultVars
    BY <2>6 DEF LeaseExpires, Cancel, DeleteProject
  <2>7. ASSUME NEW c \in Clients, RetryWrite(c) \/ \E j \in Jobs : RetryRead(c, j)
        PROVE  UNCHANGED faultVars
    BY <2>7 DEF RetryRead, RetryWrite
  <2>8. QED
    BY <2>1, <2>2, <2>3, <2>4, <2>5, <2>6, <2>7 DEF Next, Execute, Api, vars, faultVars
<1> QED
  BY <1>1, <1>2, TypeCorrect, PTL DEF Spec

-----------------------------------------------------------------------------
(***************************************************************************)
(* A live thread of a slot is the one its main loop watches; when the loop *)
(* is idle, it has isolated the thread, so claim() is not reached, or is   *)
(* stopping, so it never claims again.                                     *)
(***************************************************************************)

InSlot(w, j, g) == Live(j, g) /\ exec[j][g].by = w

SlotWatched(w) ==
  /\ \A j \in Jobs, g \in Generations : InSlot(w, j, g) =>
       \/ phase[w] = "watching" /\ watch[w] = <<j, g>>
       \/ phase[w] = "idle" /\ (stopping[w] \/ <<j, g>> \in isolated[w])
  /\ \A i, j \in Jobs, g, h \in Generations :
       InSlot(w, i, g) /\ InSlot(w, j, h) => i = j /\ g = h

\* A thread of a slot was there before, unless the slot has just claimed its job.
LEMMA ThreadsOfSlot ==
  ASSUME TypeOK, [Next]_vars, NEW w \in Workers, NEW j \in Jobs, NEW g \in Generations,
         InSlot(w, j, g)'
  PROVE  InSlot(w, j, g) \/ (Claim(w, j) /\ g = job[j].generation + 1)
<1>1. ThreadStep(j, g)
  BY ThreadSteps
<1>2. EndedThread.point = "ended"
  BY DEF EndedThread, NoThread
<1> QED
  BY <1>1, <1>2 DEF ThreadStep, Begun, Moved, InSlot, Live

LEMMA ClaimSlot ==
  ASSUME TypeOK, [Next]_vars, NEW w \in Workers, NEW j \in Jobs, SlotWatched(w), Claim(w, j)
  PROVE  SlotWatched(w)'
<1>1. \A i \in Jobs, g \in Generations : ~InSlot(w, i, g)
  <2>1. /\ phase[w] = "idle" /\ ~stopping[w]
        /\ \A e \in isolated[w] : ~Live(e[1], e[2])
    BY DEF Claim, MayClaim
  <2>2. \A i \in Jobs, g \in Generations : <<i, g>> \in isolated[w] => ~Live(i, g)
    BY <2>1
  <2> QED
    BY <2>1, <2>2 DEF SlotWatched, InSlot
<1>2. phase'[w] = "watching" /\ watch'[w] = <<j, job[j].generation + 1>>
  BY DEF Claim, TypeOK, WorkerTypeOK
<1>3. \A i \in Jobs : Claim(w, i) => i = j
  BY <1>2 DEF Claim, TypeOK, WorkerTypeOK
<1>4. \A i \in Jobs, g \in Generations :
        InSlot(w, i, g)' => i = j /\ g = job[j].generation + 1
  BY <1>1, <1>3, ThreadsOfSlot
<1> QED
  BY <1>2, <1>4 DEF SlotWatched

\* A step of the main loop of w, or of its process, that is not a claim.
LEMMA LoopSlot ==
  ASSUME TypeOK, NEW w \in Workers, SlotWatched(w),
         \A j \in Jobs, g \in Generations : InSlot(w, j, g)' => InSlot(w, j, g),
         \/ SweepExhausted(w) \/ ObserveCompletion(w) \/ ObserveLeaseLost(w) \/ Abandon(w)
         \/ Exit(w) \/ Restart(w) \/ Deadline(w) \/ Terminate(w) \/ Crash(w)
  PROVE  SlotWatched(w)'
<1>1. SUFFICES ASSUME NEW j \in Jobs, NEW g \in Generations, InSlot(w, j, g)', InSlot(w, j, g)
               PROVE  \/ phase'[w] = "watching" /\ watch'[w] = <<j, g>>
                      \/ phase'[w] = "idle" /\ (stopping'[w] \/ <<j, g>> \in isolated'[w])
  BY DEF SlotWatched
<1>2. \/ phase[w] = "watching" /\ watch[w] = <<j, g>>
      \/ phase[w] = "idle" /\ (stopping[w] \/ <<j, g>> \in isolated[w])
  BY <1>1 DEF SlotWatched
<1>3. Live(j, g) /\ exec[j][g].by = w
  BY <1>1 DEF InSlot
<1>4. /\ \A p \in {"idle", "down"} : phase' = [phase EXCEPT ![w] = p] => phase'[w] = p
      /\ \A q : isolated' = [isolated EXCEPT ![w] = q] => isolated'[w] = q
      /\ stopping' = [stopping EXCEPT ![w] = TRUE] => stopping'[w]
  BY DEF TypeOK, WorkerTypeOK
<1>5. CASE SweepExhausted(w)
  <2>1. /\ phase[w] = "idle" /\ ~stopping[w]
        /\ \A e \in isolated[w] : ~Live(e[1], e[2])
    BY <1>5 DEF SweepExhausted, MayClaim
  <2>2. <<j, g>> \in isolated[w] => ~Live(j, g)
    BY <2>1
  <2> QED
    BY <1>2, <1>3, <2>1, <2>2
<1>6. CASE ObserveCompletion(w)
  <2>1. phase[w] = "watching" /\ ~Live(watch[w][1], watch[w][2])
    BY <1>6 DEF ObserveCompletion
  <2> QED
    BY <1>2, <1>3, <2>1
<1>7. CASE ObserveLeaseLost(w) \/ Deadline(w)
  <2>1. phase[w] = "watching" /\ phase' = [phase EXCEPT ![w] = "idle"]
        /\ Isolate(w, watch[w][1], watch[w][2])
    BY <1>7 DEF ObserveLeaseLost, Deadline, Unwatch
  <2>2. watch[w] = <<j, g>> /\ watch[w][1] = j /\ watch[w][2] = g
    BY <1>2, <2>1
  <2>3. <<j, g>> \in isolated'[w]
    BY <1>3, <1>4, <2>1, <2>2 DEF Isolate, TypeOK, WorkerTypeOK
  <2> QED
    BY <1>4, <2>1, <2>3
<1>8. CASE Abandon(w)
  BY <1>4, <1>8 DEF Abandon, Unwatch
<1>9. CASE Exit(w) \/ Crash(w)
  <2>1. exec'[j][g] = EndedThread
    BY <1>3, <1>9 DEF Exit, Crash, ProcessGone
  <2> QED
    BY <1>1, <2>1 DEF InSlot, Live, EndedThread, NoThread
<1>10. CASE Restart(w)
  BY <1>2, <1>10 DEF Restart
<1>11. CASE Terminate(w)
  BY <1>2, <1>4, <1>11 DEF Terminate
<1> QED
  BY <1>5, <1>6, <1>7, <1>8, <1>9, <1>10, <1>11

\* Any other step leaves what the loop of w remembers alone.
LEMMA OthersSlot ==
  ASSUME TypeOK, NEW w \in Workers, SlotWatched(w),
         \A j \in Jobs, g \in Generations : InSlot(w, j, g)' => InSlot(w, j, g),
         phase'[w] = phase[w], watch'[w] = watch[w], isolated'[w] = isolated[w],
         stopping'[w] = stopping[w]
  PROVE  SlotWatched(w)'
  BY DEF SlotWatched

LEMMA SlotStep ==
  ASSUME TypeOK, [Next]_vars, NEW w \in Workers, SlotWatched(w)
  PROVE  SlotWatched(w)'
<1>1. CASE \E j \in Jobs : Claim(w, j)
  BY <1>1, ClaimSlot
<1>2. ASSUME ~\E j \in Jobs : Claim(w, j)
      PROVE  SlotWatched(w)'
  <2>1. \A j \in Jobs, g \in Generations : InSlot(w, j, g)' => InSlot(w, j, g)
    BY <1>2, ThreadsOfSlot
  <2> DEFINE Same == /\ phase'[w] = phase[w] /\ watch'[w] = watch[w]
                     /\ isolated'[w] = isolated[w] /\ stopping'[w] = stopping[w]
  <2>2. Same => SlotWatched(w)'
    BY <2>1, OthersSlot
  <2>3. ASSUME NEW v \in Workers, v # w,
               MainLoop(v) \/ Deadline(v) \/ Renew(v) \/ Terminate(v) \/ Crash(v)
        PROVE  Same
    BY <2>3 DEF MainLoop, Claim, ClaimWrites, SweepExhausted, ObserveCompletion,
       ObserveLeaseLost, Abandon, Exit, Restart, Deadline, Renew, Terminate, Crash, ProcessGone,
       Unwatch, Isolate, TypeOK, WorkerTypeOK
  <2>4. CASE Renew(w)
    BY <2>4, <2>2 DEF Renew
  <2>5. ASSUME NEW j \in Jobs, NEW g \in Generations,
               Execute(j, g) \/ Raise(j, g) \/ FailRaises(j, g)
        PROVE  Same
    BY <2>5 DEF Execute, EnterStage, ConsumeFault, CheckPlan, FaultFires, Finish, Fail, Raise,
       FailRaises, FenceRaises
  <2>6. ASSUME NEW j \in Jobs, LeaseExpires(j) PROVE Same
    BY <2>6 DEF LeaseExpires, workerVars
  <2>7. CASE Api
    <3>1. UNCHANGED workerVars
      BY <2>7 DEF Api, RetryRead, RetryWrite, Cancel, DeleteProject, SetFault
    <3>2. QED
      BY <2>2, <3>1 DEF workerVars
  <2>8. CASE UNCHANGED vars
    BY <2>2, <2>8 DEF vars, workerVars
  <2> HIDE DEF Same
  <2> QED
    BY <1>2, <2>1, <2>2, <2>3, <2>4, <2>5, <2>6, <2>7, <2>8, LoopSlot DEF Next, MainLoop
<1> QED
  BY <1>1, <1>2

\* A worker process never runs two executions at once: _isolate_pipeline keeps
\* the concurrency bound through timeouts, cancellations and lost leases.
THEOREM SlotsRunOneThread == Spec => []OneThreadPerSlot
<1> DEFINE AllWatched == \A w \in Workers : SlotWatched(w)
<1>1. Init => AllWatched
  BY DEF Init, SlotWatched, InSlot, Live, NoThread
<1>2. TypeOK /\ AllWatched /\ [Next]_vars => AllWatched'
  BY SlotStep
<1>3. AllWatched => OneThreadPerSlot
  <2> SUFFICES ASSUME AllWatched, NEW w \in Workers, NEW e1 \in Executions, NEW e2 \in Executions,
                      InSlot(w, e1[1], e1[2]), InSlot(w, e2[1], e2[2])
               PROVE  e1 = e2
    BY DEF OneThreadPerSlot, InSlot
  <2>1. /\ e1 = <<e1[1], e1[2]>> /\ e1[1] \in Jobs /\ e1[2] \in Generations
        /\ e2 = <<e2[1], e2[2]>> /\ e2[1] \in Jobs /\ e2[2] \in Generations
    BY DEF Executions
  <2>2. e1[1] = e2[1] /\ e1[2] = e2[2]
    BY <2>1 DEF SlotWatched
  <2> QED
    BY <2>1, <2>2
<1> HIDE DEF AllWatched
<1> QED
  BY <1>1, <1>2, <1>3, TypeCorrect, PTL DEF Spec
=============================================================================
