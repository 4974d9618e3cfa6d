------------------------------ MODULE JobWorker ------------------------------
(***************************************************************************)
(* The durable job queue: rows of the jobs table, the core worker          *)
(* processes that claim, execute, renew and settle them (worker.py), and   *)
(* the API calls that retry, cancel or delete them (services/jobs.py,      *)
(* services/projects.py).                                                  *)
(*                                                                         *)
(* Every database transaction of the code is one step.  A worker process   *)
(* has three threads that matter: the main loop (Claim, then the polling   *)
(* loop of process), the lease renewer, and one execution thread per       *)
(* claimed generation.  An execution thread can outlive the main loop's    *)
(* interest in it, because Python threads cannot be killed.                *)
(*                                                                         *)
(* Wall-clock time is abstracted to the two comparisons the code makes:    *)
(* a lease is "live" or "expired", and a deadline may pass at any moment.  *)
(***************************************************************************)
EXTENDS Integers, FiniteSets

CONSTANTS
  Jobs,              \* rows of the jobs table
  PreviewJobs,       \* those of kind "preview"; the others are "pipeline"
  Workers,           \* worker slots; worker_id is stable across restarts
  Clients,           \* concurrent API requests that retry a job
  NoJob,             \* "this client is not in the middle of a retry"
  PipelineAttempts,  \* Job.max_attempts of a new pipeline job (3 in models.py)
  PreviewAttempts,   \* Job.max_attempts of a new preview job (2 in previews.py)
  MaxGeneration,     \* bound: executions ever started for one job
  MaxOutages,        \* bound: process crashes and SIGTERMs
  MaxFaults          \* bound: demo faults armed through the API

NoWorker == "none"  \* lease_owner is NULL

ASSUME ConstantsAssumption ==
  /\ PreviewJobs \subseteq Jobs
  /\ NoJob \notin Jobs
  /\ NoWorker \notin Workers
  /\ PipelineAttempts \in Nat \ {0}
  /\ PreviewAttempts \in Nat \ {0}
  /\ MaxGeneration \in Nat
  /\ MaxOutages \in Nat
  /\ MaxFaults \in Nat

VARIABLES
  job,        \* [Jobs -> row of jobs]
  parent,     \* status of the row the job works for: its Project, or its PreviewRender
  results,    \* [Jobs -> generations whose output rows were committed]
  exec,       \* [Jobs -> [Generations -> execution thread]]
  phase,      \* [Workers -> main loop: "idle" | "watching" | "down"]
  watch,      \* [Workers -> the <<job, generation>> process() polls]
  isolated,   \* [Workers -> executions in _timed_out_pipelines]
  stopping,   \* [Workers -> SIGTERM received]
  outages,    \* crashes and SIGTERMs so far
  fault,      \* FaultControl.next_mode
  armed,      \* faults armed so far through POST /demo/fault
  hits,       \* executions that received a fault so far
  pending     \* [Clients -> the row a retry_job call has read]

queueVars  == <<job, parent, results>>
workerVars == <<exec, phase, watch, isolated, stopping, outages>>
faultVars  == <<fault, armed, hits>>
vars == <<queueVars, workerVars, faultVars, pending>>

Generations == 1 .. MaxGeneration
Executions  == Jobs \X Generations
NoWatch     == <<>>

Kind(j) == IF j \in PreviewJobs THEN "preview" ELSE "pipeline"

(***************************************************************************)
(* Stages: the calls of _stage in the two pipelines, with the point where  *)
(* the thread stands before and after, and the progress it reports.        *)
(* "faulted" is the point after _consume_fault, "planned" the point after  *)
(* the input-hash check of a preview.                                      *)
(***************************************************************************)
PipelineStages ==
  { [from |-> "start",        to |-> "validating",   progress |-> 5],
    [from |-> "faulted",      to |-> "extracting",   progress |-> 15],
    [from |-> "extracting",   to |-> "transcribing", progress |-> 30],
    [from |-> "transcribing", to |-> "segmenting",   progress |-> 48],
    [from |-> "segmenting",   to |-> "keywording",   progress |-> 62],
    [from |-> "keywording",   to |-> "matching",     progress |-> 80],
    [from |-> "matching",     to |-> "persisting",   progress |-> 95] }

PreviewStages ==
  { [from |-> "start",             to |-> "preview_planning",   progress |-> 8],
    [from |-> "planned",           to |-> "preview_rendering",  progress |-> 35],
    [from |-> "preview_rendering", to |-> "preview_finalizing", progress |-> 92] }

StagesOf(j) == IF Kind(j) = "preview" THEN PreviewStages ELSE PipelineStages

StagePoints ==
  {"start", "validating", "faulted", "extracting", "transcribing",
   "segmenting", "keywording", "matching", "persisting", "preview_planning",
   "planned", "preview_rendering", "preview_finalizing"}

(***************************************************************************)
(* WorkerFailure, reduced to what _fail and retry_job look at: retryable,  *)
(* whether the category is configuration or dependency, and whether the    *)
(* code is one of REARMABLE_ASR_ERROR_CODES.                               *)
(***************************************************************************)
Failures == {"transient", "permanent", "configuration", "model_download", "dependency"}

Retryable(f)       == f \in {"transient", "configuration", "model_download"}
RearmCategory(f)   == f \in {"configuration", "dependency"}
RearmCode(f)       == f \in {"configuration", "model_download"}

\* What can be raised while the thread stands at a point, besides the
\* unexpected exceptions that become a transient failure anywhere.
Raises(j, point) ==
  {"transient"} \union
  CASE point = "transcribing" -> {"permanent", "configuration", "model_download"}
    [] point \in {"validating", "keywording", "matching", "persisting"} -> {"permanent"}
    [] point \in {"preview_planning", "preview_finalizing"} -> {"permanent"}
    [] point = "preview_rendering" -> {"dependency"}
    [] OTHER -> {}

FaultModes == {"none", "ai_degrade", "job_fail"}

-----------------------------------------------------------------------------
(* Rows and types *)

Statuses == {"queued", "running", "succeeded", "failed", "canceled", "deleted"}

\* Weakened form: the job's status is copied into its parent row.
ParentStatusCopied(j, status) == status

\* Status of the parent row when the job has a given status: Project.status
\* for a pipeline job, PreviewRender.status for a preview job.
ParentStatus(j, status) ==
  IF Kind(j) = "preview"
  THEN IF status = "running" THEN "queued" ELSE status
  ELSE CASE status = "running"   -> "processing"
         [] status = "succeeded" -> "ready"
         [] OTHER                -> status

\* The values the interface knows for Project.status and PreviewRender.status.
ParentStatuses(j) ==
  {"queued", "failed", "canceled", "deleted"} \union
  IF Kind(j) = "preview" THEN {"succeeded"} ELSE {"processing", "ready"}

JobRow ==
  [status: Statuses, attempt: Nat, maxAttempts: Nat, generation: Nat,
   owner: Workers \union {NoWorker}, lease: {"none", "live", "expired"},
   retryable: BOOLEAN, rearm: BOOLEAN, progress: Nat]

ThreadRecord ==
  [point: StagePoints \union {"none", "failing", "ended"},
   by: Workers \union {NoWorker}, fault: FaultModes,
   why: Failures \union {"none"}, leaseLost: BOOLEAN]

Thread == {t \in ThreadRecord : t.point = "failing" => t.why \in Failures}

Snapshot == [job: Jobs \union {NoJob}, attempt: Nat, maxAttempts: Nat, rearm: BOOLEAN]

NoThread   == [point |-> "none", by |-> NoWorker, fault |-> "none",
               why |-> "none", leaseLost |-> FALSE]
EndedThread == [NoThread EXCEPT !.point = "ended"]
NoSnapshot == [job |-> NoJob, attempt |-> 0, maxAttempts |-> 0, rearm |-> FALSE]

QueueTypeOK ==
  /\ job \in [Jobs -> JobRow]
  /\ parent \in [Jobs -> Statuses \union {"processing", "ready"}]
  /\ \A j \in Jobs : parent[j] \in ParentStatuses(j)
  /\ results \in [Jobs -> SUBSET Generations]

WorkerTypeOK ==
  /\ exec \in [Jobs -> [Generations -> Thread]]
  /\ phase \in [Workers -> {"idle", "watching", "down"}]
  /\ watch \in [Workers -> Executions \union {NoWatch}]
  /\ \A w \in Workers : phase[w] = "watching" => watch[w] \in Executions
  /\ isolated \in [Workers -> SUBSET Executions]
  /\ stopping \in [Workers -> BOOLEAN]
  /\ outages \in Nat

FaultTypeOK == fault \in FaultModes /\ armed \in Nat /\ hits \in Nat

ClientTypeOK == pending \in [Clients -> Snapshot]

TypeOK == QueueTypeOK /\ WorkerTypeOK /\ FaultTypeOK /\ ClientTypeOK

Init ==
  /\ job = [j \in Jobs |->
       [status |-> "queued", attempt |-> 0, generation |-> 0,
        maxAttempts |-> IF Kind(j) = "preview" THEN PreviewAttempts ELSE PipelineAttempts,
        owner |-> NoWorker, lease |-> "none",
        retryable |-> FALSE, rearm |-> FALSE, progress |-> 0]]
  /\ parent = [j \in Jobs |-> "queued"]
  /\ results = [j \in Jobs |-> {}]
  /\ exec = [j \in Jobs |-> [g \in Generations |-> NoThread]]
  /\ phase = [w \in Workers |-> "idle"]
  /\ watch = [w \in Workers |-> NoWatch]
  /\ isolated = [w \in Workers |-> {}]
  /\ stopping = [w \in Workers |-> FALSE]
  /\ outages = 0
  /\ fault = "none"
  /\ armed = 0
  /\ hits = 0
  /\ pending = [c \in Clients |-> NoSnapshot]

-----------------------------------------------------------------------------
(* The fence and the helpers that every write goes through *)

Live(j, g) == exec[j][g].point \notin {"none", "ended"}

\* Weakened form: the fence looks at the status only.
FencedByStatus(w, j, g) == job[j].status = "running"

\* The WHERE clause of _fence, _renew_lease and _abandon_execution.
Fenced(w, j, g) ==
  /\ job[j].status = "running"
  /\ job[j].owner = w
  /\ job[j].generation = g

\* Weakened form: the new value wins even when it is lower.
AtLeastUnchecked(low, value) == low

AtLeast(low, value) == IF value < low THEN low ELSE value

\* The row after _fail: a failure of configuration or of a dependency always
\* leaves one more attempt to the user who repairs it.
FailedRow(row, f) ==
  [row EXCEPT
    !.status = "failed",
    !.maxAttempts = IF Retryable(f) /\ RearmCategory(f) /\ row.attempt >= row.maxAttempts
                    THEN row.attempt + 1 ELSE @,
    !.retryable = Retryable(f) /\ (RearmCategory(f) \/ row.attempt < row.maxAttempts),
    !.rearm = RearmCode(f),
    !.owner = NoWorker,
    !.lease = "none"]

\* The row after _stage, _renew_lease, _persist, _abandon_execution, cancel_job,
\* delete_project, retry_job, and after the lease's time has passed.
StagedRow(row, p)   == [row EXCEPT !.progress = AtLeast(p, @), !.lease = "live"]
RenewedRow(row)     == [row EXCEPT !.lease = "live"]
ExpiredRow(row)     == [row EXCEPT !.lease = "expired"]
AbandonedRow(row)   == [row EXCEPT !.owner = NoWorker, !.lease = "expired"]
ReleasedRow(row, s) == [row EXCEPT !.status = s, !.owner = NoWorker, !.lease = "none"]
SucceededRow(row)   == [ReleasedRow(row, "succeeded") EXCEPT
                          !.progress = 100, !.retryable = FALSE, !.rearm = FALSE]
CanceledRow(row)    == [ReleasedRow(row, "canceled") EXCEPT !.retryable = FALSE]
DeletedRow(row)     == [ReleasedRow(row, "deleted") EXCEPT !.retryable = FALSE, !.rearm = FALSE]
RequeuedRow(row, m) == [ReleasedRow(row, "queued") EXCEPT !.maxAttempts = m, !.retryable = TRUE]

RecordFailure(j, f) ==
  /\ job' = [job EXCEPT ![j] = FailedRow(@, f)]
  /\ parent' = [parent EXCEPT ![j] = ParentStatus(j, "failed")]
  /\ UNCHANGED results

EndThread(j, g) == exec' = [exec EXCEPT ![j][g] = EndedThread]

-----------------------------------------------------------------------------
(* Main loop of a worker process *)

Exhausted ==
  {j \in Jobs : /\ job[j].status = "running"
                /\ job[j].lease = "expired"
                /\ job[j].attempt >= job[j].maxAttempts}

\* Weakened form: an expired lease does not make a running job claimable.
ClaimableWhenQueued ==
  {j \in Jobs : job[j].attempt < job[j].maxAttempts /\ job[j].status = "queued"}

Claimable ==
  {j \in Jobs : /\ job[j].attempt < job[j].maxAttempts
                /\ \/ job[j].status = "queued"
                   \/ job[j].status = "running" /\ job[j].lease = "expired"}

ExhaustedRow(row) ==
  [row EXCEPT !.status = "failed", !.retryable = FALSE, !.rearm = FALSE,
              !.owner = NoWorker, !.lease = "none"]

ClaimedRow(row, w) ==
  [row EXCEPT !.status = "running",
              !.progress = AtLeast(1, row.progress),
              !.attempt = row.attempt + 1,
              !.generation = row.generation + 1,
              !.owner = w,
              !.lease = "live"]

\* Weakened form: the sweep forgets the parent of an exhausted job.
StatusAfterSweepForgotten(j, chosen) ==
  IF j \in chosen THEN "running" ELSE job[j].status

\* Status of j after one claim transaction that picks the jobs of chosen.
StatusAfterClaim(j, chosen) ==
  IF j \in Exhausted THEN "failed" ELSE IF j \in chosen THEN "running" ELSE job[j].status

\* The claim transaction: fail every exhausted job, then take at most one.
ClaimWrites(w, chosen) ==
  /\ job' = [j \in Jobs |-> IF j \in Exhausted THEN ExhaustedRow(job[j])
                            ELSE IF j \in chosen THEN ClaimedRow(job[j], w)
                            ELSE job[j]]
  /\ parent' = [j \in Jobs |-> IF j \in Exhausted \union chosen
                               THEN ParentStatus(j, StatusAfterClaim(j, chosen))
                               ELSE parent[j]]
  /\ UNCHANGED <<results, faultVars, pending>>

MayClaim(w) ==
  /\ phase[w] = "idle"
  /\ ~stopping[w]
  /\ \A e \in isolated[w] : ~Live(e[1], e[2])

\* claim() finds work: the row is taken and process() starts its thread.
Claim(w, j) ==
  /\ MayClaim(w)
  /\ j \in Claimable
  /\ job[j].generation < MaxGeneration
  /\ ClaimWrites(w, {j})
  /\ LET g == job[j].generation + 1
     IN  /\ exec' = [exec EXCEPT ![j][g] = [NoThread EXCEPT !.point = "start", !.by = w]]
         /\ watch' = [watch EXCEPT ![w] = <<j, g>>]
  /\ phase' = [phase EXCEPT ![w] = "watching"]
  /\ isolated' = [isolated EXCEPT ![w] = {}]
  /\ UNCHANGED <<stopping, outages>>

\* claim() finds nothing to run, but its sweep of exhausted jobs commits.
SweepExhausted(w) ==
  /\ MayClaim(w)
  /\ Claimable = {}
  /\ Exhausted # {}
  /\ ClaimWrites(w, {})
  /\ isolated' = [isolated EXCEPT ![w] = {}]
  /\ UNCHANGED <<exec, phase, watch, stopping, outages>>

\* process() returns: the main loop may claim again.
Unwatch(w) ==
  /\ phase' = [phase EXCEPT ![w] = "idle"]
  /\ watch' = [watch EXCEPT ![w] = NoWatch]

\* Weakened form: a detached execution is forgotten.
IsolateNothing(w, j, g) == UNCHANGED isolated

\* _isolate_pipeline: remember the execution while its thread is alive.
Isolate(w, j, g) ==
  isolated' = [isolated EXCEPT ![w] = IF Live(j, g) THEN @ \union {<<j, g>>} ELSE @]

\* The execution thread finished: completed is set and process() returns.
ObserveCompletion(w) ==
  /\ phase[w] = "watching"
  /\ ~Live(watch[w][1], watch[w][2])
  /\ Unwatch(w)
  /\ UNCHANGED <<queueVars, exec, isolated, stopping, outages, faultVars, pending>>

\* The renewer reported a lost lease: detach the thread and return.
ObserveLeaseLost(w) ==
  /\ phase[w] = "watching"
  /\ LET j == watch[w][1]  g == watch[w][2]
     IN  /\ Live(j, g)
         /\ exec[j][g].leaseLost
         /\ Isolate(w, j, g)
  /\ Unwatch(w)
  /\ UNCHANGED <<queueVars, exec, stopping, outages, faultVars, pending>>

\* A stopping worker gives the lease up so that another can recover the job;
\* when that update raises, the lease runs out by itself.
Abandon(w) ==
  /\ phase[w] = "watching"
  /\ stopping[w]
  /\ LET j == watch[w][1]  g == watch[w][2]
     IN  /\ Live(j, g)
         /\ \/ Fenced(w, j, g) /\ job' = [job EXCEPT ![j] = AbandonedRow(@)]
            \/ UNCHANGED job
  /\ Unwatch(w)
  /\ UNCHANGED <<parent, results, exec, isolated, stopping, outages, faultVars, pending>>

\* The hard timeout passed: detach the thread and fail the job as JOB_TIMEOUT,
\* unless _fail finds the execution stale or its transaction raises.
Deadline(w) ==
  /\ phase[w] = "watching"
  /\ LET j == watch[w][1]  g == watch[w][2]
     IN  /\ Live(j, g)
         /\ Isolate(w, j, g)
         /\ \/ Fenced(w, j, g) /\ RecordFailure(j, "transient")
            \/ UNCHANGED queueVars
  /\ Unwatch(w)
  /\ UNCHANGED <<exec, stopping, outages, faultVars, pending>>

-----------------------------------------------------------------------------
(* The lease renewer of the watched execution *)

\* _renew_lease commits, or finds the fence gone and sets lease_lost.
Renew(w) ==
  /\ phase[w] = "watching"
  /\ ~stopping[w]
  /\ LET j == watch[w][1]  g == watch[w][2]
     IN  /\ ~exec[j][g].leaseLost
         /\ Live(j, g)
         /\ IF Fenced(w, j, g)
            THEN /\ job' = [job EXCEPT ![j] = RenewedRow(@)]
                 /\ UNCHANGED exec
            ELSE /\ exec' = [exec EXCEPT ![j][g] = [@ EXCEPT !.leaseLost = TRUE]]
                 /\ UNCHANGED job
  /\ UNCHANGED <<parent, results, phase, watch, isolated, stopping, outages, faultVars, pending>>

-----------------------------------------------------------------------------
(* The execution thread of generation g of job j *)

\* A fenced write of a thread whose fence is gone: _fence raises JobCanceled,
\* which ends the thread, or a WorkerFailure that _fail will be handed.
FenceRaises(j, g) ==
  /\ ~Fenced(exec[j][g].by, j, g)
  /\ exec' = [exec EXCEPT ![j][g] =
       IF job[j].status = "canceled" THEN EndedThread
       ELSE [@ EXCEPT !.point = "failing",
                      !.why = IF job[j].status = "deleted" THEN "permanent" ELSE "transient"]]
  /\ UNCHANGED <<queueVars, phase, watch, isolated, stopping, outages, faultVars, pending>>

\* _stage: progress never goes back, and every stage renews the lease.
EnterStage(j, g) ==
  \E s \in StagesOf(j) :
    /\ exec[j][g].point = s.from
    /\ ~(s.from = "extracting" /\ exec[j][g].fault = "job_fail")
    /\ \/ /\ Fenced(exec[j][g].by, j, g)
          /\ job' = [job EXCEPT ![j] = StagedRow(@, s.progress)]
          /\ exec' = [exec EXCEPT ![j][g] = [@ EXCEPT !.point = s.to]]
          /\ UNCHANGED <<parent, results, phase, watch, isolated, stopping, outages,
                         faultVars, pending>>
       \/ FenceRaises(j, g)

\* Weakened form: the fault is read but stays armed.
ConsumeFaultWithoutClearing(j, g) ==
  /\ exec[j][g].point = "validating"
  /\ exec' = [exec EXCEPT ![j][g] = [@ EXCEPT !.point = "faulted", !.fault = fault]]
  /\ hits' = IF fault = "none" THEN hits ELSE hits + 1
  /\ UNCHANGED <<queueVars, phase, watch, isolated, stopping, outages, fault, armed, pending>>

\* _consume_fault reads and clears the armed fault, without any fence.
ConsumeFault(j, g) ==
  /\ exec[j][g].point = "validating"
  /\ exec' = [exec EXCEPT ![j][g] = [@ EXCEPT !.point = "faulted", !.fault = fault]]
  /\ fault' = "none"
  /\ hits' = IF fault = "none" THEN hits ELSE hits + 1
  /\ UNCHANGED <<queueVars, phase, watch, isolated, stopping, outages, armed, pending>>

\* _process_preview compares the timeline with the hash it was asked for.
CheckPlan(j, g) ==
  /\ exec[j][g].point = "preview_planning"
  /\ \/ /\ Fenced(exec[j][g].by, j, g)
        /\ exec' = [exec EXCEPT ![j][g] = [@ EXCEPT !.point = "planned"]]
        /\ UNCHANGED <<queueVars, phase, watch, isolated, stopping, outages, faultVars, pending>>
     \/ FenceRaises(j, g)

\* _persist, or the publishing transaction of _process_preview: the output
\* rows, the parent row and the job change in one fenced transaction.
Finish(j, g) ==
  /\ exec[j][g].point \in {"persisting", "preview_finalizing"}
  /\ \/ /\ Fenced(exec[j][g].by, j, g)
        /\ job' = [job EXCEPT ![j] = SucceededRow(@)]
        /\ parent' = [parent EXCEPT ![j] = ParentStatus(j, "succeeded")]
        /\ results' = [results EXCEPT ![j] = @ \union {g}]
        /\ EndThread(j, g)
        /\ UNCHANGED <<phase, watch, isolated, stopping, outages, faultVars, pending>>
     \/ FenceRaises(j, g)

\* The armed "job_fail" demo fault fires right after the extracting stage.
FaultFires(j, g) ==
  /\ exec[j][g].point = "extracting"
  /\ exec[j][g].fault = "job_fail"
  /\ exec' = [exec EXCEPT ![j][g] = [@ EXCEPT !.point = "failing", !.why = "transient"]]
  /\ UNCHANGED <<queueVars, phase, watch, isolated, stopping, outages, faultVars, pending>>

\* Something raises before the next write of the thread commits.
Raise(j, g) ==
  /\ exec[j][g].point \in StagePoints
  /\ \E f \in Raises(j, exec[j][g].point) :
       exec' = [exec EXCEPT ![j][g] = [@ EXCEPT !.point = "failing", !.why = f]]
  /\ UNCHANGED <<queueVars, phase, watch, isolated, stopping, outages, faultVars, pending>>

\* _fail records the failure unless the execution is stale; either way the
\* thread ends.
Fail(j, g) ==
  /\ exec[j][g].point = "failing"
  /\ IF Fenced(exec[j][g].by, j, g)
     THEN RecordFailure(j, exec[j][g].why)
     ELSE UNCHANGED queueVars
  /\ EndThread(j, g)
  /\ UNCHANGED <<phase, watch, isolated, stopping, outages, faultVars, pending>>

\* The transaction of _fail itself raises (SQLITE_BUSY, a dropped connection):
\* the thread ends and the job stays running until its lease expires.
FailRaises(j, g) ==
  /\ exec[j][g].point = "failing"
  /\ EndThread(j, g)
  /\ UNCHANGED <<queueVars, phase, watch, isolated, stopping, outages, faultVars, pending>>

-----------------------------------------------------------------------------
(* API requests *)

\* retry_job, first half: read the row and decide.
RetryRead(c, j) ==
  LET row == job[j]
  IN  /\ pending[c].job = NoJob
      /\ row.status = "failed"
      /\ row.retryable \/ row.rearm
      /\ row.attempt < row.maxAttempts \/ row.rearm
      /\ row.attempt < MaxGeneration
      /\ pending' = [pending EXCEPT ![c] =
           [job |-> j, attempt |-> row.attempt, rearm |-> row.rearm,
            maxAttempts |-> IF row.attempt >= row.maxAttempts THEN row.attempt + 1
                                                              ELSE row.maxAttempts]]
      /\ UNCHANGED <<queueVars, workerVars, faultVars>>

\* Weakened forms: the update compares only the status, or only the attempt.
RetrySameStatus(c) == job[pending[c].job].status = "failed"
RetrySameAttempt(c) == job[pending[c].job].attempt = pending[c].attempt

\* The WHERE clause of the update in retry_job.
RetryStillValid(c) ==
  LET seen == pending[c]
  IN  job[seen.job].status = "failed" /\ job[seen.job].attempt = seen.attempt

\* retry_job, second half: requeue the row, or answer JOB_RETRY_CONFLICT.
RetryWrite(c) ==
  LET seen == pending[c]
      j    == seen.job
  IN  /\ j # NoJob
      /\ pending' = [pending EXCEPT ![c] = NoSnapshot]
      /\ IF RetryStillValid(c)
         THEN /\ job' = [job EXCEPT ![j] = RequeuedRow(@, seen.maxAttempts)]
              /\ parent' = [parent EXCEPT ![j] = ParentStatus(j, "queued")]
         ELSE UNCHANGED <<job, parent>>
      /\ UNCHANGED <<results, workerVars, faultVars>>

\* Weakened form: cancellation overwrites whatever was decided.
CancelableAlways(j) == job[j].status # "deleted"

Cancelable(j) == job[j].status \in {"queued", "running"}

\* cancel_job: a compare-and-swap on the durable status.
Cancel(j) ==
  /\ Cancelable(j)
  /\ job' = [job EXCEPT ![j] = CanceledRow(@)]
  /\ parent' = [parent EXCEPT ![j] = ParentStatus(j, "canceled")]
  /\ UNCHANGED <<results, workerVars, faultVars, pending>>

\* delete_project: the cascade removes the job, its parent and its output.
DeleteProject(j) ==
  /\ job[j].status # "deleted"
  /\ job' = [job EXCEPT ![j] = DeletedRow(@)]
  /\ parent' = [parent EXCEPT ![j] = "deleted"]
  /\ UNCHANGED <<results, workerVars, faultVars, pending>>

\* set_fault, in demo mode: arms a fault, replaces it, or clears it.
SetFault(mode) ==
  /\ mode = "none" \/ armed < MaxFaults
  /\ fault' = mode
  /\ armed' = IF mode = "none" THEN armed ELSE armed + 1
  /\ UNCHANGED <<queueVars, workerVars, hits, pending>>

-----------------------------------------------------------------------------
(* Time, signals and process death *)

LeaseExpires(j) ==
  /\ job[j].status = "running"
  /\ job[j].lease = "live"
  /\ job' = [job EXCEPT ![j] = ExpiredRow(@)]
  /\ UNCHANGED <<parent, results, workerVars, faultVars, pending>>

\* SIGTERM or SIGINT sets DurableWorker.stopping.
Terminate(w) ==
  /\ phase[w] # "down"
  /\ ~stopping[w]
  /\ outages < MaxOutages
  /\ stopping' = [stopping EXCEPT ![w] = TRUE]
  /\ outages' = outages + 1
  /\ UNCHANGED <<queueVars, exec, phase, watch, isolated, faultVars, pending>>

\* The process of w is gone, and its daemon threads with it.
ProcessGone(w) ==
  /\ exec' = [j \in Jobs |-> [g \in Generations |->
                IF exec[j][g].by = w THEN EndedThread ELSE exec[j][g]]]
  /\ phase' = [phase EXCEPT ![w] = "down"]
  /\ watch' = [watch EXCEPT ![w] = NoWatch]
  /\ isolated' = [isolated EXCEPT ![w] = {}]
  /\ stopping' = [stopping EXCEPT ![w] = FALSE]
  /\ UNCHANGED <<queueVars, faultVars, pending>>

\* run_forever leaves its loop and the process exits.
Exit(w) ==
  /\ phase[w] = "idle"
  /\ stopping[w]
  /\ ProcessGone(w)
  /\ UNCHANGED outages

\* SIGKILL, an out-of-memory kill or a power cut.
Crash(w) ==
  /\ phase[w] # "down"
  /\ outages < MaxOutages
  /\ ProcessGone(w)
  /\ outages' = outages + 1

\* The slot is started again, under the same worker_id: serve.py ends with the
\* first worker that dies, and the container restarts them all, in any order.
Restart(w) ==
  /\ phase[w] = "down"
  /\ phase' = [phase EXCEPT ![w] = "idle"]
  /\ UNCHANGED <<queueVars, exec, watch, isolated, stopping, outages, faultVars, pending>>

-----------------------------------------------------------------------------
Execute(j, g) ==
  \/ EnterStage(j, g)
  \/ ConsumeFault(j, g)
  \/ CheckPlan(j, g)
  \/ FaultFires(j, g)
  \/ Finish(j, g)
  \/ Fail(j, g)

MainLoop(w) ==
  \/ \E j \in Jobs : Claim(w, j)
  \/ SweepExhausted(w)
  \/ ObserveCompletion(w)
  \/ ObserveLeaseLost(w)
  \/ Abandon(w)
  \/ Exit(w)
  \/ Restart(w)

Api ==
  \/ \E c \in Clients, j \in Jobs : RetryRead(c, j)
  \/ \E c \in Clients : RetryWrite(c)
  \/ \E j \in Jobs : Cancel(j) \/ DeleteProject(j)
  \/ \E mode \in FaultModes : SetFault(mode)

Next ==
  \/ \E w \in Workers :
       MainLoop(w) \/ Deadline(w) \/ Renew(w) \/ Terminate(w) \/ Crash(w)
  \/ \E j \in Jobs, g \in Generations :
       Execute(j, g) \/ Raise(j, g) \/ FailRaises(j, g)
  \/ \E j \in Jobs : LeaseExpires(j)
  \/ Api

Spec == Init /\ [][Next]_vars

\* No live renewer keeps the lease of j.
Unrenewed(j) ==
  \A w \in Workers :
    ~(/\ phase[w] = "watching"
      /\ ~stopping[w]
      /\ watch[w] = <<j, job[j].generation>>
      /\ Fenced(w, j, job[j].generation)
      /\ Live(j, job[j].generation))

\* Main loops and execution threads keep running, a stopped slot is started
\* again, and a lease that nobody renews runs out.  Nothing is assumed of
\* users, of failures, of the renewer or of the deadline.
Fairness ==
  /\ \A w \in Workers : WF_vars(MainLoop(w))
  /\ \A j \in Jobs, g \in Generations : WF_vars(Execute(j, g))
  /\ \A j \in Jobs : WF_vars(Unrenewed(j) /\ LeaseExpires(j))

FairSpec == Spec /\ Fairness

-----------------------------------------------------------------------------
(* Safety *)

\* The parent row always tells the truth about its job: a Project or a
\* PreviewRender never shows another status than the one its job implies,
\* whichever of claim, _persist, _fail, retry_job and cancel_job ran last.
ParentMirrorsJob ==
  \A j \in Jobs : parent[j] = ParentStatus(j, job[j].status)

\* No job is left where nobody would ever look at it again: a queued job can
\* be claimed, a job offered for retry is accepted by retry_job and then
\* claimed, a running job holds a lease, and one without an owner (abandoned
\* by a stopping worker) holds a lease that has run out.
Attended(row) ==
  /\ row.status = "queued" => row.attempt < row.maxAttempts
  /\ row.status = "failed" /\ row.retryable => row.attempt < row.maxAttempts
  /\ row.status = "running" <=> row.lease # "none"
  /\ row.status = "running" /\ row.owner = NoWorker => row.lease = "expired"

NoStrandedJob == \A j \in Jobs : Attended(job[j])

\* The output rows of a job come from one execution, the last one started,
\* and exist exactly when the job succeeded (a deleted project aside): a
\* late, canceled or superseded execution never publishes.
ResultOfLastExecution ==
  \A j \in Jobs :
    /\ job[j].status = "succeeded" => results[j] = {job[j].generation}
    /\ job[j].status \notin {"succeeded", "deleted"} => results[j] = {}

\* A worker process never has two execution threads alive, watched or
\* detached: the quarantine of _isolate_pipeline keeps the concurrency bound
\* through timeouts, cancellations and lost leases.
OneThreadPerSlot ==
  \A w \in Workers : \A e1, e2 \in Executions :
    /\ Live(e1[1], e1[2]) /\ exec[e1[1]][e1[2]].by = w
    /\ Live(e2[1], e2[2]) /\ exec[e2[1]][e2[2]].by = w
    => e1 = e2

\* A fault armed through the API disturbs at most one execution, however
\* many workers run, retry or recover at that moment.
FaultHitsOnce == hits + (IF fault = "none" THEN 0 ELSE 1) <= armed

\* A success or a cancellation is final: only deleting the project changes
\* the job afterwards, and its output is not touched any more.
FinalStaysFinal ==
  [][\A j \in Jobs : job[j].status \in {"succeeded", "canceled"} =>
       /\ job'[j].status \in {job[j].status, "deleted"}
       /\ results'[j] = results[j]]_vars

\* Progress shown to the user never moves backward, although a recovered or
\* retried execution restarts from the first stage.
ProgressNeverDrops ==
  [][\A j \in Jobs : job'[j].progress >= job[j].progress]_vars

(***************************************************************************)
(* Liveness                                                                *)
(***************************************************************************)
Settled(j) == job[j].status \in {"succeeded", "failed", "canceled", "deleted"}

\* Every job that waits or runs is eventually decided, through crashes,
\* restarts, lost leases and detached threads.
EveryJobSettles == \A j \in Jobs : ~Settled(j) ~> Settled(j)

(***************************************************************************)
(* Refinement                                                              *)
(***************************************************************************)
Durable(j) == INSTANCE DurableJob WITH
  status    <- job[j].status,
  started   <- job[j].generation,
  published <- results[j]

\* Each row of jobs, with the worker pool around it, behaves as the one-job
\* machine of DurableJob.
ImplementsDurableJob ==
  /\ \A j \in Jobs : Durable(j)!Init
  /\ [][\A j \in Jobs : [Durable(j)!Next]_(Durable(j)!vars)]_vars

=============================================================================
