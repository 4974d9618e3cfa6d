# FrameFlow: TLA+ models and proofs

FrameFlow turns speech or text into a list of timed segments and matches each
segment with images and videos of a library. The backend (`backend/app`,
Python, FastAPI + SQLAlchemy over SQLite or PostgreSQL) is a set of processes
that share one database and one data directory: API processes, two core workers
(`worker.py`) and an image worker (`image_worker.py`), started by `serve.py` or
by containers. There is no message broker. Every hand-over is a database row
that one process writes and another polls, which is why this project is about
rows, transactions, leases and fences.

This directory holds the TLA+ modules of the parts whose correctness depends on
that concurrency, the TLC instances that check them, and proofs checked by
TLAPS. `PROJECT.json` maps every definition to the source lines it translates.

## 1. Inventory

| Component | State | Operations | Talks to | What is hard | What makes it correct |
| --- | --- | --- | --- | --- | --- |
| Job queue and core worker: `worker.py`, `services/jobs.py` | rows of `jobs` (status, attempt, generation, lease, progress), the parent `projects` or `preview_renders` row, output rows, `fault_controls`; in each worker a main loop, a renewer and execution threads | claim, sweep, stage, renew, persist, fail, abandon, time out; retry, cancel, arm a fault | API and workers by rows of `jobs`; providers by calls | threads that cannot be killed, lost leases, crashes, cancel and retry racing a result | one result, of the last execution; final states are final; no job stranded; every job is decided |
| Asset library and selections: `services/assets.py`, `services/selections.py` | `assets`, `selections`, `recommendations` | upload, activate, deactivate, delete, select | the worker's matching and persisting stages, rematch, image import | check-then-write under two databases with different locks | a chosen asset stays usable; nothing dangles; the minimum is kept |
| Segments and timeline: `services/segments.py` | `segments` (version, order, timing) | edit, rematch, retime, reorder | library, previews | version checks, several rows changed at once, rematch against a choice | no lost edit; contiguous order; a choice survives a rematch |
| Image generation: `image_worker.py`, `services/image_generations.py` | `image_generations`, marker and draft files | create, claim, submit, publish, retry, cancel, discard, accept, automatic import, clean up | providers that charge per call, library | crash between a paid submission and its result, late results, two ways to import | no second charge for a lost answer; one asset per draft; no draft lost or leaked |
| Asset tagging: `services/asset_tagging.py`, the tagging half of `worker.py` | `tagging_*` columns of `assets` | claim, renew, apply, fall back, retag | shares the slots of the core worker | a late answer after a re-tag or a manual edit, sharing the slot with jobs | only the latest request writes; neither queue starves |
| Previews: `services/previews.py`, `preview.py` | `preview_renders`, video files | request, reuse, invalidate, render, publish | job queue, timeline | a render finishing after the timeline changed; file beside row | a ready preview shows its timeline; no later cleanup takes the file of a ready row |
| Project creation and deletion: `services/projects.py` | `projects`, upload files, `idempotency_key` | create from text or upload, delete | job queue | two requests with one key, files beside rows | one project per key; no file without owner |
| Supervisor: `serve.py` | child processes | start, stop, exit when a child dies | all processes | shutdown order | no service goes on with a dead worker |
| Sign-in, rate limit, HTTP plumbing: `auth.py`, `middleware.py`, `routers/*` | per-process counters, signed cookies | check a request | API | windows of a limiter | out of scope, see section 7 |
| Providers and algorithms: `asr.py`, `llm.py`, `embeddings.py`, `vision.py`, `nlp.py` | none that lasts | transcribe, enhance, rank | worker | timeouts, fallbacks | modelled by the outcomes they hand to the worker |
| Frontend, deployment, evaluation | – | – | API | – | out of scope |

The hazards these components are exposed to, each at its line, are listed in
`PROJECT.json` under `hazards`, with the properties that cover them or the
reason why none does.

## 2. Plan

Written in this order, the most important behaviour first:

1. `DurableJob`: what the queue promises about one job.
2. `JobWorker`: the queue, the workers and the API calls on jobs; it implements
   `DurableJob` for every row. `MCJobWorker`, `JobWorkerProofs`.
3. `AssetSelection`: the library, the selections and the locks of both
   databases; it implements `AtomicLibrary`, in which every request happens at once.
   `MCAssetSelection`, `AssetSelectionProofs`.
4. `ImageGeneration`: the paid queue with its markers, drafts and automatic
   import, and a crash between any two writes; `PaidImage`, what the queue
   promises about one generation, which it implements for every row.
   `MCImageGeneration`, `ImageGenerationProofs`, on top of it `ImageResultProofs`,
   and on top of that `ImageCallProofs`.
5. `AssetTagging`: the tagging queue and the slot that shares it with the jobs.
   `MCAssetTagging`, `AssetTaggingProofs`.
6. `Previews`: the timeline, the fit of a duration, and the previews rendered
   from it. `MCPreviews`, `PreviewsProofs`, and `PreviewFitProofs` on top of it.

What is left, and worth less: idempotent project creation (one unique constraint
inside one transaction), the sliding window of the rate limiter, the shutdown
deadlines of the supervisor. The modules share rows only where section 3 says so;
a product of two of them would check nothing that the shared rows do not already
carry, because every hand-over is a single row.

## 3. Modules and the code

### JobWorker

One step is one database transaction, or one decision of a thread between two of
them. `job[j]` is the row of `jobs`, `parent[j]` the status column of the project
or preview render the job works for, `results[j]` the generations whose output
rows were committed. `exec[j][g]` is the execution thread of generation `g`, with
the point of the pipeline where it stands; `phase`, `watch`, `isolated` and
`stopping` are the fields of one `DurableWorker` process.

| Action | Code |
| --- | --- |
| `Claim`, `SweepExhausted` | `claim`: fail every job whose last attempt lost its lease, then take one claimable job; the sweep commits even when nothing is claimed |
| `EnterStage`, `CheckPlan`, `ConsumeFault`, `FaultFires` | `_stage`, the hash check of `_process_preview`, `_consume_fault`, the `job_fail` fault |
| `Finish` | `_persist`, and the publishing transaction of `_process_preview` |
| `Raise`, `Fail`, `FailRaises` | the exception handlers of the pipelines, `_fail`, and `_fail` raising itself |
| `FenceRaises` (in the actions above) | `_fence` refusing a stale execution |
| `Renew` | `_renew_lease` in the lease thread |
| `ObserveCompletion`, `ObserveLeaseLost`, `Abandon`, `Deadline` | the polling loop of `process`, with `_isolate_pipeline` and `_abandon_execution` |
| `RetryRead`, `RetryWrite`, `Cancel`, `SetFault`, `DeleteProject` | `services/jobs.py`; the cascade of `delete_project` |
| `Terminate`, `Exit`, `Crash`, `Restart`, `LeaseExpires` | signals, process death, the supervisor, time |

`retry_job` is two steps because it reads the row and then runs a conditional
update without locking in between; all other API calls are one transaction with a
lock or one conditional update.

Abstractions: clock values become "lease live or expired" and a deadline that may
pass at any time; the order of claims (`next_run_at`, `created_at`) becomes any
claimable job; provider failures become the five kinds of failure that `_fail` and
`retry_job` tell apart; an exception while `process` sets an execution up is a
`Raise` at its first point followed by `FailRaises`; the renewer's heartbeat rows
and job events are not kept (a job's highest reported progress is the `progress`
column). A forced preview request that re-points a render is in `Previews`. The demo
fault of `set_fault` needs demo mode, which is assumed on.

### AssetSelection

`asset`, `selection` and `candidates` are the rows of `assets`, `selections` and
`recommendations`. A request with checks is two steps, `Begin…` (locks and checks)
and `Commit…` (writes): that is the window in which another request may run. With
SQLite every writer starts with `BEGIN IMMEDIATE`, so `WriteLockFree` admits one
open transaction. With PostgreSQL (READ COMMITTED) a request waits only for rows
locked `FOR UPDATE` (`AssetFree`, `SegmentFree`) and for the referenced asset when
a selection or recommendation is inserted (`Insertable`). `Match` and `Persist`
are two transactions of the worker, with the ranking in between. The refinement of
`AtomicLibrary` forgets the requests and the job: a request takes effect at its commit.
`serial` is the dialect; with PostgreSQL the two checks that no row lock covers, that
enough active assets are left and that a rematch has ranked all of them, are not promised.

Abstractions: a lock and the checks under it are one step, an insert and its
commit are one step; the ranking (`rank_assets_with_trace`) may prefer any assets,
so it is any subset of the right size and any best member of it; an asset's name,
tags and files are left out; an asset identifier is never used twice (UUIDs);
segment versions are in `Previews`. Persisting is one
pipeline job without its fence, which `JobWorker` covers.

### ImageGeneration

`row[g]` is a row of `image_generations` without its texts; its lease is "none",
"live" or "expired". `staging[g]` holds the executions that left a submitted and a
ready marker in the staging directory, `drafts[g]` the executions whose draft file
is on disk, `work[w]` where the image worker stands. A step is one transaction,
one file operation or one message of the provider.

| Action | Code |
| --- | --- |
| `Create`, `Retry`, `Cancel`, `Discard`, `Accept`, `DeleteAsset`, `DeleteProject` | `services/image_generations.py`, and what deleting an asset or a project does to generations |
| `Claim`, `FindResult` | `claim` and `_snapshot`: pass over hopeless rows, take one, look for a stored result |
| `ConfirmOwnership`, `WriteMarker`, `Send`, `AnswerImage`, `AnswerFailure`, `PersistReady`, `WriteDraft` | `process` around the one paid call |
| `ApplySuccess`, `AfterSuccess`, `AfterFenced`, `ApplyFailure`, `Unexpected` | publication, a fenced result, a failure, an exception inside `process` |
| `ClaimImport`, `AutoAccept`, `DeferImport` | automatic import |
| `DiscardExpired`, `FindStagingOrphans`, `CleanStaging`, `CleanOutput` | retention and the two sweeps; the staging sweep reads rows and deletes later |
| `RenewLease`, `LeaseExpires`, `RetentionEnds`, `Crash` | the lease thread, time, process death |

Two histories make the properties statable: `owed` (the last call may have been
charged and nobody has agreed to another one) and `imports`. They also make the
refinement of `PaidImage`: `Outcome` is what the owner sees of the row's status, draft
and discard mark, and `Account` is "owed", "sending" (an execution has passed
`ConfirmOwnership` and has not called yet) or "free". A file deleted after
a commit may be left behind, because the process can end first and `unlink`
failures are only logged (`StagingRemoved`, `DraftRemoved`).

Abstractions: creation is one step under the write lock, and the replay of an
Idempotency-Key leaves the row as it is; the daily limit and the times at which a
retry or a deferred import is due are left out (they only delay); which segment an
accepted image is selected for is part of `AssetSelection`; `attempt` in the fence
is implied by `generation` and not compared a second time; a crash is followed by
a restart under the same worker name; the orphan sweep looks only at drafts older
than five minutes, and an execution that is about to publish wrote its draft
moments ago (`BeingPublished`).

### AssetTagging

`asset[a]` holds the `tagging_*` columns, how often the asset was renamed, and
whether its tags and keywords are empty, a person's or generated. `slot[w]` is the
main loop of a worker slot, `threads` the live tagging threads, `isolated` and
`detached` the claims and jobs in `_timed_out_pipelines`.

| Action | Code |
| --- | --- |
| `Upload`, `Patch`, `Retag`, `Delete` | `create_asset`, `patch_asset`, `delete_asset` in `services/assets.py`, and `request_asset_retag` |
| `ClaimTagging`, `ClaimJob`, `LeaveJob`, `JobThreadEnds` | `run_once`, with the alternating preference; `claim_asset_tagging` |
| `Read`, `Apply`, `ApplyFails` | the thread: `asset_tagging_snapshot`, `apply_asset_tagging_outcome`, and an exception in it |
| `Completed`, `LeaseLost`, `Deadline`, `Rescue`, `Abandon`, `Exit` | `process_asset_tagging`: the poll, the hard timeout, `_complete_asset_tagging_locally`, the slot given up |
| `RenewLease`, `LeaseExpires`, `Crash` | lease thread, time, process death |

Of the job queue only "a job may always be waiting" is kept, which is the worst
case for tagging. What the tags say is left out; that some tags are always reached
(the fallback to rules) is in `Applied`.

### Previews

`timeline` is the ordered list of segments with text, manual duration and version;
`preview` maps the fingerprint of a timeline to its row of `preview_renders`;
`files` maps the fingerprint that was rendered to the execution that moved the
video into place; `work[w]` is an execution.

| Action | Code |
| --- | --- |
| `Reorder`, `PatchText`, `PatchTiming`, `RestoreAuto`, `Fit` | `services/segments.py`, `services/previews.py`: order, text, timing, and the allocation of a target duration |
| `Create`, `Retry`, `Cancel`, `DeleteProject` | `create_preview_job` with reuse and force, `retry_job`, `cancel_job`, `delete_project` |
| `Claim`, `GiveUp`, `CheckPlan`, `Render` | `claim`, its sweep, and `_process_preview` up to the video |
| `Publish`, `PublishLost`, `FailPublish` | the last transaction, a commit that fails, and the failure that is recorded after it |
| `Compare`, `Unlink`, `MoveRaced` | `cleanup_failed_publish` after the rollback: the look at the file, its removal, and a removal that hits an execution between its move and its own `stat` |
| `RenewLease`, `LeaseExpires`, `Crash` | lease thread, time, process death |

`Bisections`, `Allocated` and their helpers are the bisection of
`allocate_timeline_durations`: `Bisections` is the set of the results that the bisection may
end in, ties that depend on floating-point rounding included; the largest remainders
are then distributed exactly.

Abstractions: a fingerprint is the timeline it was computed from; the chosen
assets, which the code hashes too, act like one more edit and belong to
`AssetSelection`; for a preview
job the execution generation equals the attempt; a dependency failure that raises
`max_attempts` is in `JobWorker`. `_fence` is an `UPDATE` that takes SQLite's write
lock, so moving the file and committing is one step, or one step that ends in a
rollback (`PublishLost`). Only a cleanup touches the file without that lock. It
compares and unlinks in two steps; an unlink that falls between the other execution's
move and its commit either makes its `stat` fail (`MoveRaced`) or has the effect of an
unlink after the commit.

## 4. Runs

| Run | Instance | Shows |
| --- | --- | --- |
| `job_pool` | 1 pipeline job of 2 attempts, 2 workers, 2 retry requests, 2 outages, 3 executions | types, `ParentMirrorsJob`, `NoStrandedJob`, `ResultOfLastExecution`, `FinalStaysFinal`, `ProgressNeverDrops` |
| `job_kinds` | a pipeline and a preview job of 1 attempt, 2 workers, 1 outage, 2 executions each | `OneThreadPerSlot`; every row implements `DurableJob` |
| `job_fault` | 1 job, 2 workers, 1 retry request, 2 armed faults, 2 executions | `FaultHitsOnce` |
| `job_liveness` | 1 job, 2 workers, 1 outage, fairness | `EveryJobSettles` |
| `asset_selection` | 2 built-in and 2 other assets, 2 segments, 2 requests, both databases, minimum 2, 3 candidates | types, `ChosenAssetUsable`, `SelectionBacked`, `MinimumKeptBySQLite`, `ChoiceSurvivesRematch`; the library implements `AtomicLibrary` |
| `asset_selection_active` | 1 segment, SQLite; a violation | a default selection can be inactive |
| `asset_minimum` | 1 segment, PostgreSQL; a violation | the minimum can be undercut |
| `image_generation` | 1 generation, 1 worker, 2 attempts and a hard limit of 3, 2 crashes or exceptions, 1 unreadable result, fairness | `NoSilentRepeat`, `CallsWithinCap`, `ImportedOnce`, `DraftOnDisk`, `LateResultIgnored`, `PaidResultKept`; every row implements `PaidImage`; `EveryRequestSettles`, `AutoImportEnds`, `FilesReclaimed` |
| `image_unreadable` | the same with 2 unreadable results; a violation | a paid call can be repeated unasked |
| `asset_tagging` | 1 asset, 2 slots, 2 attempts, 2 requests, 1 crash or failing write, fairness | `TaggedCompletely`, `ReadsPresentName`, `OneWriter`, `OneExecutionPerSlot`, `ManualTagsKept`; `EveryTaskEnds` |
| `previews` | 3 segments, 2 preview jobs, 2 workers, three budgets of edits, fits, jobs and outages | `SafeFileStays`, `ReadyShowsItsTimeline`, `RenderKeepsItsRow`, `RowMirrorsJob`, `FitIsExact` |
| `preview_cleanup` | the same; a violation | a cleanup can unlink the file of a ready preview |

Bounds. Three executions of one job include every overlap that matters: one that
is detached, one that replaced it and one that a retry starts; attempts of 2
reach both "an attempt is left" and "the last attempt". Two workers and two retry
requests are the smallest numbers that interfere, and every invariant speaks of
one job and at most two executions. Two outages are a crash of one worker and the SIGTERM
that `serve.py` then sends to the other; `job_kinds` and `job_liveness` have one.
`MaxGeneration`, `MaxOutages` and `MaxFaults`
bound counters the code does not bound. `MaxGeneration` is applied where a user
asks for a retry (`RetryRead`); the guard in `Claim` therefore never stops a
queued job. In the library two requests are enough for every conflict of two
transactions, and the minimum of 3 and the limit of 6 of the code are scaled to 2
and 3 so that both are reached with four assets.

`serve.py` (93-110) starts exactly one image worker, and DEPLOYMENT.md:234 and
docs/IMAGE_GENERATION.md:102 prescribe one, which is why the instance has one. It
matters: with two workers TLC finds `NoSilentRepeat` and `CallsWithinCap` violated in
13 steps. One worker confirms its ownership, its lease expires, the other one claims
the row while there is no marker yet, and both write a marker and send. The other
safety properties of the run are proved for any number of workers.
One generation suffices because the properties speak of one row and no request
couples two of them but the limit of pending ones. Two crashes let a recovered
execution die again, an attempt limit of 2 under a hard limit of 3 lets a person's
retry raise the limit and hit the cap. In the tagging queue, two slots and one
asset are the smallest instance in which a claim is lost and taken again while the
first thread lives; two requests let an edit follow a retag. For previews, three
clips are the fewest for which one is clamped low, one high and one is free at the
same time; two jobs let a forced request re-point a row while the old job runs, and
the budgets (`FitsOrRenders` in `MCPreviews`) give behaviours with two fits, with two
edits around one render, and with two renders, an edit and a death or lost commit.
`MaxCrashes`, `MaxReadFaults`, `MaxRequests`, `MaxOutages` and `Budgets` bound what
the code does not bound.

The theorems of section 5 have none of these bounds: each is any natural number. The
one exception is `ImageCallProofs`, which assumes one worker (`OneWorker`) and
`MaxReadFaults <= 1`, because both are needed: see above, and the run
`image_unreadable`.

`CHECK_DEADLOCK FALSE` is set because the system may stop: all jobs decided, all
outages spent, nobody presses a button.

Fairness (`Fairness` in `JobWorker`): every main loop and every execution thread
keeps taking steps (weak fairness; the loops sleep for a bounded time and the
operating system schedules the threads), a stopped slot is started again (`serve.py` stops the
service when a worker dies, and the container, `restart: unless-stopped` in
`docker-compose.yml`, starts it again), and a lease
that nobody renews runs out (time passes). Nothing is assumed of users, of
failures, of the renewer or of the deadline.

`Fairness` of `ImageGeneration`: `run_once` of the image worker cleans every
minute, imports, and claims, in turn. Each of these is reached again and again but
not continuously enabled, because the worker is busy in between: strong fairness
for `TakeWork`, `ClaimImport` and `DiscardExpired`. A step of an execution that has
begun is taken (weak fairness for `Execute`), and leases run out. `AssetTagging`
assumes weak fairness of the main loop, of each thread, and of the end of a
detached job thread (its provider calls have timeouts), and that leases run out.
`ClaimJob` is part of the loop: jobs may arrive without end, and only the alternation
in `run_once` keeps tagging alive.

What the violations mean:

- `asset_selection_active`: `selections.py:17` names the invariant that every
  selection references an active asset. The default selections written by
  `_persist` (`worker.py:743`) use assets read two transactions earlier.
- `asset_minimum`: API.md:259 promises a conflict instead of fewer than 3 active
  assets. With PostgreSQL `patch_asset` (`assets.py:245`) counts rows it has not
  locked. With SQLite the promise holds (`MinimumKeptBySQLite`, proved).
- `image_unreadable`: docs/IMAGE_GENERATION.md:120 says that a submitted request
  without a result stops and asks a person. The claim (`image_worker.py:574`) looks
  for the marker of the row's current execution only; an execution that reused a
  stored result has none, so that when it dies and the older result then cannot be
  read twice, the same attempt is sent again. It takes a crash and two failing reads;
  with one (`image_generation`) the promise holds.
- `preview_cleanup`: the comment at `worker.py:926` says that a rollback may only
  remove the file that its own execution moved. The `stat` (930) and the `unlink`
  (940) are two operations without a lock: an execution that recovers the job, or one
  of a newer job of the same timeline, can publish in between, and its row is then
  ready without a file. The next request for that preview finds the file missing and renders it
  again (`Valid` in `Create`).

## 5. Proofs

All proofs are for arbitrary sets of jobs, workers, clients, assets, segments,
requests and generations and arbitrary limits, from the assumptions on the
constants that each module names (`ConstantsAssumption`, `LibraryAssumption`,
`ImageAssumption`, `TaggingAssumption`, `PreviewAssumption`).

`JobWorkerProofs`. `TypeCorrect` is inductive alone. For the rest, the lemma
`EveryRowStep` shows that whatever step the system takes, each row makes one of
ten moves (`RowStep`): untouched, held (its stage or lease renewed by the owner),
lapsed (expired or abandoned), claimed, swept, failed by its owner, finished,
requeued by a retry, canceled, removed; each with the facts its transaction
checked. The invariants are then about a single row (`JobConsistent`), and need two
facts about the rest of the system:

- `PendingCanRun`: a retry requeues the row with the limit it read earlier, so
  `NoStrandedJob` needs that what an open retry has seen leaves an attempt to spend;
  the conditional update compares the attempt, so the row still agrees with it.
- `StartedByWorker`: a live thread was started by a worker. A thread that passes the
  fence therefore belongs to the row's owner, and a row that a stopping worker gave
  up (owner empty) is never renewed by anybody.
- `QueueInv` is the conjunction; `QueueCorrect` proves it inductive, and `Finality`,
  `Progress` and `Refinement` follow from it step by step. The refinement maps the
  row's status, generation counter and published set to `DurableJob`.
- `FaultOnce` needs the types only.
- `SlotsRunOneThread` needs `SlotWatched`: a live thread of a slot is the one that is
  watched, or is isolated, or the slot is stopping; and a slot that claims has neither.

`AssetSelectionProofs`. `LocksExclusive` (two open transactions never hold the same
asset) makes `HeldStillTrue` inductive: the asset of an open selection is still
active, the asset of an open deactivation or deletion is still unused. At the
commit these give `ChosenStaysUsable` and `SelectionsBacked`. `ChoiceKept` follows
from the types and the case analysis. `MinimumKept` adds, for SQLite, that there is
one writer (`OneWriter`) and that a removal has counted more than the minimum
(`RemovalCounted`). `LibraryIsAtomic` is the conclusion: by `HeldStillTrue`,
`RemovalCounted` and `RequestsCurrent` (with SQLite nobody changes the active assets that
a rematch has read) every commit is a step of `AtomicLibrary`, and every other step is one
that it cannot see.

`ImageGenerationProofs`. The invariant `DraftInv` is about `execution_generation`:
an execution that has not written its outcome carries a number that is at most its
row's (`ExecutionsFenced`), that no other execution of the row carries
(`ExecutionsDiffer`), and that equals the row's only while the row runs under the
lease of its worker. With `WrittenDrafts` (the file is there once its execution has
written it) the one draft a row can refer to is the file of its last execution
(`DraftsReferred`), so `DraftsStayOnDisk`; `OutcomesFinal` gives `ImportsOnce` and,
with the case analysis of the steps, `LateResultsIgnored`.

`ImageResultProofs` extends it to `ResultInv` for `PaidResultsKept`. A directory is
emptied by a request that settles the row in the same step, by an execution whose
own result was never stored (`UnpaidStoredNothing`, from `ExecutionsDiffer` and
`ReadyPast`: stored results carry past numbers), and by a sweep that read the rows
some steps ago. For the sweep the proof shows that what made a staging directory
superfluous is never taken back: `NoWorse` holds of every row in every step
(`RowsNoWorse`), hence `SweepsDoomed` is inductive.

`ImageCallProofs` extends it to `CallInv`, under the assumptions `OneWorker` and
`MaxReadFaults <= 1`. For a running generation either the attempt it is in has not
been sent and nothing is owed (`Unasked`), or the marker of its last execution or a
stored result tells that it was sent (`Answerable`). An execution comes to the call
only in the first case (`Informed` says what it knows at each point), and the marker it
writes before the call makes the second one true, so that a recovery after a crash
finds the evidence. From it follow `CallsStayWithinCap` and `NeverRepeatedSilently`.

`Refinement` of the same module shows that every row implements `PaidImage`. It needs
in addition that a stored result was paid for and that a call on its way is owed
(`PromiseInv`). `ConfirmOwnership` is the abstract `Decide`; `Send` is `Send`; a death
before the call, or a refusal of the provider, is `Waive`; publication is `Deliver`
and every failure is `GiveUp`, and neither happens while a call is about to go out, because
the one worker that could do it is the one that is about to call. Cancellation,
discard, expiry and deletion are `Withdraw`, which may come at any time.

`AssetTaggingProofs`. `TaggingInv` consists of the types, `Watched` (for each slot:
a live thread is the one its loop watches, or isolated, and a slot with an isolated
thread or a detached job serves nothing), `ClaimsPast` (nobody holds a claim newer than
its row), `ReadsPresentName`, and `Consistent` (a replacement was asked for, an ended
task has left tags, an asset that was never uploaded has no claims). `WritersUnique` follows from `Watched`, because two
threads that own one claim would be threads of one slot. `ReadsPresentName` is in the
invariant itself: a rename during a task changes the claim's generation.

`PreviewsProofs`. `PreviewInv` consists of the types of jobs, rows and executions,
`OneRowPerJob`, `RowMirrorsJob`, `Started` (a worker holds only generations that
were handed out), `ExecutionsDiffer`, `PlanKeepsRow` (while an execution owns its
job, the row of its plan is its job's) and `ReadyNotFound` (an execution that has
lost its commit does not find its own file under the name of a ready row).
`SafeFilesStay` needs the last one, and `ReadyNotFound` needs `ExecutionsDiffer`. That
every ready preview has its file is false, so it is no theorem: `SafeFileStays` says
that it keeps a file which nobody had decided to unlink, and the run
`preview_cleanup` shows the loss of one that was published after the comparison.

`PreviewFitProofs` proves `FitIsExact` for any clips, weights, bounds and targets, and
with it the types of `Previews` (`ShapeInv`; a fit gives durations because it stays
within the bounds). Sums over sets are recursive, and the library's induction rules
take an operator, which the provers cannot instantiate. Induction is therefore done on families
of sets: `FiniteSetInduction` says that a family that contains the empty set and grows
by one element contains every finite set, and follows from the least element of a
set of numbers. With it the lemmas on sums (`SumUnion`, `SumPlus`, `SumsTight`) need no
operator parameter. `AllocatedSum`, `AllocatedWithin` and `AllocatedMonotone` are the
three promises on a fit: the exact target, the bounds, no more for a lighter clip.
`AllocatedOnce` shows that the result does not depend on which scale the
bisection ends with, and `BisectionExists` that it ends with one for every target
between the sums of the bounds.

## 6. Only model-checked

- Liveness (`EveryJobSettles`, `EveryRequestSettles`, `AutoImportEnds`,
  `FilesReclaimed`, `EveryTaskEnds`): fairness and `ENABLED` are out of the prover's
  reach.
- The four violations.

Every invariant and action property of the passing runs is stated by a theorem. Of
`NoSilentRepeat`, `CallsWithinCap` and `ImplementsPaidImage` the theorem covers one
worker and at most one unreadable result, which is where they hold.

## 7. Not modelled

Idempotent creation of projects is decided by a primary key inside one transaction
and was left out; so are the daily limit of image generations (a count under the
same lock as the pending limit, which is modelled) and the life of uploaded files.
Provider protocols, ffmpeg, ranking scores, text processing, serialization,
configuration, health and audit are I/O, formatting or sequential computations
without shared state. Sign-in, the rate limiter, the frontend and the deployment
scripts are outside the protocols modelled here.

## 8. Running

    tlc -workers 2 -config MCJobPool.cfg MCJobWorker
    tlapm JobWorkerProofs.tla

and so on for every configuration and every `*Proofs` module.
