------------------------------- MODULE Previews -------------------------------
(***************************************************************************)
(* The timeline of a project and the preview videos rendered from it:      *)
(* services/previews.py, the requests of services/segments.py that change  *)
(* the timeline, and worker.py's _process_preview.                         *)
(*                                                                         *)
(* A preview is found by the fingerprint of the timeline it was asked for, *)
(* and its file is named after the fingerprint of the timeline that was    *)
(* rendered.  A request is one transaction under the write lock; a render  *)
(* runs outside of any, and its last transaction moves the file into place *)
(* while it holds the lock that its fence took.  When that transaction is  *)
(* rolled back, the lock is gone, and the execution looks at the file and  *)
(* unlinks it in two steps.  Of the life of a job, which JobWorker         *)
(* describes, what decides whose file and row it is, is kept.              *)
(***************************************************************************)
EXTENDS Integers, FiniteSets, Functions

CONSTANTS
  Segments,
  Texts,       \* texts a segment may have
  TextLength,  \* [Texts -> number of characters]
  AutoFrames,  \* [Texts -> frames a text takes], auto_duration_ms
  MinFrames,   \* SEGMENT_MIN_DURATION_FRAMES (25)
  MaxFrames,   \* SEGMENT_MAX_DURATION_FRAMES (750)
  MaxTotal,    \* PREVIEW_MAX_SECONDS in frames
  Jobs,        \* preview jobs
  Workers,
  NoWorker,    \* lease_owner IS NULL
  Attempts,    \* max_attempts of a preview job (2)
  StartTexts,  \* bound: texts of a new project
  Timings,     \* bound: durations a person gives a clip
  Budgets      \* bounds: edits, fits, preview jobs, and deaths of a worker or
               \* commits that fail, which a behaviour may have

ASSUME PreviewAssumption ==
  /\ IsFiniteSet(Segments) /\ Segments # {}
  /\ TextLength \in [Texts -> Nat \ {0}]
  /\ AutoFrames \in [Texts -> MinFrames..MaxFrames]
  /\ MinFrames \in Nat \ {0} /\ MaxFrames \in Nat /\ MinFrames <= MaxFrames
  /\ MaxTotal \in Nat
  /\ NoWorker \notin Workers
  /\ Attempts \in Nat \ {0}
  /\ StartTexts \subseteq [Segments -> Texts]
  /\ Timings \subseteq MinFrames..MaxFrames
  /\ Budgets \subseteq [edits: Nat, fits: Nat, jobs: Nat, outages: Nat]

VARIABLES
  timeline,  \* the segments of the project
  fitted,    \* history: the last fit, if nothing changed since
  deleted,   \* the project is deleted
  job,       \* [Jobs -> row of jobs]
  preview,   \* fingerprint -> row of preview_renders
  files,     \* fingerprint of what was rendered -> who moved the file into place
  work,      \* [Workers -> what its thread does]
  left       \* what is left of the behaviour's budget

vars == <<timeline, fitted, deleted, job, preview, files, work, left>>

\* f, with v at x.
Put(f, x, v) == [y \in DOMAIN f \union {x} |-> IF y = x THEN v ELSE f[y]]

Spend(what) == left[what] > 0 /\ left' = [left EXCEPT ![what] = @ - 1]

Positions == 1..Cardinality(Segments)

\* manual: render_duration_ms in frames, NaturalLength when it is NULL.
NaturalLength == 0
Orders == Injection(Positions, Segments)
Timeline == [order: Orders,
             text: [Segments -> Texts],
             manual: [Segments -> {NaturalLength} \union MinFrames..MaxFrames],
             version: [Segments -> Nat]]

NoFit == [target |-> 0]
NoPath == [path |-> "none"]
NoRow == <<>>

JobRow == [status: {"absent", "queued", "running", "succeeded", "failed", "canceled", "deleted"},
           generation: 0..Attempts, owner: Workers \union {NoWorker}, lapsed: BOOLEAN,
           retryable: BOOLEAN]

Idle == [at |-> "idle"]
Fingerprints == [order: Orders, text: [Segments -> Texts], version: [Segments -> Nat],
                 frames: [Segments -> MinFrames..MaxFrames]]
PreviewRow == [job: Jobs, status: {"queued", "succeeded", "failed", "canceled"},
               path: Fingerprints \union {NoPath}]

\* An execution of a job; once it is planned, of a timeline.
Execution ==
  [at: {"planning"}, job: Jobs, generation: 1..Attempts]
  \union [at: {"rendering", "rendered", "rolledBack", "cleaning", "failing"}, job: Jobs,
          generation: 1..Attempts, plan: Fingerprints]

TypeOK ==
  /\ timeline \in Timeline
  /\ deleted \in BOOLEAN
  /\ job \in [Jobs -> JobRow]
  /\ \A j \in Jobs : job[j].owner # NoWorker <=> job[j].status = "running"
  /\ DOMAIN preview \subseteq Fingerprints
  /\ \A h \in DOMAIN preview : preview[h] \in PreviewRow
  /\ DOMAIN files \subseteq Fingerprints
  /\ \A h \in DOMAIN files : files[h] \in [job: Jobs, generation: 1..Attempts]
  /\ \A w \in Workers : work[w] = Idle \/ work[w] \in Execution
  /\ left \in [edits: Nat, fits: Nat, jobs: Nat, outages: Nat]

-----------------------------------------------------------------------------
(* The timeline *)

\* effective_duration_ms
Frames(t, s) == IF t.manual[s] = NaturalLength THEN AutoFrames[t.text[s]] ELSE t.manual[s]

TotalFrames(t) == SumFunction([s \in Segments |-> Frames(t, s)])

\* The hash that build_preview_plan computes; the chosen assets, which the code
\* adds, change as the order does: without the version of a segment.
Fingerprint(t) ==
  [order |-> t.order, text |-> t.text, version |-> t.version,
   frames |-> [s \in Segments |-> Frames(t, s)]]

-----------------------------------------------------------------------------
(* allocate_timeline_durations, over positions and in frames *)

\* What is left for the clips that are not at a bound, and their weight.
Free(w, b) == DOMAIN w \ (b.low \union b.high)
Remaining(target, b) == target - MinFrames * Cardinality(b.low) - MaxFrames * Cardinality(b.high)

\* The share of clip i is Remaining * w[i] / weight: compared without division.
Below(w, target, b) ==
  {i \in Free(w, b) : Remaining(target, b) * w[i] < MinFrames * SumFunctionOnSet(w, Free(w, b))}
Above(w, target, b) ==
  {i \in Free(w, b) : Remaining(target, b) * w[i] > MaxFrames * SumFunctionOnSet(w, Free(w, b))}

\* The bounded clips that the bisection of the scale finds.  Rounding decides
\* only for a clip whose share is a bound exactly, and either way.
Bisections(w, target) ==
  {b \in [low: SUBSET DOMAIN w, high: SUBSET DOMAIN w] :
     LET free  == Free(w, b)
         rest  == Remaining(target, b)
         total == SumFunctionOnSet(w, free)
     IN  /\ b.low \intersect b.high = {}
         /\ IF free = {}
            THEN rest = 0 /\ \A i \in b.low, k \in b.high : MaxFrames * w[i] <= MinFrames * w[k]
            ELSE /\ \A i \in b.low : rest * w[i] <= MinFrames * total
                 /\ \A i \in b.high : rest * w[i] >= MaxFrames * total
                 /\ Below(w, target, b) = {} /\ Above(w, target, b) = {}}

\* The exact correction, until no share exceeds a bound.
Corrected(w, target, b) ==
  LET round[n \in 0..Cardinality(DOMAIN w)] ==
        IF n = 0 THEN b
        ELSE [low  |-> round[n - 1].low \union Below(w, target, round[n - 1]),
              high |-> round[n - 1].high \union Above(w, target, round[n - 1])]
  IN  round[Cardinality(DOMAIN w)]

Floors(w, target, b) ==
  [i \in Free(w, b) |-> (Remaining(target, b) * w[i]) \div SumFunctionOnSet(w, Free(w, b))]
Remainder(w, target, b, i) == (Remaining(target, b) * w[i]) % SumFunctionOnSet(w, Free(w, b))

\* Weakened form: the frames lost by rounding down are not given to anybody.
RoundedDown(w, target, b) == {}

\* The largest remainders get the frames lost by rounding down, the first
\* positions first.
RoundedUp(w, target, b) ==
  LET free == Free(w, b)
      lost == Remaining(target, b) - SumFunction(Floors(w, target, b))
      before(k, i) == LET rk == Remainder(w, target, b, k)
                          ri == Remainder(w, target, b, i)
                      IN  rk > ri \/ (rk = ri /\ k < i)
  IN  {i \in free : Cardinality({k \in free : before(k, i)}) < lost}

Allocated(w, target, bisected) ==
  LET b == Corrected(w, target, bisected)
  IN  [i \in DOMAIN w |->
         CASE i \in b.low  -> MinFrames
           [] i \in b.high -> MaxFrames
           [] OTHER -> Floors(w, target, b)[i] + (IF i \in RoundedUp(w, target, b) THEN 1 ELSE 0)]

-----------------------------------------------------------------------------
(* Changes of the timeline *)

Edited(t) ==
  /\ timeline' = t
  /\ fitted' = NoFit
  /\ UNCHANGED <<deleted, job, preview, files, work>>

\* reorder_segments does not touch the versions.
Reorder(o) ==
  /\ ~deleted /\ Spend("edits")
  /\ Edited([timeline EXCEPT !.order = o])

\* patch_segment, when the version is the one the user saw.
PatchText(s, x) ==
  /\ ~deleted /\ Spend("edits")
  /\ Edited([timeline EXCEPT !.text[s] = x, !.version[s] = @ + 1])

\* The segments whose duration changes get a new version.
Timed(t, manual) ==
  [t EXCEPT !.manual = manual,
            !.version = [s \in Segments |-> @[s] + IF t.manual[s] = manual[s] THEN 0 ELSE 1]]

\* patch_segment_timing
PatchTiming(s, frames) ==
  LET t == Timed(timeline, [timeline.manual EXCEPT ![s] = frames])
  IN  /\ ~deleted /\ Spend("edits")
      /\ TotalFrames(t) <= MaxTotal
      /\ Edited(t)

\* update_timeline_timing: restore_auto
RestoreAuto ==
  LET t == Timed(timeline, [s \in Segments |-> NaturalLength])
  IN  /\ ~deleted /\ Spend("edits")
      /\ TotalFrames(t) <= MaxTotal
      /\ Edited(t)

Feasible == Cardinality(Segments) * MinFrames .. Cardinality(Segments) * MaxFrames

PositionOf(s) == CHOOSE i \in Positions : timeline.order[i] = s

Weights(strategy) ==
  [i \in Positions |->
     LET s == timeline.order[i]
     IN  CASE strategy = "current"     -> Frames(timeline, s)
           [] strategy = "equal"       -> 1
           [] strategy = "text_length" -> TextLength[timeline.text[s]]]

\* update_timeline_timing: fit
Fit(strategy, target) ==
  LET w == Weights(strategy) IN
  /\ ~deleted /\ Spend("fits")
  /\ target \in Feasible
  /\ target <= MaxTotal
  /\ \E b \in Bisections(w, target) :
       LET d == Allocated(w, target, b)
       IN  timeline' = Timed(timeline, [s \in Segments |-> d[PositionOf(s)]])
  /\ fitted' = [target |-> target, weights |-> w]
  /\ UNCHANGED <<deleted, job, preview, files, work>>

-----------------------------------------------------------------------------
(* Rows *)

Active(j) == job[j].status \in {"queued", "running"}

Owns(w) ==
  LET r == job[work[w].job]
  IN  r.status = "running" /\ r.owner = w /\ r.generation = work[w].generation

\* Weakened form: the row is not looked up by the job.
AnyRow(j) == DOMAIN preview

\* The preview a job belongs to: a later job may have taken its row.
RowsOf(j) == {h \in DOMAIN preview : preview[h].job = j}

WithStatus(j, status) ==
  [h \in DOMAIN preview |->
     IF h \in RowsOf(j) THEN [preview[h] EXCEPT !.status = status] ELSE preview[h]]

\* Weakened form: the lease of a job that ended is kept.
EndedHeld(j, status, retryable) ==
  [job EXCEPT ![j].status = status, ![j].retryable = retryable]

Ended(j, status, retryable) ==
  [job EXCEPT ![j] = [status |-> status, generation |-> @.generation, owner |-> NoWorker,
                      lapsed |-> FALSE, retryable |-> retryable]]

\* Weakened form: force starts another render beside the active one.
ForcedAlways(h) == FALSE

\* The row's job is active: the request is answered with it, forced or not.
BeingRendered(h) ==
  h \in DOMAIN preview /\ Active(preview[h].job)

Valid(h) ==
  /\ h \in DOMAIN preview
  /\ preview[h].status = "succeeded" /\ preview[h].path \in DOMAIN files

-----------------------------------------------------------------------------
(* Requests about previews *)

\* create_preview_job
Create(j, force) ==
  LET h == Fingerprint(timeline) IN
  /\ ~deleted
  /\ job[j].status = "absent" /\ Spend("jobs")
  /\ TotalFrames(timeline) <= MaxTotal
  /\ ~BeingRendered(h)
  /\ force \/ ~Valid(h)
  /\ job' = [job EXCEPT ![j].status = "queued"]
  /\ preview' = Put(preview, h, [job |-> j, status |-> "queued", path |-> NoPath])
  /\ UNCHANGED <<timeline, fitted, deleted, files, work>>

\* retry_job
Retry(j) ==
  /\ job[j].status = "failed" /\ job[j].retryable
  /\ job[j].generation < Attempts
  /\ job' = [job EXCEPT ![j].status = "queued"]
  /\ preview' = WithStatus(j, "queued")
  /\ UNCHANGED <<timeline, fitted, deleted, files, work, left>>

\* cancel_job
Cancel(j) ==
  /\ Active(j)
  /\ job' = Ended(j, "canceled", FALSE)
  /\ preview' = WithStatus(j, "canceled")
  /\ UNCHANGED <<timeline, fitted, deleted, files, work, left>>

\* delete_project; the files of its rows are deleted after the commit, or stay.
DeleteProject ==
  /\ ~deleted
  /\ deleted' = TRUE
  /\ job' = [j \in Jobs |-> IF job[j].status = "absent" THEN job[j]
                            ELSE Ended(j, "deleted", FALSE)[j]]
  /\ preview' = NoRow
  /\ LET referred == {preview[h].path : h \in DOMAIN preview}
     IN  files' \in {files, Restrict(files, DOMAIN files \ referred)}
  /\ UNCHANGED <<timeline, fitted, work, left>>

-----------------------------------------------------------------------------
(* One execution: claim and _process_preview *)

Lapsed(j) == job[j].status = "running" /\ job[j].lapsed

Claim(w, j) ==
  /\ work[w] = Idle
  /\ job[j].status = "queued" \/ Lapsed(j)
  /\ job[j].generation < Attempts
  /\ job' = [job EXCEPT ![j] = [status |-> "running", generation |-> @.generation + 1,
                                owner |-> w, lapsed |-> FALSE, retryable |-> @.retryable]]
  /\ work' = [work EXCEPT ![w] =
                [at |-> "planning", job |-> j, generation |-> job[j].generation + 1]]
  /\ UNCHANGED <<timeline, fitted, deleted, preview, files, left>>

\* claim fails what died at its last attempt.
GiveUp(w, j) ==
  /\ work[w] = Idle
  /\ Lapsed(j) /\ job[j].generation >= Attempts
  /\ job' = Ended(j, "failed", FALSE)
  /\ preview' = WithStatus(j, "failed")
  /\ UNCHANGED <<timeline, fitted, deleted, files, work, left>>

Leaves(w) == work' = [work EXCEPT ![w] = Idle]

\* _fail, which does nothing for an execution that lost its job.
Fails(w, retryable) ==
  LET j == work[w].job IN
  /\ IF Owns(w)
     THEN /\ job' = Ended(j, "failed", retryable /\ job[j].generation < Attempts)
          /\ preview' = WithStatus(j, "failed")
     ELSE UNCHANGED <<job, preview>>
  /\ Leaves(w)

\* Weakened form: whatever the timeline is now is rendered.
PlanUnchecked(w) == RowsOf(work[w].job) # {}

\* The row is found and the timeline is still the one it was asked for.
PlanHolds(w) == \E h \in RowsOf(work[w].job) : h = Fingerprint(timeline)

CheckPlan(w) ==
  /\ work[w].at = "planning"
  /\ \/ /\ Owns(w) /\ PlanHolds(w)
        /\ work' = [work EXCEPT ![w] =
                      [at |-> "rendering", job |-> @.job, generation |-> @.generation,
                       plan |-> Fingerprint(timeline)]]
        /\ UNCHANGED <<job, preview>>
     \/ /\ ~(Owns(w) /\ PlanHolds(w))
        /\ Fails(w, FALSE)
  /\ UNCHANGED <<timeline, fitted, deleted, files, left>>

\* render_preview writes a file of this execution's own.
Render(w) ==
  /\ work[w].at = "rendering"
  /\ \/ /\ work' = [work EXCEPT ![w].at = "rendered"]
        /\ UNCHANGED <<job, preview>>
     \/ Fails(w, TRUE)
  /\ UNCHANGED <<timeline, fitted, deleted, files, left>>

ByExecution(w) == [job |-> work[w].job, generation |-> work[w].generation]

Moved(w) == files' = Put(files, work[w].plan, ByExecution(w))

\* The fence, the move of the file and the commit.
Publish(w) ==
  LET j == work[w].job IN
  /\ work[w].at = "rendered"
  /\ IF Owns(w) /\ RowsOf(j) # {}
     THEN /\ Moved(w)
          /\ preview' = [h \in DOMAIN preview |->
               IF h \in RowsOf(j)
               THEN [job |-> j, status |-> "succeeded", path |-> work[w].plan]
               ELSE preview[h]]
          /\ job' = Ended(j, "succeeded", FALSE)
          /\ Leaves(w)
     ELSE Fails(w, FALSE) /\ UNCHANGED files
  /\ UNCHANGED <<timeline, fitted, deleted, left>>

\* The file is moved, but the commit fails, or the process ends before it.
PublishLost(w) ==
  /\ work[w].at = "rendered"
  /\ Owns(w) /\ RowsOf(work[w].job) # {}
  /\ Spend("outages")
  /\ Moved(w)
  /\ \/ work' = [work EXCEPT ![w].at = "rolledBack"]
     \/ Leaves(w)
  /\ UNCHANGED <<timeline, fitted, deleted, job, preview>>

\* Weakened form: the path is cleaned, whoever's file is there now.
SamePath(w) == work[w].plan \in DOMAIN files

SameFile(w) == work[w].plan \in DOMAIN files /\ files[work[w].plan] = ByExecution(w)

\* cleanup_failed_publish runs when the lock is already released: it looks whose
\* file has the path now, and unlinks what has it then.
Compare(w) ==
  /\ work[w].at = "rolledBack"
  /\ work' = [work EXCEPT ![w].at = IF SameFile(w) THEN "cleaning" ELSE "failing"]
  /\ UNCHANGED <<timeline, fitted, deleted, job, preview, files, left>>

Removed(h) == files' = Restrict(files, DOMAIN files \ {h})

Unlink(w) ==
  /\ work[w].at = "cleaning"
  /\ Removed(work[w].plan)
  /\ work' = [work EXCEPT ![w].at = "failing"]
  /\ UNCHANGED <<timeline, fitted, deleted, job, preview, left>>

\* The file that w moved is unlinked by v before w has looked at it: w fails, and
\* registers no cleanup.  (An unlink between that look and w's commit has the
\* effect of one that follows the commit.)
MoveRaced(w, v) ==
  /\ work[w].at = "rendered"
  /\ Owns(w) /\ RowsOf(work[w].job) # {}
  /\ work[v].at = "cleaning" /\ work[v].plan = work[w].plan
  /\ Removed(work[w].plan)
  /\ work' = [work EXCEPT ![w].at = "failing", ![v].at = "failing"]
  /\ UNCHANGED <<timeline, fitted, deleted, job, preview, left>>

FailPublish(w) ==
  /\ work[w].at = "failing"
  /\ Fails(w, TRUE)
  /\ UNCHANGED <<timeline, fitted, deleted, files, left>>

Crash(w) ==
  /\ work[w] # Idle
  /\ Spend("outages")
  /\ Leaves(w)
  /\ UNCHANGED <<timeline, fitted, deleted, job, preview, files>>

LeaseExpires(j) ==
  /\ job[j].status = "running" /\ ~job[j].lapsed
  /\ job' = [job EXCEPT ![j].lapsed = TRUE]
  /\ UNCHANGED <<timeline, fitted, deleted, preview, files, work, left>>

RenewLease(w) ==
  /\ work[w] # Idle /\ Owns(w)
  /\ job' = [job EXCEPT ![work[w].job].lapsed = FALSE]
  /\ UNCHANGED <<timeline, fitted, deleted, preview, files, work, left>>

-----------------------------------------------------------------------------
Init ==
  /\ timeline \in [order: {CHOOSE o \in Orders : TRUE},
                   text: StartTexts,
                   manual: {[s \in Segments |-> NaturalLength]}, version: {[s \in Segments |-> 0]}]
  /\ fitted = NoFit
  /\ deleted = FALSE
  /\ job = [j \in Jobs |-> [status |-> "absent", generation |-> 0, owner |-> NoWorker,
                            lapsed |-> FALSE, retryable |-> FALSE]]
  /\ preview = NoRow
  /\ files = <<>>
  /\ work = [w \in Workers |-> Idle]
  /\ left \in Budgets

EditTimeline ==
  \/ \E o \in Orders : Reorder(o)
  \/ \E s \in Segments : \E x \in Texts : PatchText(s, x)
  \/ \E s \in Segments : \E frames \in {NaturalLength} \union Timings : PatchTiming(s, frames)
  \/ RestoreAuto
  \/ \E strategy \in {"current", "equal", "text_length"}, target \in 1..MaxTotal :
       Fit(strategy, target)

Execute(w) ==
  \/ \E j \in Jobs : Claim(w, j) \/ GiveUp(w, j)
  \/ CheckPlan(w)
  \/ Render(w)
  \/ Publish(w)
  \/ PublishLost(w)
  \/ Compare(w)
  \/ Unlink(w)
  \/ \E v \in Workers : MoveRaced(w, v)
  \/ FailPublish(w)
  \/ Crash(w)
  \/ RenewLease(w)

Next ==
  \/ EditTimeline
  \/ \E j \in Jobs : \/ \E force \in BOOLEAN : Create(j, force)
                     \/ Retry(j) \/ Cancel(j) \/ LeaseExpires(j)
  \/ DeleteProject
  \/ \E w \in Workers : Execute(w)

Spec == Init /\ [][Next]_vars

-----------------------------------------------------------------------------
(* Properties *)

Ready(h) == h \in DOMAIN preview /\ preview[h].status = "succeeded"

\* An execution has decided to unlink the file of this name.
Threatened(h) == \E w \in Workers : work[w].at = "cleaning" /\ work[w].plan = h

Safe(h) == Valid(h) /\ ~Threatened(preview[h].path)

\* A ready preview keeps a file that is there and that no execution has decided to
\* unlink: executions whose commit was lost, stale ones and later ones of the same
\* fingerprint neither remove it nor decide to (cleanup_failed_publish).  It is lost
\* only when it was published between another execution's stat and unlink.
SafeFileStays ==
  [][\A h \in DOMAIN preview : Safe(h) /\ Ready(h)' => Safe(h)']_vars

\* What the comment of cleanup_failed_publish says (worker.py:926): another worker may
\* have published the same preview meanwhile, and the rollback only removes the file
\* generation that its own execution moved.
CleanupSparesPublished ==
  [][\A w \in Workers : work[w].at = "cleaning" /\ work'[w].at = "failing" =>
       \A h \in DOMAIN preview : Valid(h) => preview[h].path \in DOMAIN files']_vars

\* A ready preview shows the timeline it was asked for: an edit while its job waited,
\* ran or was tried again never shows up under the fingerprint of the older timeline.
ReadyShowsItsTimeline ==
  \A h \in DOMAIN preview : preview[h].status = "succeeded" => preview[h].path = h

\* An execution that still owns its job is never deprived of its preview: force
\* does not leave an active render without the row it will be published in.
RenderKeepsItsRow ==
  \A w \in Workers :
    work[w].at \in {"rendering", "rendered"} /\ Owns(w) =>
      \E h \in RowsOf(work[w].job) : h = work[w].plan /\ preview[h].status = "queued"

\* The row tells how its present job fares, not how the jobs it had before do.
RowMirrorsJob ==
  \A h \in DOMAIN preview :
    LET status == job[preview[h].job].status
    IN  preview[h].status = IF status = "running" THEN "queued" ELSE status

\* A fit takes exactly the frames asked for, within the bounds of each clip, gives
\* a heavier clip no less than a lighter one, and depends on no rounding of floats;
\* no target between the bounds is without a solution.
FitIsExact ==
  fitted # NoFit =>
    LET w == fitted.weights
        d == [i \in Positions |-> timeline.manual[timeline.order[i]]]
    IN  /\ SumFunction(d) = fitted.target
        /\ \A i, k \in Positions : d[i] \in MinFrames..MaxFrames /\ (w[i] > w[k] => d[i] >= d[k])
        /\ \A b \in Bisections(w, fitted.target) : Allocated(w, fitted.target, b) = d
        /\ \A target \in Feasible : Bisections(w, target) # {}
=============================================================================
