---------------------------- MODULE PreviewsProofs ----------------------------
(***************************************************************************)
(* Proofs about Previews for any timeline, number of jobs and of workers.  *)
(*                                                                         *)
(* What a timeline looks like plays no part: only that a row is found by   *)
(* the fingerprint it was asked for.  A job is the present job of at most  *)
(* one row (OneRowPerJob), so an execution that has checked its plan and   *)
(* still owns its job has the row of that plan (PlanKeepsRow).  No two     *)
(* executions are of one job and generation (ExecutionsDiffer), so an      *)
(* execution that has lost its commit never finds its own file under the   *)
(* name of a row that is ready (ReadyNotFound), and decides to unlink none *)
(* that was there when it looked (SafeFilesStay).                          *)
(***************************************************************************)
EXTENDS Previews, TLAPS

Planned == {"rendering", "rendered", "rolledBack", "cleaning", "failing"}

JobsTyped ==
  /\ job \in [Jobs -> JobRow]
  /\ \A j \in Jobs : job[j].owner # NoWorker <=> job[j].status = "running"

\* A row has no path, or the path of its own fingerprint.
RowTyped(h) ==
  preview[h] \in [job: Jobs, status: {"queued", "succeeded", "failed", "canceled"},
                  path: {h, NoPath}]

Planning == [at: {"planning"}, job: Jobs, generation: 1..Attempts]
Carrying(p) == [at: Planned, job: Jobs, generation: 1..Attempts, plan: {p}]

WorkTyped(w) ==
  work[w] = Idle \/ work[w] \in Planning \/ work[w] \in Carrying(work[w].plan)

OneRowPerJob ==
  \A h, k \in DOMAIN preview : preview[h].job = preview[k].job => h = k

\* The execution of a thread is past: its job exists, and has had its generation.
Started(w) ==
  work[w] # Idle => /\ job[work[w].job].status # "absent"
                    /\ work[w].generation <= job[work[w].job].generation

ExecutionsDiffer ==
  \A v, w \in Workers :
    /\ work[v] # Idle /\ work[w] # Idle
    /\ work[v].job = work[w].job /\ work[v].generation = work[w].generation
    => v = w

PlanKeepsRow(w) ==
  work[w].at \in Planned /\ Owns(w) => work[w].plan \in RowsOf(work[w].job)

ReadyNotFound(h) ==
  preview[h].status = "succeeded" =>
    /\ preview[h].path = h
    /\ \A w \in Workers : work[w].at = "rolledBack" /\ work[w].plan = h => ~SameFile(w)

PreviewInv ==
  /\ JobsTyped
  /\ \A h \in DOMAIN preview : RowTyped(h)
  /\ work = [w \in Workers |-> work[w]]
  /\ \A w \in Workers : WorkTyped(w)
  /\ OneRowPerJob
  /\ RowMirrorsJob
  /\ \A w \in Workers : Started(w)
  /\ ExecutionsDiffer
  /\ \A w \in Workers : PlanKeepsRow(w)
  /\ \A h \in DOMAIN preview : ReadyNotFound(h)

-----------------------------------------------------------------------------
(* What a thread and a row look like *)

LEMMA WorkShape ==
  ASSUME NEW w \in Workers, WorkTyped(w)
  PROVE  /\ work[w].at \in {"idle", "planning"} \union Planned
         /\ work[w] = Idle <=> work[w].at = "idle"
         /\ work[w] # Idle => work[w].job \in Jobs /\ work[w].generation \in 1..Attempts
         /\ work[w].at = "planning" => work[w] \in Planning
         /\ work[w].at \in Planned => work[w] \in Carrying(work[w].plan)
  BY DEF WorkTyped, Idle, Planning, Carrying, Planned

LEMMA InitOK == Init => PreviewInv
  <1> SUFFICES ASSUME Init PROVE PreviewInv
    OBVIOUS
  <1>1. JobsTyped
    BY PreviewAssumption DEF Init, JobsTyped, JobRow
  <1>2. DOMAIN preview = {}
    BY DEF Init, NoRow
  <1>3. \A w \in Workers : work[w] = Idle
    BY DEF Init
  <1>4. /\ \A h \in DOMAIN preview : RowTyped(h) /\ ReadyNotFound(h)
        /\ OneRowPerJob /\ RowMirrorsJob
    BY <1>2 DEF OneRowPerJob, RowMirrorsJob
  <1>5. work = [w \in Workers |-> work[w]]
    BY DEF Init
  <1>6. ExecutionsDiffer
    BY <1>3 DEF ExecutionsDiffer
  <1>7. \A w \in Workers : WorkTyped(w) /\ Started(w) /\ PlanKeepsRow(w)
    BY <1>3 DEF WorkTyped, Started, PlanKeepsRow, Idle, Planned
  <1> QED
    BY <1>1, <1>4, <1>5, <1>6, <1>7 DEF PreviewInv

-----------------------------------------------------------------------------
(* Steps that leave the rows alone, and steps that change one job *)

\* A thread goes on with its execution or leaves it, and moves no file.
GoesOn(w) ==
  \/ work'[w] = Idle \/ work'[w] = work[w]
  \/ /\ work[w].at \in Planned
     /\ work'[w] \in Carrying(work[w].plan)
     /\ work'[w].job = work[w].job /\ work'[w].generation = work[w].generation
     /\ work'[w].at # "rolledBack"

LEMMA ThreadsGoOn ==
  ASSUME PreviewInv, NEW w \in Workers, GoesOn(w)
  PROVE  /\ WorkTyped(w)'
         /\ work'[w] # Idle => /\ work[w] # Idle
                               /\ work'[w].job = work[w].job
                               /\ work'[w].generation = work[w].generation
         /\ work'[w].at \in Planned => work[w].at \in Planned /\ work'[w].plan = work[w].plan
         /\ work'[w].at = "rolledBack" => work'[w] = work[w]
  <1>1. WorkTyped(w)
    BY DEF PreviewInv
  <1>2. CASE work'[w] = Idle
    BY <1>2 DEF WorkTyped, Idle, Planned
  <1>3. CASE work'[w] = work[w]
    BY <1>1, <1>3 DEF WorkTyped
  <1>4. CASE /\ work[w].at \in Planned
             /\ work'[w] \in Carrying(work[w].plan)
             /\ work'[w].job = work[w].job /\ work'[w].generation = work[w].generation
             /\ work'[w].at # "rolledBack"
    <2>1. work'[w].plan = work[w].plan
      BY <1>4 DEF Carrying
    <2>2. work[w] # Idle
      BY <1>4 DEF Idle, Planned
    <2>3. WorkTyped(w)'
      BY <1>4, <2>1 DEF WorkTyped, Carrying
    <2> QED
      BY <1>4, <2>1, <2>2, <2>3
  <1> QED
    BY <1>2, <1>3, <1>4 DEF GoesOn

\* What the status of a job shows in its row.
Shown(status) == IF status = "running" THEN "queued" ELSE status

LEMMA JobStep ==
  ASSUME PreviewInv, NEW j \in Jobs, NEW r \in JobRow,
         r.status \in {"queued", "running", "failed", "canceled"},
         r.owner # NoWorker <=> r.status = "running",
         r.generation = job[j].generation, job[j].status # "absent",
         r.status = "running" => job[j].status = "running" /\ r.owner = job[j].owner,
         job' = [job EXCEPT ![j] = r],
         DOMAIN preview' = DOMAIN preview,
         \A h \in DOMAIN preview :
           preview'[h] = IF preview[h].job = j
                         THEN [preview[h] EXCEPT !.status = Shown(r.status)] ELSE preview[h],
         files' = files,
         work' = [w \in Workers |-> work'[w]], \A w \in Workers : GoesOn(w)
  PROVE  PreviewInv'
  <1> USE DEF PreviewInv
  <1>1. JobsTyped'
    BY DEF JobsTyped
  <1>2. \A h \in DOMAIN preview :
          /\ preview'[h].job = preview[h].job /\ preview'[h].path = preview[h].path
          /\ preview'[h].status = IF preview[h].job = j THEN Shown(r.status)
                                  ELSE preview[h].status
          /\ RowTyped(h)'
    <2> SUFFICES ASSUME NEW h \in DOMAIN preview
                 PROVE  /\ preview'[h].job = preview[h].job
                        /\ preview'[h].path = preview[h].path
                        /\ preview'[h].status = IF preview[h].job = j THEN Shown(r.status)
                                                ELSE preview[h].status
                        /\ RowTyped(h)'
      OBVIOUS
    <2>1. RowTyped(h)
      OBVIOUS
    <2>2. Shown(r.status) \in {"queued", "failed", "canceled"}
      BY DEF Shown
    <2> QED
      BY <2>1, <2>2 DEF RowTyped
  <1>3. OneRowPerJob'
    BY <1>2 DEF OneRowPerJob
  <1>4. RowMirrorsJob'
    <2> SUFFICES ASSUME NEW h \in DOMAIN preview
                 PROVE  preview'[h].status = Shown(job'[preview'[h].job].status)
      BY DEF RowMirrorsJob, Shown
    <2>1. preview[h].status = Shown(job[preview[h].job].status) /\ preview[h].job \in Jobs
      BY DEF RowMirrorsJob, Shown, RowTyped
    <2> QED
      BY <1>2, <2>1 DEF JobsTyped
  <1>5. \A w \in Workers : WorkTyped(w)'
    BY ThreadsGoOn
  <1>6. \A i \in Jobs : job'[i].generation = job[i].generation
                        /\ (job[i].status # "absent" => job'[i].status # "absent")
    BY DEF JobsTyped
  <1>7. \A w \in Workers : Started(w)'
    <2> SUFFICES ASSUME NEW w \in Workers PROVE Started(w)'
      OBVIOUS
    <2> QED
      BY <1>6, ThreadsGoOn, WorkShape DEF Started
  <1>8. ExecutionsDiffer'
    <2> SUFFICES ASSUME NEW v \in Workers, NEW w \in Workers,
                        work'[v] # Idle, work'[w] # Idle,
                        work'[v].job = work'[w].job, work'[v].generation = work'[w].generation
                 PROVE  v = w
      BY DEF ExecutionsDiffer
    <2> QED
      BY ThreadsGoOn DEF ExecutionsDiffer
  <1>9. \A w \in Workers : PlanKeepsRow(w)'
    <2> SUFFICES ASSUME NEW w \in Workers, work'[w].at \in Planned, Owns(w)'
                 PROVE  work'[w].plan \in RowsOf(work[w].job)'
      BY DEF PlanKeepsRow
    <2>1. /\ work[w].at \in Planned /\ work'[w].plan = work[w].plan
          /\ work'[w].job = work[w].job /\ work'[w].generation = work[w].generation
          /\ work[w].job \in Jobs
      BY ThreadsGoOn, WorkShape DEF Planned, Idle
    <2>2. Owns(w)
      BY <2>1 DEF Owns, JobsTyped
    <2>3. work[w].plan \in RowsOf(work[w].job)
      BY <2>1, <2>2 DEF PlanKeepsRow
    <2> QED
      BY <1>2, <2>1, <2>3 DEF RowsOf
  <1>10. \A h \in DOMAIN preview' : ReadyNotFound(h)'
    <2> SUFFICES ASSUME NEW h \in DOMAIN preview, preview'[h].status = "succeeded"
                 PROVE  /\ preview'[h].path = h
                        /\ \A w \in Workers :
                             work'[w].at = "rolledBack" /\ work'[w].plan = h => ~SameFile(w)'
      BY DEF ReadyNotFound
    <2>1. preview[h].status = "succeeded"
      BY <1>2 DEF Shown
    <2> QED
      BY <1>2, <2>1, ThreadsGoOn DEF ReadyNotFound, SameFile, ByExecution
  <1> QED
    BY <1>1, <1>2, <1>3, <1>4, <1>5, <1>7, <1>8, <1>9, <1>10

\* A thread keeps its job, generation and plan, or forgets them.
Follows(w) ==
  /\ WorkTyped(w)'
  /\ work'[w] # Idle => /\ work[w] # Idle
                        /\ work'[w].job = work[w].job
                        /\ work'[w].generation = work[w].generation
  /\ work'[w].at \in Planned => work[w].at \in Planned /\ work'[w].plan = work[w].plan

LEMMA RowsKept ==
  ASSUME PreviewInv, UNCHANGED <<job, preview>>, \A w \in Workers : Follows(w)
  PROVE  /\ JobsTyped' /\ OneRowPerJob' /\ RowMirrorsJob' /\ ExecutionsDiffer'
         /\ \A h \in DOMAIN preview' : RowTyped(h)'
         /\ \A w \in Workers : WorkTyped(w)' /\ Started(w)' /\ PlanKeepsRow(w)'
  <1> USE DEF PreviewInv
  <1>1. /\ JobsTyped' /\ OneRowPerJob' /\ RowMirrorsJob'
        /\ \A h \in DOMAIN preview' : RowTyped(h)'
    BY DEF JobsTyped, OneRowPerJob, RowMirrorsJob, RowTyped
  <1>2. \A w \in Workers : WorkTyped(w)' /\ Started(w)'
    BY DEF Follows, Started
  <1>3. ExecutionsDiffer'
    <2> SUFFICES ASSUME NEW v \in Workers, NEW w \in Workers,
                        work'[v] # Idle, work'[w] # Idle,
                        work'[v].job = work'[w].job, work'[v].generation = work'[w].generation
                 PROVE  v = w
      BY DEF ExecutionsDiffer
    <2> QED
      BY DEF Follows, ExecutionsDiffer
  <1>4. \A w \in Workers : PlanKeepsRow(w)'
    <2> SUFFICES ASSUME NEW w \in Workers, work'[w].at \in Planned, Owns(w)'
                 PROVE  work'[w].plan \in RowsOf(work[w].job)'
      BY DEF PlanKeepsRow
    <2>1. work'[w] # Idle
      BY DEF Planned, Idle
    <2>2. /\ work[w].at \in Planned /\ work'[w].plan = work[w].plan
          /\ work'[w].job = work[w].job /\ work'[w].generation = work[w].generation
      BY <2>1 DEF Follows
    <2> QED
      BY <2>2 DEF PlanKeepsRow, RowsOf, Owns
  <1> QED
    BY <1>1, <1>2, <1>3, <1>4

\* Threads go on, and at most some files are removed.
LEMMA RemovalStep ==
  ASSUME PreviewInv, UNCHANGED <<job, preview>>,
         DOMAIN files' \subseteq DOMAIN files, \A h \in DOMAIN files' : files'[h] = files[h],
         work' = [w \in Workers |-> work'[w]], \A w \in Workers : GoesOn(w)
  PROVE  PreviewInv'
  <1>1. \A w \in Workers : Follows(w)
    BY ThreadsGoOn DEF Follows
  <1>2. \A h \in DOMAIN preview' : ReadyNotFound(h)'
    <2> SUFFICES ASSUME NEW h \in DOMAIN preview, preview[h].status = "succeeded"
                 PROVE  /\ preview[h].path = h
                        /\ \A w \in Workers :
                             work'[w].at = "rolledBack" /\ work'[w].plan = h => ~SameFile(w)'
      BY DEF ReadyNotFound
    <2>1. preview[h].path = h
      BY DEF PreviewInv, ReadyNotFound
    <2>2. ASSUME NEW w \in Workers, work'[w].at = "rolledBack", work'[w].plan = h
          PROVE  ~SameFile(w)'
      <3>1. work'[w] = work[w] /\ ~SameFile(w)
        BY <2>2, ThreadsGoOn DEF PreviewInv, ReadyNotFound
      <3> QED
        BY <3>1 DEF SameFile, ByExecution
    <2> QED
      BY <2>1, <2>2
  <1> QED
    BY <1>1, <1>2, RowsKept DEF PreviewInv

LEMMA ThreadStep ==
  ASSUME PreviewInv, UNCHANGED <<job, preview, files>>,
         work' = [w \in Workers |-> work'[w]], \A w \in Workers : GoesOn(w)
  PROVE  PreviewInv'
  BY RemovalStep

-----------------------------------------------------------------------------
(* The actions *)

\* A request that changes only the timeline.
LEMMA TimelineStep ==
  ASSUME PreviewInv, UNCHANGED <<job, preview, files, work>>
  PROVE  PreviewInv'
  <1>1. work' = [w \in Workers |-> work'[w]] /\ \A w \in Workers : GoesOn(w)
    BY DEF PreviewInv, GoesOn
  <1> QED
    BY <1>1, ThreadStep

LEMMA CreateOK ==
  ASSUME PreviewInv, NEW j \in Jobs, NEW force \in BOOLEAN, Create(j, force)
  PROVE  PreviewInv'
  <1> USE DEF PreviewInv
  <1> DEFINE h == Fingerprint(timeline)
  <1>1. /\ job[j].status = "absent" /\ job' = [job EXCEPT ![j].status = "queued"]
        /\ ~BeingRendered(h)
        /\ preview' = Put(preview, h, [job |-> j, status |-> "queued", path |-> NoPath])
        /\ UNCHANGED <<files, work>>
    BY DEF Create
  <1>2. h \in DOMAIN preview => ~Active(preview[h].job)
    BY <1>1 DEF BeingRendered
  <1>3. /\ DOMAIN preview' = DOMAIN preview \union {h}
        /\ preview'[h] = [job |-> j, status |-> "queued", path |-> NoPath]
        /\ \A k \in DOMAIN preview : k # h => preview'[k] = preview[k]
    BY <1>1 DEF Put
  <1> HIDE DEF h
  <1>4. \A k \in DOMAIN preview : preview[k].job \in Jobs /\ preview[k].job # j
    BY <1>1 DEF RowMirrorsJob, RowTyped
  <1>5. /\ \A i \in Jobs : i # j => job'[i] = job[i]
        /\ job'[j] = [job[j] EXCEPT !.status = "queued"]
        /\ JobsTyped'
    BY <1>1 DEF JobsTyped, JobRow
  <1>6. \A k \in DOMAIN preview' : RowTyped(k)'
    BY <1>3 DEF RowTyped
  <1>7. OneRowPerJob'
    BY <1>3, <1>4 DEF OneRowPerJob
  <1>8. RowMirrorsJob'
    BY <1>3, <1>4, <1>5 DEF RowMirrorsJob, JobsTyped, JobRow
  <1>9. \A w \in Workers : WorkTyped(w)' /\ (work[w] # Idle => work[w].job \in Jobs /\ work[w].job # j)
    BY <1>1, WorkShape DEF WorkTyped, Started
  <1>10. (\A w \in Workers : Started(w)') /\ ExecutionsDiffer'
    BY <1>1, <1>5, <1>9 DEF Started, ExecutionsDiffer
  <1>11. \A w \in Workers : PlanKeepsRow(w)'
    <2> SUFFICES ASSUME NEW w \in Workers, work[w].at \in Planned, Owns(w)'
                 PROVE  work[w].plan \in RowsOf(work[w].job)'
      BY <1>1 DEF PlanKeepsRow
    <2>1. work[w].job \in Jobs /\ work[w].job # j
      BY <1>9 DEF Idle, Planned
    <2>2. Owns(w)
      BY <1>1, <1>5, <2>1 DEF Owns
    <2>3. work[w].plan \in RowsOf(work[w].job)
      BY <2>2 DEF PlanKeepsRow
    <2>4. work[w].plan # h
      BY <1>2, <2>2, <2>3 DEF RowsOf, Active, Owns
    <2> QED
      BY <1>1, <1>3, <2>3, <2>4 DEF RowsOf
  <1>12. \A k \in DOMAIN preview' : ReadyNotFound(k)'
    BY <1>1, <1>3 DEF ReadyNotFound, SameFile, ByExecution
  <1> QED
    BY <1>1, <1>5, <1>6, <1>7, <1>8, <1>9, <1>10, <1>11, <1>12

\* The row of a job that ends, and the row of a job that is claimed.
LEMMA EndedRow ==
  ASSUME JobsTyped, NEW j \in Jobs,
         NEW status \in {"failed", "canceled", "succeeded", "deleted"}, NEW b \in BOOLEAN
  PROVE  /\ Ended(j, status, b)[j] \in JobRow
         /\ Ended(j, status, b)[j].owner = NoWorker
         /\ Ended(j, status, b)[j].status = status
         /\ Ended(j, status, b)[j].generation = job[j].generation
         /\ Ended(j, status, b) = [job EXCEPT ![j] = Ended(j, status, b)[j]]
  <1> DEFINE r == [status |-> status, generation |-> job[j].generation, owner |-> NoWorker,
                   lapsed |-> FALSE, retryable |-> b]
  <1>1. job[j].generation \in 0..Attempts
    BY DEF JobsTyped, JobRow
  <1>2. Ended(j, status, b) = [job EXCEPT ![j] = r]
    BY DEF Ended
  <1>3. r \in JobRow
    BY <1>1 DEF JobRow
  <1>4. r.owner = NoWorker /\ r.status = status /\ r.generation = job[j].generation
    OBVIOUS
  <1> HIDE DEF r
  <1>5. Ended(j, status, b)[j] = r
    BY <1>2 DEF JobsTyped
  <1> QED
    BY <1>2, <1>3, <1>4, <1>5

LEMMA ClaimedRow ==
  ASSUME NEW r \in JobRow, NEW w \in Workers, r.generation < Attempts
  PROVE  LET c == [status |-> "running", generation |-> r.generation + 1, owner |-> w,
                   lapsed |-> FALSE, retryable |-> r.retryable]
         IN  /\ c \in JobRow
             /\ c.status = "running" /\ c.owner = w /\ c.generation = r.generation + 1
             /\ c.generation \in 1..Attempts
  <1> DEFINE c == [status |-> "running", generation |-> r.generation + 1, owner |-> w,
                   lapsed |-> FALSE, retryable |-> r.retryable]
  <1>1. r.generation + 1 \in 0..Attempts /\ r.generation + 1 \in 1..Attempts
    BY PreviewAssumption DEF JobRow
  <1>2. r.retryable \in BOOLEAN
    BY DEF JobRow
  <1>3. c \in JobRow
    BY <1>1, <1>2 DEF JobRow
  <1>4. c.status = "running" /\ c.owner = w /\ c.generation = r.generation + 1
    OBVIOUS
  <1> QED
    BY <1>1, <1>3, <1>4

LEMMA DeleteProjectOK ==
  ASSUME PreviewInv, DeleteProject
  PROVE  PreviewInv'
  <1> USE DEF PreviewInv
  <1>1. /\ DOMAIN preview' = {} /\ UNCHANGED work
        /\ job' = [j \in Jobs |-> IF job[j].status = "absent" THEN job[j]
                                  ELSE Ended(j, "deleted", FALSE)[j]]
    BY DEF DeleteProject, NoRow
  <1>2. \A j \in Jobs :
          /\ job'[j] \in JobRow
          /\ job'[j].owner # NoWorker <=> job'[j].status = "running"
          /\ job'[j].generation = job[j].generation
          /\ job[j].status # "absent" => job'[j].status = "deleted"
          /\ job[j].status = "absent" => job'[j] = job[j]
    <2> SUFFICES ASSUME NEW j \in Jobs
                 PROVE  /\ job'[j] \in JobRow
                        /\ job'[j].owner # NoWorker <=> job'[j].status = "running"
                        /\ job'[j].generation = job[j].generation
                        /\ job[j].status # "absent" => job'[j].status = "deleted"
                        /\ job[j].status = "absent" => job'[j] = job[j]
      OBVIOUS
    <2>1. job[j] \in JobRow /\ (job[j].owner # NoWorker <=> job[j].status = "running")
      BY DEF JobsTyped
    <2>2. CASE job[j].status = "absent"
      BY <1>1, <2>1, <2>2
    <2>3. CASE job[j].status # "absent"
      BY <1>1, <2>1, <2>3, EndedRow
    <2> QED
      BY <2>2, <2>3
  <1>3. JobsTyped'
    BY <1>1, <1>2 DEF JobsTyped
  <1>4. \A w \in Workers : work[w].at \in Planned => work[w] # Idle
    BY DEF Planned, Idle
  <1>5. /\ \A h \in DOMAIN preview' : RowTyped(h)' /\ ReadyNotFound(h)'
        /\ OneRowPerJob' /\ RowMirrorsJob' /\ ExecutionsDiffer'
    BY <1>1 DEF OneRowPerJob, RowMirrorsJob, ExecutionsDiffer
  <1>6. \A w \in Workers : WorkTyped(w)' /\ Started(w)' /\ PlanKeepsRow(w)'
    <2> SUFFICES ASSUME NEW w \in Workers
                 PROVE  WorkTyped(w)' /\ Started(w)' /\ PlanKeepsRow(w)'
      OBVIOUS
    <2>1. WorkTyped(w)'
      BY <1>1 DEF WorkTyped
    <2>2. work[w] # Idle => work[w].job \in Jobs /\ job[work[w].job].status # "absent"
      BY WorkShape DEF Started
    <2>3. Started(w)'
      BY <1>1, <1>2, <2>2 DEF Started
    <2>4. work[w].at \in Planned => ~Owns(w)'
      BY <1>1, <1>2, <1>4, <2>2 DEF Owns
    <2> QED
      BY <1>1, <2>1, <2>3, <2>4 DEF PlanKeepsRow
  <1> QED
    BY <1>1, <1>3, <1>5, <1>6

LEMMA ClaimOK ==
  ASSUME PreviewInv, NEW w \in Workers, NEW j \in Jobs, Claim(w, j)
  PROVE  PreviewInv'
  <1> USE DEF PreviewInv
  <1> DEFINE new == [at |-> "planning", job |-> j, generation |-> job[j].generation + 1]
  <1>1. /\ work[w] = Idle /\ job[j].status \in {"queued", "running"}
        /\ job[j].generation < Attempts
        /\ job' = [job EXCEPT ![j] = [status |-> "running", generation |-> @.generation + 1,
                                      owner |-> w, lapsed |-> FALSE, retryable |-> @.retryable]]
        /\ work' = [work EXCEPT ![w] = new]
        /\ UNCHANGED <<preview, files>>
    BY DEF Claim, Lapsed
  <1>2. job[j] \in JobRow /\ Attempts \in Nat /\ w # NoWorker
    BY PreviewAssumption DEF JobsTyped
  <1> DEFINE c == [status |-> "running", generation |-> job[j].generation + 1, owner |-> w,
                   lapsed |-> FALSE, retryable |-> job[j].retryable]
  <1>c. /\ c \in JobRow
        /\ c.status = "running" /\ c.owner = w /\ c.generation = job[j].generation + 1
        /\ c.generation \in 1..Attempts
    BY <1>1, <1>2, ClaimedRow
  <1>d. job' = [job EXCEPT ![j] = c]
    BY <1>1
  <1> HIDE DEF c
  <1>3. job'[j] = c /\ \A i \in Jobs : i # j => job'[i] = job[i]
    BY <1>d DEF JobsTyped
  <1>4. job'[j] \in JobRow /\ job[j].generation + 1 \in 1..Attempts
        /\ job'[j].status = "running" /\ job'[j].owner = w
        /\ job'[j].generation = job[j].generation + 1
    BY <1>c, <1>3
  <1>5. JobsTyped'
    BY <1>d, <1>2, <1>3, <1>4 DEF JobsTyped
  <1>6. new \in Planning
    BY <1>4 DEF Planning
  <1>7. work'[w] = new /\ (\A v \in Workers : v # w => work'[v] = work[v])
        /\ work' = [v \in Workers |-> work'[v]]
    BY <1>1
  <1>8. new # Idle /\ new.at = "planning" /\ new.job = j
        /\ new.generation = job[j].generation + 1
    BY DEF Idle
  <1> HIDE DEF new
  <1>9. \A v \in Workers : WorkTyped(v)'
    BY <1>6, <1>7 DEF WorkTyped
  <1>10. \A h \in DOMAIN preview' : RowTyped(h)'
    BY <1>1 DEF RowTyped
  <1>11. OneRowPerJob'
    BY <1>1 DEF OneRowPerJob
  <1>12. RowMirrorsJob'
    BY <1>1, <1>3, <1>4 DEF RowMirrorsJob, RowTyped
  <1>13. \A v \in Workers : v # w /\ work[v] # Idle /\ work[v].job = j =>
           work[v].generation \in Nat /\ work[v].generation < job[j].generation + 1
    BY <1>2, WorkShape DEF Started, JobRow
  <1>14. \A v \in Workers : Started(v)'
    <2>1. Started(w)'
      BY <1>4, <1>7, <1>8, <1>2 DEF Started, JobRow
    <2>2. \A v \in Workers : v # w => Started(v)'
      <3> SUFFICES ASSUME NEW v \in Workers, v # w, work[v] # Idle
                   PROVE  /\ job'[work[v].job].status # "absent"
                          /\ work[v].generation <= job'[work[v].job].generation
        BY <1>7 DEF Started
      <3>1. work[v].job \in Jobs
        BY WorkShape
      <3>2. CASE work[v].job = j
        BY <1>2, <1>4, <1>13, <3>2 DEF JobRow
      <3>3. CASE work[v].job # j
        BY <1>3, <3>1, <3>3 DEF Started
      <3> QED
        BY <3>2, <3>3
    <2> QED
      BY <2>1, <2>2
  <1>15. ExecutionsDiffer'
    BY <1>2, <1>7, <1>8, <1>13 DEF ExecutionsDiffer, JobRow
  <1>16. \A v \in Workers : PlanKeepsRow(v)'
    <2> SUFFICES ASSUME NEW v \in Workers, work'[v].at \in Planned, Owns(v)'
                 PROVE  (work[v].plan \in RowsOf(work[v].job))'
      BY DEF PlanKeepsRow
    <2>1. v # w
      BY <1>7, <1>8 DEF Planned
    <2>2. work[v].at \in Planned /\ work'[v] = work[v] /\ work[v].job \in Jobs
      BY <1>7, <2>1, WorkShape DEF Planned
    <2>3. work[v].job # j
      BY <1>4, <2>1, <2>2 DEF Owns
    <2>4. Owns(v)
      BY <1>3, <2>2, <2>3 DEF Owns
    <2> QED
      BY <1>1, <2>2, <2>4 DEF PlanKeepsRow, RowsOf
  <1>17. \A h \in DOMAIN preview' : ReadyNotFound(h)'
    BY <1>1, <1>7, <1>8 DEF ReadyNotFound, SameFile, ByExecution
  <1> QED
    BY <1>5, <1>7, <1>9, <1>10, <1>11, <1>12, <1>14, <1>15, <1>16, <1>17

LEMMA Marked ==
  ASSUME NEW j \in Jobs, NEW status
  PROVE  /\ DOMAIN WithStatus(j, status) = DOMAIN preview
         /\ \A h \in DOMAIN preview :
              WithStatus(j, status)[h] = IF preview[h].job = j
                                         THEN [preview[h] EXCEPT !.status = status]
                                         ELSE preview[h]
  BY DEF WithStatus, RowsOf

\* A job that was asked for ends without a result, whoever ends it.
LEMMA EndStep ==
  ASSUME PreviewInv, NEW j \in Jobs, NEW status \in {"failed", "canceled"}, NEW b \in BOOLEAN,
         job[j].status # "absent", job' = Ended(j, status, b), preview' = WithStatus(j, status),
         files' = files, work' = [w \in Workers |-> work'[w]], \A w \in Workers : GoesOn(w)
  PROVE  PreviewInv'
  <1>0. JobsTyped
    BY DEF PreviewInv
  <1> DEFINE r == Ended(j, status, b)[j]
  <1>1. /\ r \in JobRow /\ r.owner = NoWorker /\ r.status = status
        /\ r.generation = job[j].generation /\ job' = [job EXCEPT ![j] = r]
    BY <1>0, EndedRow
  <1> HIDE DEF r
  <1>2. Shown(r.status) = status
    BY <1>1 DEF Shown
  <1>3. /\ DOMAIN preview' = DOMAIN preview
        /\ \A h \in DOMAIN preview :
             preview'[h] = IF preview[h].job = j
                           THEN [preview[h] EXCEPT !.status = Shown(r.status)] ELSE preview[h]
    BY <1>2, Marked
  <1> QED
    BY <1>1, <1>3, JobStep

LEMMA NobodyMoves ==
  ASSUME PreviewInv, UNCHANGED work
  PROVE  work' = [w \in Workers |-> work'[w]] /\ \A w \in Workers : GoesOn(w)
  BY DEF PreviewInv, GoesOn

LEMMA LeavesGoesOn ==
  ASSUME PreviewInv, NEW w \in Workers, Leaves(w)
  PROVE  work' = [v \in Workers |-> work'[v]] /\ \A v \in Workers : GoesOn(v)
  BY DEF PreviewInv, Leaves, GoesOn

LEMMA RetryOK ==
  ASSUME PreviewInv, NEW j \in Jobs, Retry(j)
  PROVE  PreviewInv'
  <1> DEFINE r == [job[j] EXCEPT !.status = "queued"]
  <1>1. job[j] \in JobRow /\ job[j].status = "failed" /\ job[j].owner = NoWorker
    BY DEF PreviewInv, JobsTyped, Retry
  <1>2. job' = [job EXCEPT ![j] = r] /\ preview' = WithStatus(j, "queued")
        /\ UNCHANGED <<files, work>>
    BY DEF Retry
  <1>3. /\ r \in JobRow /\ r.status = "queued" /\ r.owner = job[j].owner
        /\ r.generation = job[j].generation
    BY <1>1 DEF JobRow
  <1> HIDE DEF r
  <1>4. Shown(r.status) = "queued"
    BY <1>3 DEF Shown
  <1>5. /\ DOMAIN preview' = DOMAIN preview
        /\ \A h \in DOMAIN preview :
             preview'[h] = IF preview[h].job = j
                           THEN [preview[h] EXCEPT !.status = Shown(r.status)] ELSE preview[h]
    BY <1>2, <1>4, Marked
  <1> QED
    BY <1>1, <1>2, <1>3, <1>5, NobodyMoves, JobStep

LEMMA CancelOK ==
  ASSUME PreviewInv, NEW j \in Jobs, Cancel(j)
  PROVE  PreviewInv'
  <1>1. /\ job[j].status # "absent" /\ job' = Ended(j, "canceled", FALSE)
        /\ preview' = WithStatus(j, "canceled") /\ UNCHANGED <<files, work>>
    BY DEF Cancel, Active
  <1> QED
    BY <1>1, NobodyMoves, EndStep

LEMMA GiveUpOK ==
  ASSUME PreviewInv, NEW w \in Workers, NEW j \in Jobs, GiveUp(w, j)
  PROVE  PreviewInv'
  <1>1. /\ job[j].status # "absent" /\ job' = Ended(j, "failed", FALSE)
        /\ preview' = WithStatus(j, "failed") /\ UNCHANGED <<files, work>>
    BY DEF GiveUp, Lapsed
  <1> QED
    BY <1>1, NobodyMoves, EndStep

LEMMA FailsOK ==
  ASSUME PreviewInv, NEW w \in Workers, NEW b \in BOOLEAN, work[w] # Idle,
         Fails(w, b), UNCHANGED files
  PROVE  PreviewInv'
  <1>1. Leaves(w)
    BY DEF Fails
  <1>2. CASE Owns(w)
    <2> DEFINE j == work[w].job
               c == b /\ job[j].generation < Attempts
    <2>1. j \in Jobs /\ job[j].status # "absent"
      BY <1>2, WorkShape DEF PreviewInv, Owns
    <2>2. job' = Ended(j, "failed", c) /\ preview' = WithStatus(j, "failed")
      BY <1>2 DEF Fails
    <2>3. c \in BOOLEAN
      OBVIOUS
    <2> HIDE DEF j, c
    <2> QED
      BY <1>1, <2>1, <2>2, <2>3, LeavesGoesOn, EndStep
  <1>3. CASE ~Owns(w)
    BY <1>1, <1>3, LeavesGoesOn, ThreadStep DEF Fails
  <1> QED
    BY <1>2, <1>3

LEMMA LeaseStep ==
  ASSUME PreviewInv, NEW j \in Jobs, NEW b \in BOOLEAN, job[j].status = "running",
         job' = [job EXCEPT ![j].lapsed = b], UNCHANGED <<preview, files, work>>
  PROVE  PreviewInv'
  <1> DEFINE r == [job[j] EXCEPT !.lapsed = b]
  <1>1. job[j] \in JobRow /\ (job[j].owner # NoWorker <=> job[j].status = "running")
    BY DEF PreviewInv, JobsTyped
  <1>2. job' = [job EXCEPT ![j] = r]
    OBVIOUS
  <1>3. r \in JobRow /\ r.status = job[j].status /\ r.owner = job[j].owner
        /\ r.generation = job[j].generation
    BY <1>1 DEF JobRow
  <1> HIDE DEF r
  <1>4. Shown(r.status) = "queued"
    BY <1>3 DEF Shown
  <1>5. \A h \in DOMAIN preview : preview[h].job = j =>
          preview[h] = [preview[h] EXCEPT !.status = Shown(r.status)]
    <2> SUFFICES ASSUME NEW h \in DOMAIN preview, preview[h].job = j
                 PROVE  preview[h] = [preview[h] EXCEPT !.status = Shown(r.status)]
      OBVIOUS
    <2>1. preview[h].status = "queued" /\ RowTyped(h)
      BY DEF PreviewInv, RowMirrorsJob
    <2> QED
      BY <1>4, <2>1 DEF RowTyped
  <1>6. \A h \in DOMAIN preview :
          preview'[h] = IF preview[h].job = j
                        THEN [preview[h] EXCEPT !.status = Shown(r.status)] ELSE preview[h]
    <2>1. preview' = preview
      OBVIOUS
    <2> QED
      BY <1>5, <2>1, Zenon
  <1>7. /\ files' = files /\ DOMAIN preview' = DOMAIN preview
        /\ work' = [w \in Workers |-> work'[w]] /\ \A w \in Workers : GoesOn(w)
    BY NobodyMoves
  <1>8. /\ r.status \in {"queued", "running", "failed", "canceled"}
        /\ r.owner # NoWorker <=> r.status = "running"
        /\ job[j].status # "absent"
        /\ r.status = "running" => job[j].status = "running" /\ r.owner = job[j].owner
        /\ r.generation = job[j].generation
    BY <1>1, <1>3
  <1> QED
    BY <1>2, <1>3, <1>6, <1>7, <1>8, JobStep

LEMMA LeaseExpiresOK ==
  ASSUME PreviewInv, NEW j \in Jobs, LeaseExpires(j)
  PROVE  PreviewInv'
  BY LeaseStep DEF LeaseExpires

LEMMA RenewLeaseOK ==
  ASSUME PreviewInv, NEW w \in Workers, RenewLease(w)
  PROVE  PreviewInv'
  <1>1. work[w] # Idle /\ job[work[w].job].status = "running"
    BY DEF RenewLease, Owns
  <1>2. work[w].job \in Jobs
    BY <1>1, WorkShape DEF PreviewInv
  <1> QED
    BY <1>1, <1>2, LeaseStep DEF RenewLease

LEMMA CrashOK ==
  ASSUME PreviewInv, NEW w \in Workers, Crash(w)
  PROVE  PreviewInv'
  BY LeavesGoesOn, ThreadStep DEF Crash

LEMMA CheckPlanOK ==
  ASSUME PreviewInv, NEW w \in Workers, CheckPlan(w)
  PROVE  PreviewInv'
  <1> USE DEF PreviewInv
  <1>1. work[w].at = "planning" /\ UNCHANGED files
    BY DEF CheckPlan
  <1>2. work[w] # Idle /\ work[w] \in Planning
    BY <1>1, WorkShape DEF Idle
  <1>3. CASE ~(Owns(w) /\ PlanHolds(w)) /\ Fails(w, FALSE)
    BY <1>1, <1>2, <1>3, FailsOK
  <1>4. ASSUME NEW p, p \in RowsOf(work[w].job), UNCHANGED <<job, preview>>,
               work' = [work EXCEPT ![w] = [at |-> "rendering", job |-> @.job,
                                            generation |-> @.generation, plan |-> p]]
        PROVE  PreviewInv'
    <2> DEFINE new == [at |-> "rendering", job |-> work[w].job,
                       generation |-> work[w].generation, plan |-> p]
    <2>1. work'[w] = new /\ (\A v \in Workers : v # w => work'[v] = work[v])
          /\ work' = [v \in Workers |-> work'[v]]
      BY <1>4
    <2>2. /\ new # Idle /\ new.at = "rendering" /\ new.job = work[w].job
          /\ new.generation = work[w].generation /\ new.plan = p
      BY DEF Idle
    <2>3. new \in Carrying(p)
      BY <1>2 DEF Planning, Carrying, Planned
    <2> HIDE DEF new
    <2>4. \A v \in Workers : WorkTyped(v)'
      BY <2>1, <2>2, <2>3 DEF WorkTyped
    <2>5. \A v \in Workers : Started(v)'
      BY <1>2, <1>4, <2>1, <2>2 DEF Started
    <2>6. ExecutionsDiffer'
      BY <1>2, <2>1, <2>2 DEF ExecutionsDiffer
    <2>7. \A v \in Workers : PlanKeepsRow(v)'
      BY <1>4, <2>1, <2>2 DEF PlanKeepsRow, RowsOf, Owns
    <2>8. \A h \in DOMAIN preview' : ReadyNotFound(h)'
      BY <1>1, <1>4, <2>1, <2>2 DEF ReadyNotFound, SameFile, ByExecution
    <2>9. JobsTyped' /\ OneRowPerJob' /\ RowMirrorsJob' /\ \A h \in DOMAIN preview' : RowTyped(h)'
      BY <1>4 DEF JobsTyped, OneRowPerJob, RowMirrorsJob, RowTyped
    <2> QED
      BY <2>1, <2>4, <2>5, <2>6, <2>7, <2>8, <2>9
  <1>5. CASE /\ Owns(w) /\ PlanHolds(w)
             /\ work' = [work EXCEPT ![w] =
                           [at |-> "rendering", job |-> @.job, generation |-> @.generation,
                            plan |-> Fingerprint(timeline)]]
             /\ UNCHANGED <<job, preview>>
    <2>1. Fingerprint(timeline) \in RowsOf(work[w].job)
      BY <1>5 DEF PlanHolds
    <2> QED
      BY <1>4, <1>5, <2>1
  <1> QED
    BY <1>3, <1>5 DEF CheckPlan

LEMMA RenderOK ==
  ASSUME PreviewInv, NEW w \in Workers, Render(w)
  PROVE  PreviewInv'
  <1>1. work[w].at = "rendering" /\ work[w] # Idle /\ UNCHANGED files
    BY DEF Render, Idle
  <1>2. CASE Fails(w, TRUE)
    BY <1>1, <1>2, FailsOK
  <1>3. CASE work' = [work EXCEPT ![w].at = "rendered"] /\ UNCHANGED <<job, preview>>
    <2>1. work[w] \in Carrying(work[w].plan) /\ work = [v \in Workers |-> work[v]]
      BY <1>1, WorkShape DEF PreviewInv, Planned
    <2>2. work'[w] = [work[w] EXCEPT !.at = "rendered"]
      BY <1>3, <2>1
    <2>3. GoesOn(w)
      BY <1>1, <2>1, <2>2 DEF GoesOn, Carrying, Planned
    <2>4. work' = [v \in Workers |-> work'[v]] /\ \A v \in Workers : v # w => GoesOn(v)
      BY <1>3, <2>1 DEF GoesOn
    <2> QED
      BY <1>1, <1>3, <2>3, <2>4, ThreadStep
  <1> QED
    BY <1>2, <1>3 DEF Render

LEMMA FailPublishOK ==
  ASSUME PreviewInv, NEW w \in Workers, FailPublish(w)
  PROVE  PreviewInv'
  <1>1. work[w].at = "failing" /\ UNCHANGED files /\ Fails(w, TRUE)
    BY DEF FailPublish
  <1>2. work[w] # Idle
    BY <1>1 DEF Idle
  <1> QED
    BY <1>1, <1>2, FailsOK

LEMMA PublishLostOK ==
  ASSUME PreviewInv, NEW w \in Workers, PublishLost(w)
  PROVE  PreviewInv'
  <1> DEFINE p == work[w].plan
  <1>1. /\ work[w].at = "rendered" /\ Owns(w) /\ UNCHANGED <<job, preview>>
        /\ files' = Put(files, p, ByExecution(w))
        /\ work' = [work EXCEPT ![w].at = "rolledBack"] \/ work' = [work EXCEPT ![w] = Idle]
    BY DEF PublishLost, Moved, Leaves
  <1>2. /\ work[w] \in Carrying(p) /\ work = [v \in Workers |-> work[v]]
        /\ work[w] # Idle
    BY <1>1, WorkShape DEF PreviewInv, Planned, Idle
  <1>3. \A v \in Workers : v # w => work'[v] = work[v]
    BY <1>1, <1>2
  <1>4. work'[w] = Idle \/ work'[w] = [work[w] EXCEPT !.at = "rolledBack"]
    BY <1>1, <1>2
  <1>5. work'[w] # Idle => /\ work'[w] \in Carrying(p) /\ work'[w].job = work[w].job
                           /\ work'[w].generation = work[w].generation /\ work'[w].plan = p
    BY <1>2, <1>4 DEF Carrying, Planned
  <1>6. p \in RowsOf(work[w].job)
    BY <1>1 DEF PreviewInv, PlanKeepsRow, Planned
  <1>7. preview[p].status = "queued"
    BY <1>1, <1>6 DEF PreviewInv, RowMirrorsJob, RowsOf, Owns
  <1>8. \A h : h # p => /\ h \in DOMAIN files' <=> h \in DOMAIN files
                        /\ h \in DOMAIN files => files'[h] = files[h]
    BY <1>1 DEF Put
  <1> HIDE DEF p
  <1>9. \A v \in Workers : Follows(v)
    <2>1. Follows(w)
      BY <1>1, <1>2, <1>5 DEF Follows, WorkTyped, Planned, Idle, p
    <2>2. \A v \in Workers : v # w => Follows(v)
      BY <1>3 DEF Follows, WorkTyped, PreviewInv
    <2> QED
      BY <2>1, <2>2
  <1>10. \A h \in DOMAIN preview' : ReadyNotFound(h)'
    <2> SUFFICES ASSUME NEW h \in DOMAIN preview, preview[h].status = "succeeded"
                 PROVE  /\ preview[h].path = h
                        /\ \A v \in Workers :
                             work'[v].at = "rolledBack" /\ work'[v].plan = h => ~SameFile(v)'
      BY <1>1 DEF ReadyNotFound
    <2>1. /\ preview[h].path = h
          /\ \A v \in Workers :
               work[v].at = "rolledBack" /\ work[v].plan = h => ~SameFile(v)
      BY DEF PreviewInv, ReadyNotFound
    <2>2. h # p
      BY <1>7
    <2>3. \A v \in Workers : work'[v].at = "rolledBack" /\ work'[v].plan = h => v # w
      BY <1>5, <2>2 DEF Idle
    <2> QED
      BY <1>3, <1>8, <2>1, <2>2, <2>3 DEF SameFile, ByExecution
  <1>11. work' = [v \in Workers |-> work'[v]]
    BY <1>1, <1>2
  <1> QED
    BY <1>1, <1>9, <1>10, <1>11, RowsKept DEF PreviewInv

LEMMA CompareOK ==
  ASSUME PreviewInv, NEW w \in Workers, Compare(w)
  PROVE  PreviewInv'
  <1>1. /\ work[w] \in Carrying(work[w].plan) /\ work = [v \in Workers |-> work[v]]
        /\ work[w].at = "rolledBack" /\ UNCHANGED <<job, preview, files>>
    BY WorkShape DEF Compare, PreviewInv, Planned
  <1>2. PICK at \in {"cleaning", "failing"} : work' = [work EXCEPT ![w].at = at]
    BY DEF Compare
  <1>3. GoesOn(w)
    <2>1. work'[w] = [work[w] EXCEPT !.at = at]
      BY <1>1, <1>2
    <2> QED
      BY <1>1, <2>1 DEF GoesOn, Carrying, Planned
  <1>4. work' = [v \in Workers |-> work'[v]] /\ \A v \in Workers : GoesOn(v)
    BY <1>1, <1>2, <1>3 DEF GoesOn
  <1> QED
    BY <1>1, <1>4, ThreadStep

\* A thread that carries a plan goes on to fail.
LEMMA FailingGoesOn ==
  ASSUME PreviewInv, NEW w \in Workers, work[w].at \in Planned,
         work'[w] = [work[w] EXCEPT !.at = "failing"]
  PROVE  GoesOn(w)
  <1>1. work[w] \in Carrying(work[w].plan)
    BY WorkShape DEF PreviewInv
  <1> QED
    BY <1>1 DEF GoesOn, Carrying, Planned

LEMMA UnlinkOK ==
  ASSUME PreviewInv, NEW w \in Workers, Unlink(w)
  PROVE  PreviewInv'
  <1>1. /\ work[w].at \in Planned /\ work = [v \in Workers |-> work[v]]
        /\ UNCHANGED <<job, preview>>
        /\ files' = Restrict(files, DOMAIN files \ {work[w].plan})
        /\ work' = [work EXCEPT ![w].at = "failing"]
    BY DEF Unlink, Removed, PreviewInv, Planned
  <1>2. work' = [v \in Workers |-> work'[v]] /\ \A v \in Workers : GoesOn(v)
    <2>1. work'[w] = [work[w] EXCEPT !.at = "failing"]
      BY <1>1
    <2> QED
      BY <1>1, <2>1, FailingGoesOn DEF GoesOn
  <1>3. DOMAIN files' \subseteq DOMAIN files /\ \A h \in DOMAIN files' : files'[h] = files[h]
    BY <1>1 DEF Restrict
  <1> QED
    BY <1>1, <1>2, <1>3, RemovalStep

LEMMA MoveRacedOK ==
  ASSUME PreviewInv, NEW w \in Workers, NEW v \in Workers, MoveRaced(w, v)
  PROVE  PreviewInv'
  <1>1. /\ work[w].at \in Planned /\ work[v].at \in Planned /\ v # w
        /\ work = [u \in Workers |-> work[u]] /\ UNCHANGED <<job, preview>>
        /\ files' = Restrict(files, DOMAIN files \ {work[w].plan})
        /\ work' = [work EXCEPT ![w].at = "failing", ![v].at = "failing"]
    BY DEF MoveRaced, Removed, PreviewInv, Planned
  <1>2. work' = [u \in Workers |-> work'[u]] /\ \A u \in Workers : GoesOn(u)
    <2>1. /\ work'[w] = [work[w] EXCEPT !.at = "failing"]
          /\ work'[v] = [work[v] EXCEPT !.at = "failing"]
      BY <1>1
    <2>2. \A u \in Workers : u \notin {v, w} => work'[u] = work[u]
      BY <1>1
    <2> QED
      BY <1>1, <2>1, <2>2, FailingGoesOn DEF GoesOn
  <1>3. DOMAIN files' \subseteq DOMAIN files /\ \A h \in DOMAIN files' : files'[h] = files[h]
    BY <1>1 DEF Restrict
  <1> QED
    BY <1>1, <1>2, <1>3, RemovalStep

LEMMA PublishOK ==
  ASSUME PreviewInv, NEW w \in Workers, Publish(w)
  PROVE  PreviewInv'
  <1> USE DEF PreviewInv
  <1>0. work[w].at = "rendered"
    BY DEF Publish
  <1>1. work[w].at = "rendered" /\ work[w] # Idle
    BY <1>0 DEF Idle
  <1>2. CASE ~(Owns(w) /\ RowsOf(work[w].job) # {})
    <2>1. Fails(w, FALSE) /\ UNCHANGED files
      BY <1>2 DEF Publish
    <2> QED
      BY <1>1, <2>1, FailsOK
  <1>3. ASSUME NEW p, NEW j, p = work[w].plan, j = work[w].job, Owns(w), RowsOf(j) # {}
        PROVE  PreviewInv'
    <2>1. /\ files' = Put(files, p, ByExecution(w))
          /\ preview' = [h \in DOMAIN preview |->
               IF h \in RowsOf(j)
               THEN [job |-> j, status |-> "succeeded", path |-> p]
               ELSE preview[h]]
          /\ job' = Ended(j, "succeeded", FALSE)
          /\ work' = [work EXCEPT ![w] = Idle]
      <3>1. /\ files' = Put(files, work[w].plan, ByExecution(w))
            /\ preview' = [h \in DOMAIN preview |->
                 IF h \in RowsOf(work[w].job)
                 THEN [job |-> work[w].job, status |-> "succeeded", path |-> work[w].plan]
                 ELSE preview[h]]
            /\ job' = Ended(work[w].job, "succeeded", FALSE)
            /\ work' = [work EXCEPT ![w] = Idle]
        BY <1>3, Zenon DEF Publish, Moved, Leaves
      <3> QED
        BY <1>3, <3>1
    <2>2. j \in Jobs
      BY <1>1, <1>3, WorkShape
    <2>3. p \in RowsOf(j)
      BY <1>1, <1>3 DEF PlanKeepsRow, Planned
    <2>4. /\ p \in DOMAIN preview /\ preview[p].job = j
          /\ \A h \in DOMAIN preview : h \in RowsOf(j) <=> h = p
      BY <2>3 DEF RowsOf, OneRowPerJob
    <2>5. /\ work'[w] = Idle /\ (\A v \in Workers : v # w => work'[v] = work[v])
          /\ work' = [v \in Workers |-> work'[v]]
      BY <2>1
    <2>6. /\ p \in DOMAIN files' /\ files'[p] = ByExecution(w)
          /\ \A h : h # p => /\ h \in DOMAIN files' <=> h \in DOMAIN files
                             /\ h \in DOMAIN files => files'[h] = files[h]
      BY <2>1 DEF Put
    <2>7. /\ job' \in [Jobs -> JobRow] /\ job'[j].owner = NoWorker /\ job'[j].status = "succeeded"
          /\ job'[j].generation = job[j].generation
          /\ \A i \in Jobs : i # j => job'[i] = job[i]
      <3>1. job' = [job EXCEPT ![j] = Ended(j, "succeeded", FALSE)[j]]
        BY <2>1, <2>2, EndedRow
      <3>2. /\ Ended(j, "succeeded", FALSE)[j] \in JobRow
            /\ Ended(j, "succeeded", FALSE)[j].owner = NoWorker
            /\ Ended(j, "succeeded", FALSE)[j].status = "succeeded"
            /\ Ended(j, "succeeded", FALSE)[j].generation = job[j].generation
        BY <2>2, EndedRow
      <3> QED
        BY <2>2, <3>1, <3>2 DEF JobsTyped
    <2>8. /\ DOMAIN preview' = DOMAIN preview
          /\ preview'[p] = [job |-> j, status |-> "succeeded", path |-> p]
          /\ \A h \in DOMAIN preview : h # p => preview'[h] = preview[h]
      BY <2>1, <2>4
    <2>9. /\ preview'[p].job = j /\ preview'[p].status = "succeeded" /\ preview'[p].path = p
          /\ RowTyped(p)'
      <3> DEFINE row == [job |-> j, status |-> "succeeded", path |-> p]
      <3>1. row \in [job: Jobs, status: {"queued", "succeeded", "failed", "canceled"},
                     path: {p, NoPath}]
        BY <2>2
      <3>2. row.job = j /\ row.status = "succeeded" /\ row.path = p
        OBVIOUS
      <3> HIDE DEF row
      <3> QED
        BY <2>8, <3>1, <3>2 DEF RowTyped, row
    <2>10. Owns(w) /\ work[w].job = j /\ work[w].plan = p
      BY <1>3
    <2>11. JobsTyped'
      BY <2>7 DEF JobsTyped
    <2>12. \A h \in DOMAIN preview' : RowTyped(h)'
      <3>1. \A h \in DOMAIN preview : h # p => RowTyped(h)'
        BY <2>8 DEF RowTyped
      <3> QED
        BY <2>8, <2>9, <3>1
    <2>13. OneRowPerJob'
      BY <2>4, <2>8, <2>9 DEF OneRowPerJob
    <2>14. RowMirrorsJob'
      <3> SUFFICES ASSUME NEW h \in DOMAIN preview
                   PROVE  preview'[h].status = Shown(job'[preview'[h].job].status)
        BY <2>8 DEF RowMirrorsJob, Shown
      <3>1. CASE h = p
        BY <2>7, <2>9, <3>1 DEF Shown
      <3>2. CASE h # p
        <4>1. preview'[h] = preview[h] /\ preview[h].job \in Jobs /\ preview[h].job # j
          BY <2>4, <2>8, <3>2 DEF RowsOf, RowTyped
        <4> QED
          BY <2>7, <4>1 DEF RowMirrorsJob, Shown
      <3> QED
        BY <3>1, <3>2
    <2>15. \A v \in Workers : WorkTyped(v)'
      BY <2>5 DEF WorkTyped
    <2>16. \A v \in Workers : v # w /\ work[v] # Idle => work[v].job \in Jobs
      BY WorkShape
    <2>17. \A v \in Workers : Started(v)'
      BY <2>5, <2>7, <2>16 DEF Started
    <2>18. ExecutionsDiffer'
      BY <2>5 DEF ExecutionsDiffer
    <2>19. \A v \in Workers : PlanKeepsRow(v)'
      <3> SUFFICES ASSUME NEW v \in Workers, work'[v].at \in Planned, Owns(v)'
                   PROVE  work'[v].plan \in RowsOf(work[v].job)'
        BY DEF PlanKeepsRow
      <3>1. v # w
        BY <2>5 DEF Planned, Idle
      <3>2. work'[v] = work[v] /\ work[v] # Idle /\ work[v].job \in Jobs
        BY <2>5, <2>16, <3>1 DEF Planned, Idle
      <3>3. work[v].job # j
        BY <2>7, <3>2 DEF Owns
      <3>4. work[v].plan \in RowsOf(work[v].job)
        BY <2>7, <3>2, <3>3 DEF PlanKeepsRow, Owns
      <3> QED
        BY <2>4, <2>8, <3>2, <3>3, <3>4 DEF RowsOf
    <2>20. \A h \in DOMAIN preview' : ReadyNotFound(h)'
      <3> SUFFICES ASSUME NEW h \in DOMAIN preview, preview'[h].status = "succeeded"
                   PROVE  /\ preview'[h].path = h
                          /\ \A v \in Workers :
                               work'[v].at = "rolledBack" /\ work'[v].plan = h => ~SameFile(v)'
        BY <2>8 DEF ReadyNotFound
      <3>1. \A v \in Workers : work'[v].at = "rolledBack" =>
              v # w /\ work'[v] = work[v] /\ work[v] # Idle
        BY <2>5 DEF Idle
      <3>2. CASE h = p
        <4>1. \A v \in Workers : work'[v].at = "rolledBack" => ByExecution(v)' # ByExecution(w)
          BY <1>1, <3>1 DEF ExecutionsDiffer, ByExecution
        <4> QED
          BY <2>6, <2>9, <3>2, <4>1 DEF SameFile
      <3>3. CASE h # p
        BY <2>6, <2>8, <3>1, <3>3 DEF ReadyNotFound, SameFile, ByExecution
      <3> QED
        BY <3>2, <3>3
    <2> QED
      BY <2>5, <2>11, <2>12, <2>13, <2>14, <2>15, <2>17, <2>18, <2>19, <2>20
  <1> QED
    BY <1>2, <1>3

LEMMA NextOK == PreviewInv /\ [Next]_vars => PreviewInv'
  <1> SUFFICES ASSUME PreviewInv, [Next]_vars PROVE PreviewInv'
    OBVIOUS
  <1>1. CASE UNCHANGED vars
    BY <1>1, TimelineStep DEF vars
  <1>2. CASE EditTimeline
    <2>1. UNCHANGED <<job, preview, files, work>>
      BY <1>2 DEF EditTimeline, Reorder, PatchText, PatchTiming, RestoreAuto, Fit, Edited
    <2> QED
      BY <2>1, TimelineStep
  <1>3. ASSUME NEW j \in Jobs,
               (\E force \in BOOLEAN : Create(j, force)) \/ Retry(j) \/ Cancel(j) \/ LeaseExpires(j)
        PROVE  PreviewInv'
    BY <1>3, CreateOK, RetryOK, CancelOK, LeaseExpiresOK
  <1>4. CASE DeleteProject
    BY <1>4, DeleteProjectOK
  <1>5. ASSUME NEW w \in Workers, Execute(w) PROVE PreviewInv'
    BY <1>5, ClaimOK, GiveUpOK, CheckPlanOK, RenderOK, PublishOK, PublishLostOK, CompareOK,
       UnlinkOK, MoveRacedOK, FailPublishOK, CrashOK, RenewLeaseOK DEF Execute
  <1> QED
    BY <1>1, <1>2, <1>3, <1>4, <1>5 DEF Next

-----------------------------------------------------------------------------
(* Who removes a file, and who decides to *)

\* A file that disappears in a step of an execution was about to be unlinked.
LEMMA FilesKept ==
  ASSUME NEW w \in Workers, Execute(w), NEW h \in DOMAIN files, ~Threatened(h)
  PROVE  h \in DOMAIN files'
  <1>1. CASE UNCHANGED files
    BY <1>1
  <1>2. CASE Moved(w)
    BY <1>2 DEF Moved, Put
  <1>3. CASE Unlink(w) \/ \E v \in Workers : MoveRaced(w, v)
    <2>1. Removed(work[w].plan) /\ h # work[w].plan
      BY <1>3 DEF Unlink, MoveRaced, Threatened
    <2> QED
      BY <2>1 DEF Removed, Restrict
  <1> QED
    BY <1>1, <1>2, <1>3 DEF Execute, Claim, GiveUp, CheckPlan, Render, Publish, PublishLost,
       Compare, FailPublish, Crash, RenewLease

\* An execution decides to unlink only what it has found to be its own file.
LEMMA Deciding ==
  ASSUME PreviewInv, NEW w \in Workers, Execute(w), NEW v \in Workers, work'[v].at = "cleaning"
  PROVE  \/ work'[v] = work[v]
         \/ work[v].at = "rolledBack" /\ SameFile(v) /\ work'[v].plan = work[v].plan
  <1>w. work = [u \in Workers |-> work[u]]
    BY DEF PreviewInv
  <1>1. CASE v # w /\ ~MoveRaced(w, v)
    <2>1. CASE \E u \in Workers : MoveRaced(w, u)
      BY <1>1, <1>w, <2>1 DEF MoveRaced
    <2>2. CASE \/ UNCHANGED work \/ Leaves(w) \/ CheckPlan(w) \/ Render(w) \/ PublishLost(w)
               \/ Compare(w) \/ Unlink(w) \/ \E j \in Jobs : Claim(w, j)
      BY <1>1, <1>w, <2>2 DEF Leaves, CheckPlan, Render, PublishLost, Compare, Unlink, Claim,
         Fails
    <2> QED
      BY <2>1, <2>2 DEF Execute, GiveUp, Publish, FailPublish, Crash, RenewLease, Fails
  <1>2. CASE MoveRaced(w, v)
    <2>1. v # w /\ work[v] \in Carrying(work[v].plan)
      BY <1>2, WorkShape DEF MoveRaced, PreviewInv, Planned
    <2>2. work'[v] = [work[v] EXCEPT !.at = "failing"]
      BY <1>2, <1>w, <2>1 DEF MoveRaced
    <2> QED
      BY <2>1, <2>2 DEF Carrying
  <1>3. CASE v = w
    <2>1. CASE UNCHANGED work
      BY <2>1
    <2>2. CASE Leaves(w)
      BY <1>3, <1>w, <2>2 DEF Leaves, Idle
    <2>3. CASE \E j \in Jobs : Claim(w, j)
      BY <1>3, <1>w, <2>3 DEF Claim
    <2>4. CASE CheckPlan(w) /\ ~Leaves(w)
      BY <1>3, <1>w, <2>4 DEF CheckPlan, Fails
    <2>5. CASE Compare(w)
      <3>1. work[w].at = "rolledBack"
        BY <2>5 DEF Compare
      <3>2. SameFile(w)
        BY <1>3, <1>w, <2>5, <3>1, WorkShape DEF Compare, PreviewInv, Planned, Carrying
      <3>3. work'[w] = [work[w] EXCEPT !.at = "cleaning"]
        BY <1>w, <2>5, <3>2 DEF Compare
      <3> QED
        BY <1>3, <3>1, <3>2, <3>3
    <2>6. CASE /\ Render(w) \/ PublishLost(w) \/ Unlink(w) \/ \E u \in Workers : MoveRaced(w, u)
               /\ ~Leaves(w)
      <3>1. work[w] \in Carrying(work[w].plan)
        BY <2>6, WorkShape DEF Render, PublishLost, Unlink, MoveRaced, PreviewInv, Planned
      <3> QED
        BY <1>3, <1>w, <2>6, <3>1 DEF Render, PublishLost, Unlink, MoveRaced, Fails, Carrying
    <2> QED
      BY <2>1, <2>2, <2>3, <2>4, <2>5, <2>6 DEF Execute, GiveUp, CheckPlan, Publish,
         FailPublish, Crash, RenewLease, Fails
  <1> QED
    BY <1>1, <1>2, <1>3

LEMMA SafeStep ==
  ASSUME PreviewInv, PreviewInv', Next, NEW h \in DOMAIN preview, Safe(h), Ready(h)'
  PROVE  Safe(h)'
  <1>1. /\ h \in DOMAIN preview /\ preview[h].status = "succeeded" /\ preview[h].path = h
        /\ h \in DOMAIN files /\ ~Threatened(h)
    BY DEF Safe, Valid, PreviewInv, ReadyNotFound
  <1>2. h \in DOMAIN preview' /\ preview'[h].status = "succeeded" /\ preview'[h].path = h
    BY DEF Ready, PreviewInv, ReadyNotFound
  <1> SUFFICES h \in DOMAIN files' /\ ~Threatened(h)'
    BY <1>2 DEF Safe, Valid
  <1>3. CASE UNCHANGED <<files, work>>
    BY <1>1, <1>3 DEF Threatened
  <1>4. ASSUME NEW w \in Workers, Execute(w)
        PROVE  h \in DOMAIN files' /\ ~Threatened(h)'
    <2>1. h \in DOMAIN files'
      BY <1>1, <1>4, FilesKept
    <2>2. ASSUME NEW v \in Workers, work'[v].at = "cleaning", work'[v].plan = h
          PROVE  FALSE
      <3>1. CASE work'[v] = work[v]
        BY <1>1, <2>2, <3>1 DEF Threatened
      <3>2. CASE work[v].at = "rolledBack" /\ SameFile(v) /\ work'[v].plan = work[v].plan
        BY <1>1, <2>2, <3>2 DEF PreviewInv, ReadyNotFound
      <3> QED
        BY <1>4, <2>2, <3>1, <3>2, Deciding
    <2> QED
      BY <2>1, <2>2 DEF Threatened
  <1>5. CASE EditTimeline
    BY <1>3, <1>5 DEF EditTimeline, Reorder, PatchText, PatchTiming, RestoreAuto, Fit, Edited
  <1>6. ASSUME NEW j \in Jobs,
               (\E force \in BOOLEAN : Create(j, force)) \/ Retry(j) \/ Cancel(j) \/ LeaseExpires(j)
        PROVE  h \in DOMAIN files' /\ ~Threatened(h)'
    BY <1>3, <1>6 DEF Create, Retry, Cancel, LeaseExpires
  <1>7. CASE DeleteProject
    BY <1>2, <1>7 DEF DeleteProject, NoRow
  <1> QED
    BY <1>4, <1>5, <1>6, <1>7 DEF Next

-----------------------------------------------------------------------------
(* The theorems *)

\* The inductive invariant: types of the rows and threads, one row per job,
\* executions that differ, plans whose row is kept, and ready rows whose file no cleanup takes for its own.
THEOREM RowsCorrect == Spec => []PreviewInv
  BY InitOK, NextOK, PTL DEF Spec

\* The row of a preview tells how its present job fares (create_preview_job,
\* retry_job, cancel_job, _process_preview, _fail and claim write both).
THEOREM RowsMirror == Spec => []RowMirrorsJob
  <1>1. PreviewInv => RowMirrorsJob
    BY DEF PreviewInv
  <1> QED
    BY <1>1, RowsCorrect, PTL

\* A preview that is ready shows the timeline it was asked for, whatever was
\* edited while it was rendered (_process_preview's comparison of the hash).
THEOREM PreviewsShowTheirTimeline == Spec => []ReadyShowsItsTimeline
  <1>1. PreviewInv => ReadyShowsItsTimeline
    BY DEF PreviewInv, ReadyShowsItsTimeline, ReadyNotFound
  <1> QED
    BY <1>1, RowsCorrect, PTL

\* The file of a ready preview that is there, and that no execution had decided to
\* unlink when it was published, stays as long as the preview is ready
\* (cleanup_failed_publish compares before it unlinks).
THEOREM SafeFilesStay == Spec => SafeFileStays
  <1>1. PreviewInv /\ PreviewInv' /\ [Next]_vars =>
          [\A h \in DOMAIN preview : Safe(h) /\ Ready(h)' => Safe(h)']_vars
    <2> SUFFICES ASSUME PreviewInv, PreviewInv', Next,
                        NEW h \in DOMAIN preview, Safe(h), Ready(h)'
                 PROVE  Safe(h)'
      OBVIOUS
    <2> QED
      BY SafeStep
  <1> QED
    BY <1>1, RowsCorrect, PTL DEF Spec, SafeFileStays

\* An execution that owns its job keeps the row it renders for, although a forced
\* request re-points rows (create_preview_job).
THEOREM RendersKeepRows == Spec => []RenderKeepsItsRow
  <1>1. PreviewInv => RenderKeepsItsRow
    <2> SUFFICES ASSUME PreviewInv, NEW w \in Workers,
                        work[w].at \in {"rendering", "rendered"}, Owns(w)
                 PROVE  \E h \in RowsOf(work[w].job) :
                          h = work[w].plan /\ preview[h].status = "queued"
      BY DEF RenderKeepsItsRow
    <2>1. work[w].plan \in RowsOf(work[w].job)
      BY DEF PreviewInv, PlanKeepsRow, Planned
    <2>2. preview[work[w].plan].status = "queued"
      BY <2>1 DEF PreviewInv, RowMirrorsJob, RowsOf, Owns
    <2> QED
      BY <2>1, <2>2
  <1> QED
    BY <1>1, RowsCorrect, PTL
=============================================================================
