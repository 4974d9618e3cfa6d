---------------------------- MODULE ImageGeneration ----------------------------
(***************************************************************************)
(* The queue of paid image generations: image_worker.py, its provider      *)
(* (image_generation.py) and the requests of services/image_generations.py.*)
(*                                                                         *)
(* A generation is a row, a staging directory and a draft file.  A step is *)
(* one transaction, one file operation or one message of the provider, so  *)
(* that a crash, a cancellation or a deletion can fall between any two.    *)
(* A file deleted after a commit may stay: the process may end before it,  *)
(* and a failing unlink is only logged.                                    *)
(***************************************************************************)
EXTENDS Integers, FiniteSets

CONSTANTS
  Generations,      \* rows of image_generations
  Workers,          \* image workers; serve.py runs exactly one
  NoWorker,         \* lease_owner IS NULL
  HardMaxAttempts,  \* IMAGE_GENERATION_HARD_MAX_ATTEMPTS (4)
  MaxAttempts,      \* max_attempts of a new row (2)
  MaxPending,       \* settings.image_max_pending (5)
  MaxCrashes,       \* bound: deaths of a worker and exceptions in it
  MaxReadFaults     \* bound: reads of a staged result that fail

ASSUME ImageAssumption ==
  /\ IsFiniteSet(Generations)
  /\ NoWorker \notin Workers
  /\ MaxAttempts \in Nat \ {0}
  /\ HardMaxAttempts \in Nat /\ HardMaxAttempts >= MaxAttempts
  /\ MaxPending \in Nat \ {0}
  /\ MaxCrashes \in Nat
  /\ MaxReadFaults \in Nat

VARIABLES
  row,      \* [Generations -> row of image_generations]
  staging,  \* [Generations -> executions with a submitted, with a ready marker]
  drafts,   \* [Generations -> executions whose draft file is on disk]
  work,     \* [Workers -> what the worker is doing]
  calls,    \* history: provider calls sent for a generation
  owed,     \* history: the last call may have been charged and nobody agreed to another
  imports,  \* history: assets created from a generation
  crashes, readFaults

vars == <<row, staging, drafts, work, calls, owed, imports, crashes, readFaults>>
history == <<calls, owed, imports>>
bounds == <<crashes, readFaults>>

NoDraft == 0

\* lease: no lease, one that has not run out, one that has.
Row == [status: {"absent", "queued", "running", "succeeded", "failed", "canceled", "deleted"},
        attempt: Nat, max: Nat, generation: Nat, retryable: BOOLEAN,
        owner: Workers \union {NoWorker}, lease: {"none", "live", "expired"},
        autoImport: BOOLEAN, draft: Nat, asset: BOOLEAN, discarded: BOOLEAN, expired: BOOLEAN]

NewRow(auto) ==
  [status |-> "queued", attempt |-> 0, max |-> MaxAttempts, generation |-> 0,
   retryable |-> TRUE, owner |-> NoWorker, lease |-> "none", autoImport |-> auto,
   draft |-> NoDraft, asset |-> FALSE, discarded |-> FALSE, expired |-> FALSE]

NoFiles == [submitted |-> {}, ready |-> {}]

Failures == {"retryable", "permanent", "ambiguous", "internal"}

Idle == [at |-> "idle"]

\* An execution holds its claim; "failing" also what went wrong.
Execution ==
  [at: {"claimed", "unsent", "confirmed", "submitted", "calling", "answered", "staged",
        "drafted", "published", "fenced"},
   id: Generations, generation: Nat, reuse: BOOLEAN]
  \union [at: {"failing"}, id: Generations, generation: Nat, failure: Failures]
Import   == [at: {"importing"}, id: Generations]
Cleaning == [at: {"findStaging", "cleanOutput"}]
            \union [at: {"cleanStaging"}, doomed: SUBSET Generations]

TypeOK ==
  /\ row \in [Generations -> Row]
  /\ staging \in [Generations -> [submitted: SUBSET Nat, ready: SUBSET Nat]]
  /\ drafts \in [Generations -> SUBSET Nat]
  /\ work \in [Workers -> {Idle} \union Execution \union Import \union Cleaning]
  /\ calls \in [Generations -> Nat]
  /\ owed \in [Generations -> BOOLEAN]
  /\ imports \in [Generations -> Nat]
  /\ crashes \in 0..MaxCrashes
  /\ readFaults \in 0..MaxReadFaults
  /\ \A g \in Generations : row[g].owner = NoWorker <=> row[g].lease = "none"

Init ==
  /\ row = [g \in Generations |-> [NewRow(FALSE) EXCEPT !.status = "absent"]]
  /\ staging = [g \in Generations |-> NoFiles]
  /\ drafts = [g \in Generations |-> {}]
  /\ work = [w \in Workers |-> Idle]
  /\ calls = [g \in Generations |-> 0]
  /\ owed = [g \in Generations |-> FALSE]
  /\ imports = [g \in Generations |-> 0]
  /\ crashes = 0
  /\ readFaults = 0

-----------------------------------------------------------------------------
(* Rows, fences and files *)

Pending  == {g \in Generations : row[g].status \in {"queued", "running"}}
Finished == {"succeeded", "failed", "canceled"}

\* Weakened form: the row is updated by its identifier alone.
Unfenced(w) == TRUE

\* The guard of _renew_lease, _snapshot, _apply_success and _apply_failure; an
\* execution_generation belongs to one attempt, which the code compares too.
Owns(w) ==
  LET r == row[work[w].id]
  IN  r.status = "running" /\ r.generation = work[w].generation /\ r.owner = w

\* Weakened form: the owner is cleared, the time of the lease is not.
OwnerCleared(r) == [r EXCEPT !.owner = NoWorker]

Unleased(r) == [r EXCEPT !.owner = NoWorker, !.lease = "none"]

\* _load_ready_bundle, when the read does not fail.
Staged(g) == staging[g].ready # {}

\* Weakened form: the marker of the last execution is not looked for.
NeverSubmitted(g) == FALSE

\* submitted_without_ready, for a row whose result was not loaded.
SubmittedUnanswered(g) ==
  row[g].status = "running" /\ row[g].generation \in staging[g].submitted

Moved(w, point) == [work EXCEPT ![w].at = point]
Failing(w, failure) ==
  [work EXCEPT ![w] = [at |-> "failing", id |-> work[w].id,
                       generation |-> work[w].generation, failure |-> failure]]

\* An after_commit deletion of the staging directory: done, or left behind.
StagingRemoved(g) == staging' \in {staging, [staging EXCEPT ![g] = NoFiles]}

\* An after_commit deletion of the draft file a row refers to.
DraftRemoved(g) == drafts' \in {drafts, [drafts EXCEPT ![g] = @ \ {row[g].draft}]}

\* What cancel, and discard of a pending row, do to the row.
Canceled(r) ==
  [Unleased(r) EXCEPT !.status = "canceled", !.retryable = FALSE,
                      !.generation = r.generation + 1]

-----------------------------------------------------------------------------
(* Requests; _lock_writes makes each of them one step *)

\* create_image_generation: an Idempotency-Key finds the row it created before.
Create(g, auto) ==
  /\ row[g].status = "absent"
  /\ Cardinality(Pending) < MaxPending
  /\ row' = [row EXCEPT ![g] = NewRow(auto)]
  /\ UNCHANGED <<staging, drafts, work, history, bounds>>

Retry(g) ==
  /\ row[g].status = "failed" /\ ~row[g].discarded
  /\ row[g].attempt < HardMaxAttempts
  /\ row[g].retryable
  /\ LET again == row[g].attempt + 1
         limit == IF row[g].max > again THEN row[g].max ELSE again
     IN  row' = [row EXCEPT ![g] =
                   [Unleased(@) EXCEPT !.status = "queued",
                      !.max = IF limit < HardMaxAttempts THEN limit ELSE HardMaxAttempts]]
  /\ owed' = [owed EXCEPT ![g] = FALSE]
  /\ UNCHANGED <<staging, drafts, work, calls, imports, bounds>>

Cancel(g) ==
  /\ g \in Pending
  /\ row' = [row EXCEPT ![g] = Canceled(@)]
  /\ StagingRemoved(g)
  /\ UNCHANGED <<drafts, work, history, bounds>>

Discardable(g) ==
  row[g].status \notin {"absent", "deleted"} /\ ~row[g].asset /\ ~row[g].discarded

Discard(g) ==
  /\ Discardable(g)
  /\ row' = [row EXCEPT ![g] =
               [(IF g \in Pending THEN Canceled(@) ELSE @)
                  EXCEPT !.discarded = TRUE, !.draft = NoDraft]]
  /\ DraftRemoved(g)
  /\ StagingRemoved(g)
  /\ UNCHANGED <<work, history, bounds>>

\* Weakened form: whether the draft was imported or discarded is not asked.
AcceptableUnchecked(g) == row[g].status = "succeeded"

\* The checks of accept_image_generation for a draft that is not imported yet.
Acceptable(g) ==
  /\ row[g].status = "succeeded" /\ ~row[g].asset
  /\ ~row[g].discarded
  /\ row[g].draft \in drafts[g]

\* The new asset and the row are one transaction; an imported draft is answered
\* with its asset and nothing changes.
Imported(g) ==
  /\ Acceptable(g)
  /\ row' = [row EXCEPT ![g] = [Unleased(@) EXCEPT !.asset = TRUE, !.draft = NoDraft]]
  /\ imports' = [imports EXCEPT ![g] = @ + 1]
  /\ DraftRemoved(g)
  /\ StagingRemoved(g)

Accept(g) == Imported(g) /\ UNCHANGED <<work, calls, owed, bounds>>

\* delete_asset: the foreign key sets asset_id to NULL.
DeleteAsset(g) ==
  /\ row[g].asset
  /\ row' = [row EXCEPT ![g].asset = FALSE]
  /\ UNCHANGED <<staging, drafts, work, history, bounds>>

\* delete_project deletes the generations of its segments.
DeleteProject(g) ==
  /\ row[g].status \notin {"absent", "deleted"}
  /\ row' = [row EXCEPT ![g] =
               [Unleased(@) EXCEPT !.status = "deleted", !.generation = row[g].generation + 1,
                                   !.draft = NoDraft, !.asset = FALSE]]
  /\ DraftRemoved(g)
  /\ StagingRemoved(g)
  /\ UNCHANGED <<work, history, bounds>>

-----------------------------------------------------------------------------
(* Claims *)

\* Weakened form: an execution that died is not looked for.
QueuedOnly == {g \in Generations : row[g].status = "queued" /\ ~row[g].discarded}

\* The rows a claim looks at.
Candidates ==
  {g \in Generations :
     /\ ~row[g].discarded /\ ~row[g].asset
     /\ \/ row[g].status = "queued"
        \/ row[g].status = "running" /\ row[g].lease = "expired"}

\* Candidates that are failed instead of being taken, unless their result was
\* loaded: the outcome of a sent request is unknown, or no attempt is left.
Hopeless(loaded) ==
  {g \in Candidates \ loaded :
     \/ SubmittedUnanswered(g)
     \/ row[g].status = "queued" /\ row[g].attempt >= row[g].max}

Refused(r) ==
  [Unleased(r) EXCEPT !.status = "failed", !.retryable = r.attempt < HardMaxAttempts,
                      !.generation = IF r.status = "running" THEN r.generation + 1
                                     ELSE r.generation]

\* Weakened form: only the first execution spends an attempt.
SpentOnce(g, loaded) == IF row[g].attempt = 0 THEN 1 ELSE 0

\* A recovered execution and a stored result have spent their attempt already.
Spent(g, loaded) == IF row[g].status = "queued" /\ g \notin loaded THEN 1 ELSE 0

Taken(w, g, loaded) ==
  [row[g] EXCEPT !.status = "running", !.attempt = @ + Spent(g, loaded),
                 !.generation = @ + 1, !.owner = w, !.lease = "live", !.retryable = FALSE]

\* claim: the candidates before the one it takes are failed; without one to
\* take, all the hopeless ones.  `bad` are the results that cannot be read.
Claim(w, passed, taken, bad) ==
  /\ work[w] = Idle
  /\ bad \subseteq {g \in Candidates : Staged(g)}
  /\ readFaults + Cardinality(bad) <= MaxReadFaults
  /\ readFaults' = readFaults + Cardinality(bad)
  /\ LET loaded == {g \in Candidates : Staged(g)} \ bad
         hopeless == Hopeless(loaded)
     IN  /\ passed \subseteq hopeless
         /\ taken \subseteq Candidates \ hopeless
         /\ Cardinality(taken) <= 1
         /\ taken = {} => Candidates \ hopeless = {} /\ passed = hopeless
         /\ passed \union taken # {}
         /\ row' = [g \in Generations |->
                      CASE g \in passed -> Refused(row[g])
                        [] g \in taken  -> Taken(w, g, loaded)
                        [] OTHER        -> row[g]]
         /\ work' = [work EXCEPT ![w] =
                       IF taken = {} THEN Idle
                       ELSE LET g == CHOOSE g \in taken : TRUE
                            IN  [at |-> "claimed", id |-> g, reuse |-> g \in loaded,
                                 generation |-> row[g].generation + 1]]
  /\ UNCHANGED <<staging, drafts, history, crashes>>

\* The lease thread runs as long as the execution does.
RenewLease(w) ==
  /\ work[w].at \in {"claimed", "unsent", "confirmed", "submitted", "calling", "answered",
                     "staged", "drafted", "published", "fenced", "failing"}
  /\ Owns(w)
  /\ row' = [row EXCEPT ![work[w].id].lease = "live"]
  /\ UNCHANGED <<staging, drafts, work, history, bounds>>

-----------------------------------------------------------------------------
(* One execution: process *)

\* _snapshot and the load of a stored result.
FindResult(w, bad) ==
  LET g      == work[w].id
      loaded == Staged(g) /\ ~bad
      unknown == work[w].reuse \/ work[w].generation \in staging[g].submitted
  IN
  /\ work[w].at = "claimed"
  /\ bad => Staged(g) /\ readFaults < MaxReadFaults
  /\ readFaults' = IF bad THEN readFaults + 1 ELSE readFaults
  /\ work' = CASE ~Owns(w) -> [work EXCEPT ![w] = Idle]
               [] Owns(w) /\ loaded -> Moved(w, "staged")
               [] Owns(w) /\ ~loaded /\ unknown -> Failing(w, "ambiguous")
               [] OTHER -> Moved(w, "unsent")
  /\ UNCHANGED <<row, staging, drafts, history, crashes>>

\* Weakened form: the ownership is taken for granted.
ConfirmUnchecked(w) ==
  /\ work[w].at = "unsent"
  /\ work' = Moved(w, "confirmed")
  /\ UNCHANGED <<row, staging, drafts, history, bounds>>

\* The ownership is renewed once more before the paid call.
ConfirmOwnership(w) ==
  /\ work[w].at = "unsent"
  /\ IF Owns(w)
     THEN /\ row' = [row EXCEPT ![work[w].id].lease = "live"]
          /\ work' = Moved(w, "confirmed")
     ELSE /\ work' = [work EXCEPT ![w] = Idle]
          /\ UNCHANGED row
  /\ UNCHANGED <<staging, drafts, history, bounds>>

WriteMarker(w) ==
  /\ work[w].at = "confirmed"
  /\ staging' = [staging EXCEPT ![work[w].id].submitted = @ \union {work[w].generation}]
  /\ work' = Moved(w, "submitted")
  /\ UNCHANGED <<row, drafts, history, bounds>>

\* generate_image posts the request.
Send(w) ==
  /\ work[w].at = "submitted"
  /\ work' = Moved(w, "calling")
  /\ calls' = [calls EXCEPT ![work[w].id] = @ + 1]
  /\ owed' = [owed EXCEPT ![work[w].id] = TRUE]
  /\ UNCHANGED <<row, staging, drafts, imports, bounds>>

AnswerImage(w) ==
  /\ work[w].at = "calling"
  /\ work' = Moved(w, "answered")
  /\ UNCHANGED <<row, staging, drafts, history, bounds>>

\* 429 and a failed connection are retryable and not charged; another status, or
\* an invalid image, is permanent; 5xx, a timeout or a lost answer is ambiguous.
AnswerFailure(w, failure) ==
  /\ work[w].at = "calling"
  /\ failure \in {"retryable", "permanent", "ambiguous"}
  /\ work' = Failing(w, failure)
  /\ owed' = [owed EXCEPT ![work[w].id] = failure # "retryable"]
  /\ UNCHANGED <<row, staging, drafts, calls, imports, bounds>>

\* _persist_ready_bundle writes the ready marker last.
PersistReady(w) ==
  /\ work[w].at = "answered"
  /\ staging' = [staging EXCEPT ![work[w].id].ready = @ \union {work[w].generation}]
  /\ work' = Moved(w, "staged")
  /\ UNCHANGED <<row, drafts, history, bounds>>

WriteDraft(w) ==
  /\ work[w].at = "staged"
  /\ drafts' = [drafts EXCEPT ![work[w].id] = @ \union {work[w].generation}]
  /\ work' = Moved(w, "drafted")
  /\ UNCHANGED <<row, staging, history, bounds>>

\* _apply_success: the row refers to the draft, or the draft is deleted.
ApplySuccess(w) ==
  LET g == work[w].id IN
  /\ work[w].at = "drafted"
  /\ IF Owns(w)
     THEN /\ row' = [row EXCEPT ![g] =
                       [Unleased(@) EXCEPT !.status = "succeeded", !.retryable = FALSE,
                          !.draft = work[w].generation, !.expired = FALSE]]
          /\ DraftRemoved(g)
          /\ work' = Moved(w, "published")
     ELSE /\ drafts' = [drafts EXCEPT ![g] = @ \ {work[w].generation}]
          /\ work' = Moved(w, "fenced")
          /\ UNCHANGED row
  /\ UNCHANGED <<staging, history, bounds>>

\* The row is the canonical copy now; an automatic import follows.
AfterSuccess(w) ==
  LET g == work[w].id IN
  /\ work[w].at = "published"
  /\ staging' = [staging EXCEPT ![g] = NoFiles]
  /\ work' = [work EXCEPT ![w] = IF row[g].autoImport THEN [at |-> "importing", id |-> g]
                                 ELSE Idle]
  /\ UNCHANGED <<row, drafts, history, bounds>>

\* _cleanup_fenced_staging: none of the states it asks for is ever left.
AfterFenced(w) ==
  LET g == work[w].id IN
  /\ work[w].at = "fenced"
  /\ staging' = IF row[g].asset \/ row[g].discarded
                    \/ row[g].status \in {"deleted", "succeeded", "canceled"}
                THEN [staging EXCEPT ![g] = NoFiles] ELSE staging
  /\ work' = [work EXCEPT ![w] = Idle]
  /\ UNCHANGED <<row, drafts, history, bounds>>

\* No further call may be made without a person's consent.
Ambiguous(w) ==
  \/ work[w].failure = "ambiguous"
  \/ work[w].failure = "internal" /\ work[w].generation \in staging[work[w].id].submitted

Failed(r, retryable, ambiguous) ==
  IF retryable /\ r.attempt < r.max
  THEN [Unleased(r) EXCEPT !.status = "queued", !.retryable = TRUE]
  ELSE [Unleased(r) EXCEPT !.status = "failed",
          !.retryable = (retryable \/ ambiguous) /\ r.attempt < HardMaxAttempts]

\* _apply_failure, and the removal of the attempt's own files unless they may be
\* needed; the process may end before it.
ApplyFailure(w) ==
  LET g == work[w].id
      n == work[w].generation
      removed == [submitted |-> staging[g].submitted \ {n}, ready |-> staging[g].ready \ {n}]
  IN
  /\ work[w].at = "failing"
  /\ row' = IF Owns(w)
            THEN [row EXCEPT ![g] = Failed(@, work[w].failure = "retryable", Ambiguous(w))]
            ELSE row
  /\ IF work[w].failure \in {"retryable", "permanent"}
     THEN staging' \in {staging, [staging EXCEPT ![g] = removed]}
     ELSE UNCHANGED staging
  /\ work' = [work EXCEPT ![w] = Idle]
  /\ UNCHANGED <<drafts, history, bounds>>

\* An exception inside process: with a stored result the row is left for
\* recovery, otherwise it fails.  _apply_success removes its draft first.
Unexpected(w) ==
  LET g == work[w].id IN
  /\ work[w].at \in {"unsent", "confirmed", "calling", "answered", "staged", "drafted"}
  /\ crashes < MaxCrashes
  /\ crashes' = crashes + 1
  /\ drafts' = [drafts EXCEPT ![g] = @ \ {work[w].generation}]
  /\ work' = IF Staged(g) THEN [work EXCEPT ![w] = Idle] ELSE Failing(w, "internal")
  /\ UNCHANGED <<row, staging, history, readFaults>>

-----------------------------------------------------------------------------
(* Automatic import *)

\* Weakened form: the lease of an import that died is respected for ever.
ImportUnclaimed(g) == row[g].owner = NoWorker

ImportFree(g) == row[g].owner = NoWorker \/ row[g].lease = "expired"

\* _claim_auto_import
ClaimImport(w, g) ==
  /\ work[w] = Idle
  /\ row[g].status = "succeeded" /\ row[g].autoImport
  /\ ~row[g].asset /\ ~row[g].discarded
  /\ ImportFree(g)
  /\ row' = [row EXCEPT ![g].owner = w, ![g].lease = "live"]
  /\ work' = [work EXCEPT ![w] = [at |-> "importing", id |-> g]]
  /\ UNCHANGED <<staging, drafts, history, bounds>>

\* _auto_accept: with the selection, or without it when the segment has changed.
AutoAccept(w) ==
  /\ work[w].at = "importing"
  /\ Imported(work[w].id)
  /\ work' = [work EXCEPT ![w] = Idle]
  /\ UNCHANGED <<calls, owed, bounds>>

\* The import is refused or raises; _defer_auto_import puts it off.
DeferImport(w) ==
  LET g == work[w].id IN
  /\ work[w].at = "importing"
  /\ IF Acceptable(g) THEN crashes < MaxCrashes /\ crashes' = crashes + 1
                      ELSE UNCHANGED crashes
  /\ row' = IF /\ row[g].status = "succeeded" /\ ~row[g].asset /\ ~row[g].discarded
               /\ row[g].owner \in {NoWorker, w}
            THEN [row EXCEPT ![g] = Unleased(@)] ELSE row
  /\ work' = [work EXCEPT ![w] = Idle]
  /\ UNCHANGED <<staging, drafts, history, readFaults>>

-----------------------------------------------------------------------------
(* Cleaning: cleanup_expired_drafts and the two sweeps it ends with *)

Retired(g) ==
  ~row[g].asset /\ ~row[g].discarded /\ row[g].expired /\ row[g].status \in Finished

DiscardExpired(w) ==
  /\ work[w] = Idle
  /\ row' = [g \in Generations |->
               IF Retired(g) THEN [row[g] EXCEPT !.discarded = TRUE, !.draft = NoDraft]
               ELSE row[g]]
  /\ \E left \in SUBSET {g \in Generations : Retired(g)} :
       drafts' = [g \in Generations |->
                    IF Retired(g) /\ g \notin left THEN drafts[g] \ {row[g].draft}
                    ELSE drafts[g]]
  /\ work' = [work EXCEPT ![w] = [at |-> "findStaging"]]
  /\ UNCHANGED <<staging, history, bounds>>

\* Weakened form: a failed generation loses its staging at once.
OverFailed(r) == r.status \in {"succeeded", "canceled", "failed", "deleted"}

\* Weakened form: a discarded row is judged by its status.
OverByStatus(r) ==
  \/ r.status \in {"succeeded", "canceled", "deleted"}
  \/ r.status = "failed" /\ ~r.retryable

\* The rows whose staging directory nothing can need.
Over(r) ==
  \/ r.asset \/ r.discarded
  \/ r.status \in {"succeeded", "canceled", "deleted"}
  \/ r.status = "failed" /\ (~r.retryable \/ r.expired)

\* cleanup_staging_orphans reads the rows and deletes the directories later.
FindStagingOrphans(w) ==
  /\ work[w].at = "findStaging"
  /\ work' = [work EXCEPT ![w] =
                [at |-> "cleanStaging",
                 doomed |-> {g \in Generations : staging[g] # NoFiles /\ Over(row[g])}]]
  /\ UNCHANGED <<row, staging, drafts, history, bounds>>

CleanStaging(w) ==
  /\ work[w].at = "cleanStaging"
  /\ staging' = [g \in Generations |-> IF g \in work[w].doomed THEN NoFiles ELSE staging[g]]
  /\ work' = [work EXCEPT ![w] = [at |-> "cleanOutput"]]
  /\ UNCHANGED <<row, drafts, history, bounds>>

\* Weakened form: the rows' references are not read.
UnreferencedAll(g, n) == TRUE

Unreferenced(g, n) == row[g].draft # n

\* A draft is never minutes old while an execution is about to publish it.
BeingPublished(g, n) ==
  \E w \in Workers : work[w].at = "drafted" /\ work[w].id = g /\ work[w].generation = n

CleanOutput(w) ==
  /\ work[w].at = "cleanOutput"
  /\ drafts' = [g \in Generations |->
                  {n \in drafts[g] : ~Unreferenced(g, n) \/ BeingPublished(g, n)}]
  /\ work' = [work EXCEPT ![w] = Idle]
  /\ UNCHANGED <<row, staging, history, bounds>>

-----------------------------------------------------------------------------
(* Time and failures *)

\* The process ends and is started again, or an exception leaves the step.
Crash(w) ==
  /\ work[w] # Idle
  /\ crashes < MaxCrashes
  /\ crashes' = crashes + 1
  /\ work' = [work EXCEPT ![w] = Idle]
  /\ UNCHANGED <<row, staging, drafts, history, readFaults>>

LeaseExpires(g) ==
  /\ row[g].lease = "live"
  /\ row' = [row EXCEPT ![g].lease = "expired"]
  /\ UNCHANGED <<staging, drafts, work, history, bounds>>

\* expires_at passes.
RetentionEnds(g) ==
  /\ row[g].status \notin {"absent", "deleted"} /\ ~row[g].expired
  /\ row' = [row EXCEPT ![g].expired = TRUE]
  /\ UNCHANGED <<staging, drafts, work, history, bounds>>

-----------------------------------------------------------------------------
Request(g) ==
  \/ \E auto \in BOOLEAN : Create(g, auto)
  \/ Retry(g)
  \/ Cancel(g)
  \/ Discard(g)
  \/ Accept(g)
  \/ DeleteAsset(g)
  \/ DeleteProject(g)

TakeWork(w) ==
  \E passed, taken, bad \in SUBSET Generations : Claim(w, passed, taken, bad)

Execute(w) ==
  \/ \E bad \in BOOLEAN : FindResult(w, bad)
  \/ ConfirmOwnership(w)
  \/ WriteMarker(w)
  \/ Send(w)
  \/ AnswerImage(w)
  \/ \E failure \in Failures : AnswerFailure(w, failure)
  \/ PersistReady(w)
  \/ WriteDraft(w)
  \/ ApplySuccess(w)
  \/ AfterSuccess(w)
  \/ AfterFenced(w)
  \/ ApplyFailure(w)
  \/ AutoAccept(w)
  \/ DeferImport(w)
  \/ FindStagingOrphans(w)
  \/ CleanStaging(w)
  \/ CleanOutput(w)

Next ==
  \/ \E g \in Generations : Request(g) \/ LeaseExpires(g) \/ RetentionEnds(g)
  \/ \E w \in Workers :
       \/ TakeWork(w)
       \/ Execute(w)
       \/ \E g \in Generations : ClaimImport(w, g)
       \/ DiscardExpired(w)
       \/ RenewLease(w)
       \/ Unexpected(w)
       \/ Crash(w)

Spec == Init /\ [][Next]_vars

\* run_once cleans every minute, then imports, then claims: each comes round
\* again, so strong fairness; a step that has begun is finished, a lease runs out.
Fairness ==
  /\ \A w \in Workers :
       /\ WF_vars(Execute(w))
       /\ SF_vars(TakeWork(w))
       /\ SF_vars(DiscardExpired(w))
       /\ \A g \in Generations : SF_vars(ClaimImport(w, g))
  /\ \A g \in Generations : WF_vars(LeaseExpires(g))

FairSpec == Spec /\ Fairness

-----------------------------------------------------------------------------
(* Properties *)

\* A provider call that may have been charged is never followed by another one
\* for the same generation unless the provider refused it or a person retried:
\* the markers written around the call survive every crash.
NoSilentRepeat ==
  [][\A g \in Generations : calls'[g] > calls[g] => ~owed[g]]_vars

\* No generation costs more calls than its attempts, nor more than the hard cap,
\* however often it is retried, recovered or failed by the code.
CallsWithinCap ==
  \A g \in Generations : calls[g] <= row[g].attempt /\ row[g].attempt <= HardMaxAttempts

\* A draft becomes at most one asset, and never one after it was discarded:
\* automatic import, accept and discard of the same draft exclude each other.
ImportedOnce ==
  \A g \in Generations : imports[g] <= 1 /\ ~(row[g].asset /\ row[g].discarded)

\* A row never refers to a draft file that is gone: rollbacks, fenced results,
\* orphan sweeps and deletions only remove files no row needs.
DraftOnDisk ==
  \A g \in Generations : row[g].draft # NoDraft => row[g].draft \in drafts[g]

\* A late result does not bring a generation back: what was canceled, discarded
\* or deleted stays so, and a draft is the one of the row's last execution.
LateResultIgnored ==
  [][\A g \in Generations :
       /\ row[g].status \in {"canceled", "deleted"} => row'[g].status \in {row[g].status, "deleted"}
       /\ row[g].discarded => row'[g].draft = NoDraft
       /\ row'[g].draft # NoDraft => row'[g].draft = row'[g].generation]_vars

\* The stored result of a generation that is pending, or can become so again by a
\* retry, is kept until the generation is decided or its retention has ended: no
\* execution, failure or sweep throws a paid image away.
PaidResultKept ==
  [][\A g \in Generations :
       Staged(g) /\ staging'[g].ready = {} =>
         \/ row'[g].expired \/ row'[g].asset \/ row'[g].discarded
         \/ row'[g].status \in {"succeeded", "canceled", "deleted"}
         \/ row'[g].status = "failed" /\ ~row'[g].retryable]_vars

\* Every request is decided, whatever execution was lost on the way.
EveryRequestSettles ==
  \A g \in Generations : (g \in Pending) ~> (g \notin Pending)

\* A draft to import automatically is imported, unless it is discarded first; an
\* import lost in a crash window is found again.
AutoImportEnds ==
  \A g \in Generations :
    (row[g].autoImport /\ row[g].draft # NoDraft) ~> (row[g].draft = NoDraft)

\* No file outlives its generation for ever, though late executions write them again.
FilesReclaimed ==
  \A g \in Generations :
    (row[g].discarded \/ row[g].status = "deleted") ~> (staging[g] = NoFiles /\ drafts[g] = {})

(***************************************************************************)
(* Refinement                                                              *)
(***************************************************************************)
\* What the owner of a generation can tell of its row.
Outcome(r) ==
  CASE r.status = "absent" -> "none"
    [] r.status \in {"queued", "running"} -> "pending"
    [] r.status = "succeeded" /\ ~r.discarded /\ r.draft # NoDraft -> "ready"
    [] r.status = "succeeded" /\ ~r.discarded /\ r.draft = NoDraft -> "imported"
    [] r.status = "failed" /\ ~r.discarded -> "failed"
    [] OTHER -> "over"

\* An execution is between its last check of the ownership and the call.
AboutToSend(g) ==
  \E w \in Workers : work[w].at \in {"confirmed", "submitted"} /\ work[w].id = g

Account(g) ==
  CASE owed[g] -> "owed"
    [] ~owed[g] /\ AboutToSend(g) -> "sending"
    [] OTHER -> "free"

Promised(g) == INSTANCE PaidImage WITH
  Cap     <- HardMaxAttempts,
  status  <- Outcome(row[g]),
  account <- Account(g),
  calls   <- calls[g],
  assets  <- imports[g]

\* Each row of image_generations, with the markers, drafts and crashes around it,
\* behaves as the machine of PaidImage: what is charged, what is delivered and what
\* is withdrawn fit together, whenever the worker dies.
ImplementsPaidImage ==
  /\ \A g \in Generations : Promised(g)!Init
  /\ [][\A g \in Generations : [Promised(g)!Next]_(Promised(g)!vars)]_vars
=============================================================================
