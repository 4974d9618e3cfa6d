----------------------------- MODULE AssetTagging -----------------------------
(***************************************************************************)
(* Background tagging of assets: the tagging_* columns and the requests    *)
(* that change them (services/asset_tagging.py, services/assets.py), and   *)
(* the half of worker.py that serves them.  A worker slot serves the job   *)
(* queue and this one in turn; of the jobs, which JobWorker describes,     *)
(* only that one runs or is detached is kept here.                         *)
(*                                                                         *)
(* A request is one transaction under a lock, a claim is one transaction;  *)
(* an execution thread reads its asset, thinks, and writes in another      *)
(* transaction, which its claim must still own.                            *)
(***************************************************************************)
EXTENDS Integers, FiniteSets

CONSTANTS
  Assets,
  Workers,      \* worker slots
  NoWorker,     \* tagging_lease_owner IS NULL
  MaxAttempts,  \* ASSET_TAGGING_MAX_ATTEMPTS (3)
  MaxRequests,  \* bound: edits, renames and retags of an asset
  MaxOutages    \* bound: processes that end and writes that fail

ASSUME TaggingAssumption ==
  /\ NoWorker \notin Workers
  /\ MaxAttempts \in Nat \ {0}
  /\ MaxRequests \in Nat
  /\ MaxOutages \in Nat

VARIABLES
  asset,       \* [Assets -> row of assets]
  slot,        \* [Workers -> what the main loop of the slot does]
  threads,     \* live tagging threads
  isolated,    \* [Workers -> claims of threads in _timed_out_pipelines]
  detached,    \* workers with a detached job thread in _timed_out_pipelines
  consent,     \* history: a retag was asked for since a person last wrote metadata
  requests, outages

vars == <<asset, slot, threads, isolated, detached, consent, requests, outages>>
bounds == <<requests, outages>>

Fields == {"tags", "keywords"}

\* name counts the names the asset has had; tagged is the name its tags were
\* computed from.
Row == [status: {"absent", "idle", "queued", "running", "succeeded", "degraded", "deleted"},
        mode: {"none", "fill_missing", "replace"}, generation: Nat, attempt: Nat,
        owner: Workers \union {NoWorker}, lease: {"none", "live", "expired"},
        name: Nat, meta: [Fields -> {"empty", "manual", "auto"}]]

ClaimOf == [id: Assets, generation: Nat, attempt: Nat]

\* A thread has read the asset under `name`, or has not read it yet.
Thread == [worker: Workers, claim: ClaimOf, read: BOOLEAN, name: Nat]

\* idle: about to ask the preferred queue; other: about to ask the other one.
Slot == [at: {"idle", "other", "job"}, prefersTagging: BOOLEAN]
        \union [at: {"tagging", "abandoned"}, prefersTagging: BOOLEAN, claim: ClaimOf]
        \union [at: {"rescuing"}, prefersTagging: BOOLEAN, claim: ClaimOf, name: Nat]

TypeOK ==
  /\ asset \in [Assets -> Row]
  /\ slot \in [Workers -> Slot]
  /\ threads \subseteq Thread
  /\ isolated \in [Workers -> SUBSET ClaimOf]
  /\ detached \subseteq Workers
  /\ consent \in [Assets -> BOOLEAN]
  /\ requests \in 0..MaxRequests
  /\ outages \in 0..MaxOutages
  /\ \A a \in Assets : asset[a].mode # "none" <=> asset[a].status \in {"queued", "running"}

NoTask == [status |-> "idle", mode |-> "none", generation |-> 0, attempt |-> 0,
           owner |-> NoWorker, lease |-> "none", name |-> 0,
           meta |-> [f \in Fields |-> "empty"]]

Init ==
  /\ asset = [a \in Assets |-> [NoTask EXCEPT !.status = "absent"]]
  /\ slot \in [Workers -> [at: {"idle"}, prefersTagging: BOOLEAN]]
  /\ threads = {}
  /\ isolated = [w \in Workers |-> {}]
  /\ detached = {}
  /\ consent = [a \in Assets |-> FALSE]
  /\ requests = 0
  /\ outages = 0

-----------------------------------------------------------------------------
(* Rows and fences *)

Known(a) == asset[a].status \notin {"absent", "deleted"}

Busy(r) == r.status \in {"queued", "running"}

\* Weakened form: any execution of the same request may write.
OwnsRequest(w, c) ==
  asset[c.id].status = "running" /\ asset[c.id].generation = c.generation

\* The guard of asset_tagging_snapshot, apply_asset_tagging_outcome,
\* _renew_asset_tagging_lease and _abandon_asset_tagging_execution.
Owns(w, c) ==
  /\ asset[c.id].status = "running"
  /\ asset[c.id].generation = c.generation
  /\ asset[c.id].attempt = c.attempt
  /\ asset[c.id].owner = w

\* A new request supersedes the one before it.
Requested(r, status, mode) ==
  [r EXCEPT !.generation = r.generation + 1, !.attempt = 0, !.status = status, !.mode = mode,
            !.owner = NoWorker, !.lease = "none"]

\* Weakened form: whatever a person wrote stops the whole fill.
WrittenIfBlank(r) ==
  IF r.mode = "replace" \/ \A f \in Fields : r.meta[f] = "empty"
  THEN [f \in Fields |-> "auto"] ELSE r.meta

Written(r) ==
  [f \in Fields |-> IF r.mode = "replace" \/ r.meta[f] = "empty" THEN "auto" ELSE r.meta[f]]

\* Weakened form: the task stays marked as active.
AppliedHalf(r, status) ==
  [r EXCEPT !.meta = Written(r), !.status = status, !.owner = NoWorker, !.lease = "none"]

\* _apply_outcome_to_locked_asset
Applied(r, status) ==
  [r EXCEPT !.meta = Written(r), !.status = status, !.mode = "none",
            !.owner = NoWorker, !.lease = "none"]

-----------------------------------------------------------------------------
(* Requests *)

\* create_asset, from an upload or an accepted image: what is not given is tagged.
Upload(a, given) ==
  /\ asset[a].status = "absent"
  /\ asset' = [asset EXCEPT ![a] =
       LET r == [NoTask EXCEPT !.meta = [f \in Fields |-> IF f \in given THEN "manual" ELSE "empty"]]
       IN  IF given = Fields THEN r ELSE Requested(r, "queued", "fill_missing")]
  /\ UNCHANGED <<slot, threads, isolated, detached, consent, bounds>>

\* Weakened form: a person's edit leaves the running task alone.
EditedBeside(r) == r

\* Explicit metadata edits always win over an older background result.
Edited(r) == Requested(r, "idle", "none")

\* Weakened form: a rename does not disturb the task.
RenamedBeside(r) == r

\* A fallback must use the new name, so an active task starts again.
Renamed(r) == IF Busy(r) THEN Requested(r, "queued", r.mode) ELSE r

\* patch_asset with a name and with metadata fields, set or cleared.
Patch(a, renames, edited, value) ==
  LET r == [asset[a] EXCEPT !.name = IF renames THEN @ + 1 ELSE @,
                            !.meta = [f \in Fields |-> IF f \in edited THEN value ELSE @[f]]]
  IN
  /\ Known(a)
  /\ renames \/ edited # {}
  /\ requests < MaxRequests
  /\ requests' = requests + 1
  /\ asset' = [asset EXCEPT ![a] = IF edited # {} THEN Edited(r) ELSE Renamed(r)]
  /\ consent' = [consent EXCEPT ![a] = @ /\ edited = {}]
  /\ UNCHANGED <<slot, threads, isolated, detached, outages>>

\* request_asset_retag; an active replacement is answered as it is.
Retag(a) ==
  /\ Known(a)
  /\ ~(Busy(asset[a]) /\ asset[a].mode = "replace")
  /\ requests < MaxRequests
  /\ requests' = requests + 1
  /\ asset' = [asset EXCEPT ![a] = Requested(@, "queued", "replace")]
  /\ consent' = [consent EXCEPT ![a] = TRUE]
  /\ UNCHANGED <<slot, threads, isolated, detached, outages>>

\* delete_asset
Delete(a) ==
  /\ Known(a)
  /\ asset' = [asset EXCEPT ![a].status = "deleted", ![a].mode = "none",
                            ![a].owner = NoWorker, ![a].lease = "none"]
  /\ UNCHANGED <<slot, threads, isolated, detached, consent, bounds>>

-----------------------------------------------------------------------------
(* The main loop: run_once asks the preferred queue, then the other *)

\* _refresh_timed_out_pipelines
Quarantined(w) ==
  w \in detached \/ \E t \in threads : t.worker = w /\ t.claim \in isolated[w]

Asks(w, queue) ==
  /\ slot[w].at \in {"idle", "other"}
  /\ (queue = "tagging") = ((slot[w].at = "idle") = slot[w].prefersTagging)
  /\ ~Quarantined(w)

\* Weakened form: the slot never changes its mind.
KeepsPreference(w, served) == slot[w].prefersTagging

NextPreference(w, served) == served = "job"

NothingFound(w) ==
  [slot EXCEPT ![w] = [at |-> IF slot[w].at = "idle" THEN "other" ELSE "idle",
                       prefersTagging |-> slot[w].prefersTagging]]

Lapsed(r) == r.status = "running" /\ r.lease # "live"

Exhausted == {a \in Assets : Lapsed(asset[a]) /\ asset[a].attempt >= MaxAttempts}

Claimable ==
  {a \in Assets : asset[a].attempt < MaxAttempts
                  /\ (asset[a].status = "queued" \/ Lapsed(asset[a]))}

\* claim_asset_tagging finishes what crashed too often by rule, then takes one
\* task and starts its thread (process_asset_tagging).
ClaimTagging(w) ==
  LET finished == [a \in Assets |->
                     IF a \in Exhausted THEN Applied(asset[a], "degraded") ELSE asset[a]]
  IN
  /\ Asks(w, "tagging")
  /\ \/ /\ Claimable = {}
        /\ asset' = finished
        /\ slot' = NothingFound(w)
        /\ UNCHANGED threads
     \/ \E a \in Claimable :
          LET c == [id |-> a, generation |-> asset[a].generation, attempt |-> asset[a].attempt + 1]
          IN  /\ asset' = [finished EXCEPT ![a].status = "running", ![a].attempt = c.attempt,
                                           ![a].owner = w, ![a].lease = "live"]
              /\ slot' = [slot EXCEPT ![w] = [at |-> "tagging", claim |-> c,
                            prefersTagging |-> NextPreference(w, "tagging")]]
              /\ threads' = threads \union
                   {[worker |-> w, claim |-> c, read |-> FALSE, name |-> 0]}
  /\ isolated' = [isolated EXCEPT ![w] = {}]
  /\ UNCHANGED <<detached, consent, bounds>>

\* A job may always be waiting.
ClaimJob(w) ==
  /\ Asks(w, "jobs")
  /\ slot' \in {NothingFound(w),
                [slot EXCEPT ![w] = [at |-> "job", prefersTagging |-> NextPreference(w, "job")]]}
  /\ isolated' = [isolated EXCEPT ![w] = {}]
  /\ UNCHANGED <<asset, threads, detached, consent, bounds>>

\* process returns: the job's thread has ended, or is detached and isolated.
LeaveJob(w, alive) ==
  /\ slot[w].at = "job"
  /\ slot' = [slot EXCEPT ![w].at = "idle"]
  /\ detached' = IF alive THEN detached \union {w} ELSE detached
  /\ UNCHANGED <<asset, threads, isolated, consent, bounds>>

JobThreadEnds(w) ==
  /\ w \in detached
  /\ detached' = detached \ {w}
  /\ UNCHANGED <<asset, slot, threads, isolated, consent, bounds>>

-----------------------------------------------------------------------------
(* The watch over one execution: process_asset_tagging *)

Leaves(w) == slot' = [slot EXCEPT ![w] = [at |-> "idle", prefersTagging |-> @.prefersTagging]]

\* Weakened form: a thread left behind is forgotten.
Forgotten(w, c) == isolated

\* _isolate_pipeline, unless the thread has just ended.
Isolated(w, c) ==
  IF \E t \in threads : t.worker = w /\ t.claim = c
  THEN [isolated EXCEPT ![w] = @ \union {c}] ELSE isolated

Completed(w) ==
  /\ slot[w].at = "tagging"
  /\ ~\E t \in threads : t.worker = w /\ t.claim = slot[w].claim
  /\ Leaves(w)
  /\ UNCHANGED <<asset, threads, isolated, detached, consent, bounds>>

\* The lease thread could not renew the lease.
LeaseLost(w) ==
  /\ slot[w].at = "tagging"
  /\ ~Owns(w, slot[w].claim)
  /\ isolated' = Isolated(w, slot[w].claim)
  /\ Leaves(w)
  /\ UNCHANGED <<asset, threads, detached, consent, bounds>>

\* The hard timeout isolates the thread; the slot then tags by rule under the
\* same claim (_complete_asset_tagging_locally), if it still owns it.
Deadline(w) ==
  LET c == slot[w].claim IN
  /\ slot[w].at = "tagging"
  /\ isolated' = Isolated(w, c)
  /\ IF Owns(w, c)
     THEN slot' = [slot EXCEPT ![w] = [at |-> "rescuing", claim |-> c, name |-> asset[c.id].name,
                                       prefersTagging |-> @.prefersTagging]]
     ELSE Leaves(w)
  /\ UNCHANGED <<asset, threads, detached, consent, bounds>>

\* Either transaction may raise; the row is then left to its lease.
Rescue(w) ==
  LET c == slot[w].claim IN
  /\ slot[w].at = "rescuing"
  /\ \/ /\ asset' = IF Owns(w, c) THEN [asset EXCEPT ![c.id] = Applied(@, "degraded")] ELSE asset
        /\ UNCHANGED outages
     \/ /\ outages < MaxOutages /\ outages' = outages + 1
        /\ UNCHANGED asset
  /\ Leaves(w)
  /\ UNCHANGED <<threads, isolated, detached, consent, requests>>

\* A stopping worker gives the lease up; its thread lives until the process ends.
Abandon(w) ==
  LET c == slot[w].claim IN
  /\ slot[w].at = "tagging"
  /\ outages < MaxOutages
  /\ outages' = outages + 1
  /\ asset' = IF Owns(w, c)
              THEN [asset EXCEPT ![c.id].owner = NoWorker, ![c.id].lease = "expired"] ELSE asset
  /\ slot' = [slot EXCEPT ![w].at = "abandoned"]
  /\ UNCHANGED <<threads, isolated, detached, consent, requests>>

RenewLease(w) ==
  /\ slot[w].at \in {"tagging", "rescuing"}
  /\ Owns(w, slot[w].claim)
  /\ asset' = [asset EXCEPT ![slot[w].claim.id].lease = "live"]
  /\ UNCHANGED <<slot, threads, isolated, detached, consent, bounds>>

-----------------------------------------------------------------------------
(* One execution thread: _process_asset_tagging_task *)

\* The snapshot; a thread that lost its claim ends.
Read(t) ==
  /\ ~t.read
  /\ threads' = (threads \ {t}) \union
       (IF Owns(t.worker, t.claim)
        THEN {[t EXCEPT !.read = TRUE, !.name = asset[t.claim.id].name]} ELSE {})
  /\ UNCHANGED <<asset, slot, isolated, detached, consent, bounds>>

\* Vision, then a text model, then rules: some outcome is always reached.
Apply(t, status) ==
  /\ t.read
  /\ asset' = IF Owns(t.worker, t.claim)
              THEN [asset EXCEPT ![t.claim.id] = Applied(@, status)] ELSE asset
  /\ threads' = threads \ {t}
  /\ UNCHANGED <<slot, isolated, detached, consent, bounds>>

\* A transaction raises: the row stays running until its lease runs out.
ApplyFails(t) ==
  /\ outages < MaxOutages
  /\ outages' = outages + 1
  /\ threads' = threads \ {t}
  /\ UNCHANGED <<asset, slot, isolated, detached, consent, requests>>

-----------------------------------------------------------------------------
(* Time and failures *)

LeaseExpires(a) ==
  /\ asset[a].lease = "live"
  /\ asset' = [asset EXCEPT ![a].lease = "expired"]
  /\ UNCHANGED <<slot, threads, isolated, detached, consent, bounds>>

\* The process ends with its threads, and is started again.
Restarted(w) ==
  /\ \E b \in BOOLEAN : slot' = [slot EXCEPT ![w] = [at |-> "idle", prefersTagging |-> b]]
  /\ threads' = {t \in threads : t.worker # w}
  /\ isolated' = [isolated EXCEPT ![w] = {}]
  /\ detached' = detached \ {w}
  /\ UNCHANGED <<asset, consent, requests>>

Exit(w) == slot[w].at = "abandoned" /\ Restarted(w) /\ UNCHANGED outages

Crash(w) ==
  /\ slot[w].at # "abandoned"
  /\ outages < MaxOutages
  /\ outages' = outages + 1
  /\ Restarted(w)

-----------------------------------------------------------------------------
Request(a) ==
  \/ \E given \in SUBSET Fields : Upload(a, given)
  \/ \E renames \in BOOLEAN, edited \in SUBSET Fields, value \in {"manual", "empty"} :
       Patch(a, renames, edited, value)
  \/ Retag(a)
  \/ Delete(a)

\* What the main loop of a slot does by itself.
RunOnce(w) ==
  \/ ClaimTagging(w)
  \/ ClaimJob(w)
  \/ \E alive \in BOOLEAN : LeaveJob(w, alive)
  \/ Completed(w)
  \/ LeaseLost(w)
  \/ Rescue(w)
  \/ Exit(w)

ThreadStep(w) ==
  \E t \in threads :
    /\ t.worker = w
    /\ Read(t) \/ (\E status \in {"succeeded", "degraded"} : Apply(t, status))

Next ==
  \/ \E a \in Assets : Request(a) \/ LeaseExpires(a)
  \/ \E w \in Workers : \/ RunOnce(w) \/ Deadline(w) \/ Abandon(w) \/ RenewLease(w)
                        \/ ThreadStep(w) \/ JobThreadEnds(w) \/ Crash(w)
  \/ \E t \in threads : ApplyFails(t)

Spec == Init /\ [][Next]_vars

\* Main loops and threads keep running, and a lease nobody renews runs out.
Fairness ==
  /\ \A w \in Workers : WF_vars(RunOnce(w)) /\ WF_vars(ThreadStep(w)) /\ WF_vars(JobThreadEnds(w))
  /\ \A a \in Assets : WF_vars(LeaseExpires(a))

FairSpec == Spec /\ Fairness

-----------------------------------------------------------------------------
(* Properties *)

\* What a person wrote is replaced by generated tags only if a person asked for
\* that afterwards: a late result of an older task never does it.
ManualTagsKept ==
  [][\A a \in Assets, f \in Fields :
       asset[a].meta[f] = "manual" /\ asset'[a].meta[f] = "auto" => consent[a]]_vars

\* A task that ended has left tags and keywords, whoever ended it.
TaggedCompletely ==
  \A a \in Assets : asset[a].status \in {"succeeded", "degraded"} =>
                      \A f \in Fields : asset[a].meta[f] # "empty"

\* A thread that can still write has read the asset's present name: a rename
\* never leaves tags computed from the old one.
ReadsPresentName ==
  /\ \A t \in threads : t.read /\ Owns(t.worker, t.claim) => t.name = asset[t.claim.id].name
  /\ \A w \in Workers : slot[w].at = "rescuing" /\ Owns(w, slot[w].claim)
                          => slot[w].name = asset[slot[w].claim.id].name

\* Of all live threads for an asset at most one can still write, so that a task
\* is answered once however often it was recovered.
OneWriter ==
  \A t, u \in threads :
    Owns(t.worker, t.claim) /\ Owns(u.worker, u.claim) /\ t.claim.id = u.claim.id => t = u

\* A slot runs one thing at a time: while a thread it gave up lives, it serves
\* neither queue.
OneExecutionPerSlot ==
  \A w \in Workers :
    LET own == {t \in threads : t.worker = w}
    IN  /\ Cardinality(own) <= 1
        /\ slot[w].at = "job" => own = {} /\ w \notin detached
        /\ own # {} => w \notin detached

\* Every tagging task ends, although jobs may arrive without end, executions are
\* lost and slots are blocked for a while.
EveryTaskEnds == \A a \in Assets : Busy(asset[a]) ~> ~Busy(asset[a])
=============================================================================
