---------------------------- MODULE AssetSelection ----------------------------
(***************************************************************************)
(* The asset library and the assets chosen for the segments of a project:  *)
(* services/selections.py, services/assets.py, the rematch of              *)
(* services/segments.py, the import of services/image_generations.py, and  *)
(* the matching and persisting stages of worker.py.                        *)
(*                                                                         *)
(* A request is a database transaction of two steps: Begin takes the locks *)
(* and makes the checks, Commit writes.  SQLite serializes the requests    *)
(* (BEGIN IMMEDIATE); PostgreSQL at READ COMMITTED only blocks on the rows *)
(* a request locked FOR UPDATE, and on the referenced asset row when a     *)
(* Selection or a Recommendation is inserted.  The worker reads the active *)
(* assets in one transaction and persists in a later one.                  *)
(***************************************************************************)
EXTENDS Integers, FiniteSets

CONSTANTS
  Assets,         \* every asset there will ever be
  SeedAssets,     \* the built-in ones, active when the program starts
  Segments,       \* segments the pipeline job will create
  Requests,       \* concurrent API requests
  NoAsset,        \* "no selection row"
  MinimumActive,  \* MINIMUM_ACTIVE_ASSETS, also the candidates a match needs (3)
  MaxCandidates,  \* candidates kept per segment (6)
  Dialects        \* subset of {"sqlite", "postgresql"}

ASSUME LibraryAssumption ==
  /\ SeedAssets \subseteq Assets
  /\ IsFiniteSet(Assets)
  /\ NoAsset \notin Assets
  /\ MinimumActive \in Nat \ {0}
  /\ Cardinality(SeedAssets) >= MinimumActive
  /\ Dialects \subseteq {"sqlite", "postgresql"}

VARIABLES
  dialect,     \* the database the deployment uses
  asset,       \* [Assets -> row of assets: present and active, or not]
  selection,   \* [Segments -> row of selections]
  candidates,  \* [Segments -> assets of its recommendations]
  job,         \* the pipeline job: its state and the assets it has read
  txn          \* [Requests -> open transaction]

vars == <<dialect, asset, selection, candidates, job, txn>>

NoSelection == [asset |-> NoAsset, source |-> "none"]

SelectionRow == [asset: Assets, source: {"auto", "manual", "generated"}]

\* Weakened form: the segment is saved without a default selection.
AutoSelectionForgotten(a) == NoSelection

AutoSelection(a) == [asset |-> a, source |-> "auto"]

NoTxn == [op |-> "none"]

LockingOps == {"select", "deactivate", "delete"}

SelectTxn   == [op: {"select"}, segment: Segments, asset: Assets, source: {"manual", "generated"}]
RemovalTxn  == [op: {"deactivate", "delete"}, asset: Assets]
RematchTxn  == [op: {"rematch"}, segment: Segments, seen: SUBSET Assets]
Transaction == {NoTxn} \union SelectTxn \union RemovalTxn \union RematchTxn

TypeOK ==
  /\ dialect \in Dialects
  /\ asset \in [Assets -> {"absent", "active", "inactive", "deleted"}]
  /\ selection \in [Segments -> {NoSelection} \union SelectionRow]
  /\ candidates \in [Segments -> SUBSET Assets]
  /\ job \in [state: {"queued", "matched", "ready"}, seen: SUBSET Assets]
  /\ txn \in [Requests -> Transaction]
  /\ \A s \in Segments : job.state = "ready" <=> selection[s] # NoSelection

Init ==
  /\ dialect \in Dialects
  /\ asset = [a \in Assets |-> IF a \in SeedAssets THEN "active" ELSE "absent"]
  /\ selection = [s \in Segments |-> NoSelection]
  /\ candidates = [s \in Segments |-> {}]
  /\ job = [state |-> "queued", seen |-> {}]
  /\ txn = [r \in Requests |-> NoTxn]

-----------------------------------------------------------------------------
(* Locks and queries *)

Active     == {a \in Assets : asset[a] = "active"}
Present(a) == asset[a] \in {"active", "inactive"}

\* Weakened form: BEGIN instead of BEGIN IMMEDIATE.
NobodyWaits == TRUE

\* BEGIN IMMEDIATE waits for the writer before it.
WriteLockFree == dialect = "sqlite" => \A r \in Requests : txn[r] = NoTxn

\* Weakened form: the asset row is read without FOR UPDATE.
AssetUnlocked(a) == TRUE

\* Nobody holds the row of the asset FOR UPDATE.
AssetFree(a) == \A r \in Requests : txn[r].op \in LockingOps => txn[r].asset # a

\* Nobody holds the row of the segment FOR UPDATE.
SegmentFree(s) ==
  \A r \in Requests : txn[r].op \in {"select", "rematch"} => txn[r].segment # s

\* Weakened form: selections are not counted before an asset goes.
NeverInUse(a) == FALSE

InUse(a) == \E s \in Segments : selection[s].asset = a

\* Weakened form: one asset too many may go.
EnoughActiveOffByOne == Cardinality(Active) >= MinimumActive

EnoughActive == Cardinality(Active) > MinimumActive

\* rank_assets: the best candidates among the assets it was given.
Ranked(seen) ==
  LET n == Cardinality(seen)
  IN  {c \in SUBSET seen : Cardinality(c) = IF n < MaxCandidates THEN n ELSE MaxCandidates}

\* The foreign keys of the rows about to be inserted can be checked and hold.
Insertable(chosen) == \A a \in chosen : Present(a) /\ AssetFree(a)

CanBegin(r) == txn[r] = NoTxn /\ WriteLockFree

-----------------------------------------------------------------------------
(* Requests about segments *)

\* put_selection, or accept_image_generation for an image already imported:
\* lock the segment, then the asset, and require that it is active.
BeginSelect(r, s, a, source) ==
  /\ CanBegin(r)
  /\ job.state = "ready"
  /\ SegmentFree(s)
  /\ AssetFree(a)
  /\ asset[a] = "active"
  /\ txn' = [txn EXCEPT ![r] = [op |-> "select", segment |-> s, asset |-> a, source |-> source]]
  /\ UNCHANGED <<dialect, asset, selection, candidates, job>>

CommitSelect(r) ==
  /\ txn[r].op = "select"
  /\ selection' = [selection EXCEPT ![txn[r].segment] =
                     [asset |-> txn[r].asset, source |-> txn[r].source]]
  /\ txn' = [txn EXCEPT ![r] = NoTxn]
  /\ UNCHANGED <<dialect, asset, candidates, job>>

\* rematch_segment and patch_segment: the active assets are read without
\* locking them, and ranked.
BeginRematch(r, s) ==
  /\ CanBegin(r)
  /\ job.state = "ready"
  /\ SegmentFree(s)
  /\ Cardinality(Active) >= MinimumActive
  /\ txn' = [txn EXCEPT ![r] = [op |-> "rematch", segment |-> s, seen |-> Active]]
  /\ UNCHANGED <<dialect, asset, selection, candidates, job>>

\* Weakened form: every selection follows the new ranking.
RematchedAlways(chosen, a) == AutoSelection(a)

\* Only a selection that nobody chose follows the new ranking.
Rematched(chosen, a) == IF chosen.source = "auto" THEN AutoSelection(a) ELSE chosen

CommitRematch(r) ==
  /\ txn[r].op = "rematch"
  /\ LET s == txn[r].segment
     IN  \E ranked \in Ranked(txn[r].seen) : \E best \in ranked :
           /\ Insertable(ranked)
           /\ candidates' = [candidates EXCEPT ![s] = ranked]
           /\ selection' = [selection EXCEPT ![s] = Rematched(@, best)]
  /\ txn' = [txn EXCEPT ![r] = NoTxn]
  /\ UNCHANGED <<dialect, asset, job>>

\* accept_image_generation: the new asset and the selection of it.
AcceptImage(s, a) ==
  /\ WriteLockFree
  /\ job.state = "ready"
  /\ SegmentFree(s)
  /\ asset[a] = "absent"
  /\ asset' = [asset EXCEPT ![a] = "active"]
  /\ selection' = [selection EXCEPT ![s] = [asset |-> a, source |-> "generated"]]
  /\ UNCHANGED <<dialect, candidates, job, txn>>

-----------------------------------------------------------------------------
(* Requests about the library *)

Upload(a) ==
  /\ WriteLockFree
  /\ asset[a] = "absent"
  /\ asset' = [asset EXCEPT ![a] = "active"]
  /\ UNCHANGED <<dialect, selection, candidates, job, txn>>

\* patch_asset with active = true.
Reactivate(a) ==
  /\ WriteLockFree
  /\ AssetFree(a)
  /\ asset[a] = "inactive"
  /\ asset' = [asset EXCEPT ![a] = "active"]
  /\ UNCHANGED <<dialect, selection, candidates, job, txn>>

\* patch_asset with active = false: lock the asset, count its selections and
\* the active assets.
BeginDeactivate(r, a) ==
  /\ CanBegin(r)
  /\ AssetFree(a)
  /\ asset[a] = "active"
  /\ ~InUse(a)
  /\ EnoughActive
  /\ txn' = [txn EXCEPT ![r] = [op |-> "deactivate", asset |-> a]]
  /\ UNCHANGED <<dialect, asset, selection, candidates, job>>

CommitDeactivate(r) ==
  /\ txn[r].op = "deactivate"
  /\ asset' = [asset EXCEPT ![txn[r].asset] = "inactive"]
  /\ txn' = [txn EXCEPT ![r] = NoTxn]
  /\ UNCHANGED <<dialect, selection, candidates, job>>

\* delete_asset: the same checks, and never a built-in asset.
BeginDelete(r, a) ==
  /\ CanBegin(r)
  /\ AssetFree(a)
  /\ Present(a)
  /\ a \notin SeedAssets
  /\ ~InUse(a)
  /\ asset[a] = "active" => EnoughActive
  /\ txn' = [txn EXCEPT ![r] = [op |-> "delete", asset |-> a]]
  /\ UNCHANGED <<dialect, asset, selection, candidates, job>>

\* The foreign key of recommendations cascades.
CommitDelete(r) ==
  /\ txn[r].op = "delete"
  /\ asset' = [asset EXCEPT ![txn[r].asset] = "deleted"]
  /\ candidates' = [s \in Segments |-> candidates[s] \ {txn[r].asset}]
  /\ txn' = [txn EXCEPT ![r] = NoTxn]
  /\ UNCHANGED <<dialect, selection, job>>

\* Any request can fail before its commit: the session rolls back.
Rollback(r) ==
  /\ txn[r] # NoTxn
  /\ txn' = [txn EXCEPT ![r] = NoTxn]
  /\ UNCHANGED <<dialect, asset, selection, candidates, job>>

-----------------------------------------------------------------------------
(* The pipeline job *)

\* The matching stage reads the active assets in a transaction of its own.
Match ==
  /\ job.state = "queued"
  /\ Cardinality(Active) >= MinimumActive
  /\ job' = [state |-> "matched", seen |-> Active]
  /\ UNCHANGED <<dialect, asset, selection, candidates, txn>>

\* _persist inserts the recommendations and the default selections.
Persist ==
  /\ job.state = "matched"
  /\ WriteLockFree
  /\ \E ranked \in [Segments -> Ranked(job.seen)] :
       /\ \A s \in Segments : Insertable(ranked[s])
       /\ candidates' = ranked
       /\ \E best \in [Segments -> job.seen] :
            /\ \A s \in Segments : best[s] \in ranked[s]
            /\ selection' = [s \in Segments |-> AutoSelection(best[s])]
  /\ job' = [state |-> "ready", seen |-> {}]
  /\ UNCHANGED <<dialect, asset, txn>>

\* The execution fails (a recommended asset may be gone); a retry matches again.
MatchAgain ==
  /\ job.state = "matched"
  /\ job' = [state |-> "queued", seen |-> {}]
  /\ UNCHANGED <<dialect, asset, selection, candidates, txn>>

-----------------------------------------------------------------------------
SegmentRequest ==
  \/ \E r \in Requests, s \in Segments :
       \/ \E a \in Assets, source \in {"manual", "generated"} : BeginSelect(r, s, a, source)
       \/ BeginRematch(r, s)
  \/ \E r \in Requests : CommitSelect(r) \/ CommitRematch(r)
  \/ \E s \in Segments, a \in Assets : AcceptImage(s, a)

LibraryRequest ==
  \/ \E r \in Requests, a \in Assets : BeginDeactivate(r, a) \/ BeginDelete(r, a)
  \/ \E r \in Requests : CommitDeactivate(r) \/ CommitDelete(r)
  \/ \E a \in Assets : Upload(a) \/ Reactivate(a)

Next ==
  \/ SegmentRequest
  \/ LibraryRequest
  \/ \E r \in Requests : Rollback(r)
  \/ Match \/ Persist \/ MatchAgain

Spec == Init /\ [][Next]_vars

-----------------------------------------------------------------------------
Chosen(s) == selection[s].source \in {"manual", "generated"}

\* An asset that a person chose, or that was generated for the segment, is
\* still active: put_selection and accept_image_generation lock the asset that
\* patch_asset and delete_asset lock before they count its selections.
ChosenAssetUsable ==
  \A s \in Segments : Chosen(s) => asset[selection[s].asset] = "active"

\* Selections and recommendations refer to rows that exist, and a default
\* selection is one of the recommendations shown beside it, through rematches
\* and through deletions that cascade to recommendations.
SelectionBacked ==
  \A s \in Segments :
    /\ selection[s].asset # NoAsset => Present(selection[s].asset)
    /\ selection[s].source = "auto" => selection[s].asset \in candidates[s]
    /\ \A a \in candidates[s] : Present(a)

\* What a person chose is never replaced by a ranking: a rematch renews the
\* recommendations only.
ChoiceSurvivesRematch ==
  [][\A s \in Segments :
       Chosen(s) => /\ Chosen(s)'
                    /\ candidates'[s] # candidates[s] => selection'[s] = selection[s]]_vars

\* With SQLite the library never falls below the minimum a match needs.
MinimumKeptBySQLite == dialect = "sqlite" => Cardinality(Active) >= MinimumActive

\* What API.md says of MINIMUM_ASSET_GUARD, for both databases.
MinimumActiveKept == Cardinality(Active) >= MinimumActive

\* The invariant put_selection names: every Selection references an active Asset.
EverySelectionActive ==
  \A s \in Segments : selection[s].asset # NoAsset => asset[selection[s].asset] = "active"

(***************************************************************************)
(* Refinement                                                              *)
(***************************************************************************)
Atomic == INSTANCE AtomicLibrary WITH serial <- (dialect = "sqlite")

\* What a request found out when it began still holds when it commits, so that
\* all requests behave as if each happened at once (AtomicLibrary): with SQLite
\* by its write lock; with PostgreSQL, where other requests commit in between, by
\* the rows locked FOR UPDATE and the foreign keys.
ImplementsAtomicLibrary == Atomic!Spec
=============================================================================
