---------------------------- MODULE AtomicLibrary ----------------------------
(***************************************************************************)
(* What the library promises its users: every request happens at once, on  *)
(* the rows as they are.  There are no transactions, locks or workers.     *)
(* AssetSelection implements it with both databases.  Only two checks hold *)
(* for SQLite alone, where requests are serial: that a removal leaves      *)
(* enough active assets, and that a rematch ranks all that are active.     *)
(***************************************************************************)
EXTENDS Integers, FiniteSets

CONSTANTS Assets, SeedAssets, Segments, NoAsset, MinimumActive, MaxCandidates

VARIABLES
  serial,      \* whether the database serializes the requests
  asset,       \* [Assets -> "absent", "active", "inactive" or "deleted"]
  selection,   \* [Segments -> the asset shown and who chose it]
  candidates   \* [Segments -> the assets recommended]

vars == <<serial, asset, selection, candidates>>

Shown(a, source) == [asset |-> a, source |-> source]

Unshown == Shown(NoAsset, "none")

Active  == {a \in Assets : asset[a] = "active"}
Present == {a \in Assets : asset[a] \in {"active", "inactive"}}

Idle(a) == \A s \in Segments : selection[s].asset # a

Spare == serial => Cardinality(Active) > MinimumActive

Init ==
  /\ serial \in BOOLEAN
  /\ asset = [a \in Assets |-> IF a \in SeedAssets THEN "active" ELSE "absent"]
  /\ selection = [s \in Segments |-> Unshown]
  /\ candidates = [s \in Segments |-> {}]

\* A request that is refused, or fails, changes nothing.
Refuse == UNCHANGED vars

\* A new asset, uploaded or generated, or one that is used again.
Offer(a) ==
  /\ asset[a] \in {"absent", "inactive"}
  /\ asset' = [asset EXCEPT ![a] = "active"]
  /\ UNCHANGED <<serial, selection, candidates>>

\* A generated image becomes an asset and is shown.
Import(s, a) ==
  /\ asset[a] = "absent" /\ selection[s] # Unshown
  /\ asset' = [asset EXCEPT ![a] = "active"]
  /\ selection' = [selection EXCEPT ![s] = Shown(a, "generated")]
  /\ UNCHANGED <<serial, candidates>>

Choose(s, a, source) ==
  /\ asset[a] = "active" /\ selection[s] # Unshown
  /\ selection' = [selection EXCEPT ![s] = Shown(a, source)]
  /\ UNCHANGED <<serial, asset, candidates>>

Withdraw(a) ==
  /\ asset[a] = "active" /\ Idle(a) /\ Spare
  /\ asset' = [asset EXCEPT ![a] = "inactive"]
  /\ UNCHANGED <<serial, selection, candidates>>

Remove(a) ==
  /\ a \in Present \ SeedAssets /\ Idle(a)
  /\ asset[a] = "active" => Spare
  /\ asset' = [asset EXCEPT ![a] = "deleted"]
  /\ candidates' = [s \in Segments |-> candidates[s] \ {a}]
  /\ UNCHANGED <<serial, selection>>

\* All active assets, or as many of them as are kept.
FromAllActive(ranked) ==
  /\ ranked \subseteq Active
  /\ IF Cardinality(Active) < MaxCandidates
     THEN ranked = Active
     ELSE Cardinality(ranked) = MaxCandidates

\* New recommendations; the asset shown follows unless somebody chose it.
Recommend(s) ==
  /\ selection[s] # Unshown
  /\ UNCHANGED <<serial, asset>>
  /\ candidates' \in [Segments -> SUBSET Present]
  /\ \A other \in Segments \ {s} : candidates'[other] = candidates[other]
  /\ serial => FromAllActive(candidates'[s])
  /\ \E best \in candidates'[s] :
       selection' = IF selection[s].source = "auto"
                    THEN [selection EXCEPT ![s] = Shown(best, "auto")]
                    ELSE selection

\* The pipeline's result: every segment gets its recommendations and shows one.
Publish ==
  /\ \A s \in Segments : selection[s] = Unshown
  /\ candidates' \in [Segments -> SUBSET Present]
  /\ \E best \in [Segments -> Assets] :
       /\ \A s \in Segments : best[s] \in candidates'[s]
       /\ selection' = [s \in Segments |-> Shown(best[s], "auto")]
  /\ UNCHANGED <<serial, asset>>

Next ==
  \/ Refuse
  \/ \E a \in Assets : Offer(a) \/ Withdraw(a) \/ Remove(a)
  \/ \E s \in Segments, a \in Assets :
       \/ Import(s, a)
       \/ \E source \in {"manual", "generated"} : Choose(s, a, source)
  \/ \E s \in Segments : Recommend(s)
  \/ Publish

Spec == Init /\ [][Next]_vars
=============================================================================
