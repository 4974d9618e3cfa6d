------------------------ MODULE AssetSelectionProofs ------------------------
(***************************************************************************)
(* Proofs about AssetSelection for every library, every number of          *)
(* segments and concurrent requests, and both databases.                   *)
(*                                                                         *)
(* The argument is about the row locks: no two open transactions hold the  *)
(* same asset (LocksExclusive), so what a transaction found out about the  *)
(* asset it holds is still true when it commits (HeldStillTrue).  The last *)
(* part concludes that requests behave as if each happened at its commit,  *)
(* which is the refinement of AtomicLibrary.                               *)
(***************************************************************************)
EXTENDS AssetSelection, FiniteSetTheorems, TLAPS

LocksExclusive ==
  \A r1, r2 \in Requests :
    txn[r1].op \in LockingOps /\ txn[r2].op \in LockingOps /\ r1 # r2
      => txn[r1].asset # txn[r2].asset

HeldStillTrue ==
  \A r \in Requests :
    /\ txn[r].op \in {"select", "deactivate"} => asset[txn[r].asset] = "active"
    /\ txn[r].op = "select" => job.state = "ready"
    /\ txn[r].op = "delete" => Present(txn[r].asset)
    /\ txn[r].op \in {"deactivate", "delete"} => ~InUse(txn[r].asset)

LibraryInv ==
  TypeOK /\ LocksExclusive /\ HeldStillTrue /\ ChosenAssetUsable /\ SelectionBacked

\* With SQLite there is one open transaction at a time, and one that removes an
\* active asset has counted more than the minimum.
OneWriter ==
  dialect = "sqlite" =>
    \A r1, r2 \in Requests : txn[r1] # NoTxn /\ txn[r2] # NoTxn => r1 = r2

RemovalCounted ==
  dialect = "sqlite" =>
    \A r \in Requests :
      txn[r].op \in {"deactivate", "delete"} /\ asset[txn[r].asset] = "active" => EnoughActive

MinimumInv == OneWriter /\ RemovalCounted /\ MinimumKeptBySQLite

-----------------------------------------------------------------------------
(* Transactions *)

\* What the record of an open transaction says, by its operation.
LEMMA TxnShape ==
  ASSUME NEW t \in Transaction
  PROVE  /\ t.op \in {"none", "select", "deactivate", "delete", "rematch"}
         /\ t.op = "none" => t = NoTxn
         /\ t.op \in LockingOps => t.asset \in Assets
         /\ t.op \in {"select", "rematch"} => t.segment \in Segments
         /\ t.op = "select" => t.source \in {"manual", "generated"}
         /\ t.op = "rematch" => t.seen \in SUBSET Assets
  BY DEF Transaction, NoTxn, SelectTxn, RemovalTxn, RematchTxn, LockingOps

\* New transactions have the type of transactions.
LEMMA NoTxnTyped == NoTxn \in Transaction
  BY DEF Transaction

LEMMA SelectTyped ==
  ASSUME NEW s \in Segments, NEW a \in Assets, NEW source \in {"manual", "generated"}
  PROVE  [op |-> "select", segment |-> s, asset |-> a, source |-> source] \in Transaction
  BY DEF Transaction, SelectTxn

LEMMA RemovalTyped ==
  ASSUME NEW a \in Assets
  PROVE  /\ [op |-> "deactivate", asset |-> a] \in Transaction
         /\ [op |-> "delete", asset |-> a] \in Transaction
  BY DEF Transaction, RemovalTxn

LEMMA RematchTyped ==
  ASSUME NEW s \in Segments, NEW seen \in SUBSET Assets
  PROVE  [op |-> "rematch", segment |-> s, seen |-> seen] \in Transaction
  BY DEF Transaction, RematchTxn

\* The ranking of some assets is a set of these assets.
LEMMA RankedSubset ==
  ASSUME NEW seen, NEW ranked \in Ranked(seen)
  PROVE  ranked \subseteq seen
  BY DEF Ranked

-----------------------------------------------------------------------------
(* The types *)

LEMMA TypeStep == ASSUME TypeOK, HeldStillTrue, [Next]_vars PROVE TypeOK'
<1> USE DEF TypeOK
<1>1. CASE UNCHANGED vars
  BY <1>1 DEF vars
<1>2. ASSUME NEW r \in Requests, NEW s \in Segments, NEW a \in Assets,
             NEW source \in {"manual", "generated"}, BeginSelect(r, s, a, source)
      PROVE  TypeOK'
  BY <1>2, SelectTyped DEF BeginSelect
<1>3. ASSUME NEW r \in Requests, NEW s \in Segments, BeginRematch(r, s) PROVE TypeOK'
  <2>1. Active \in SUBSET Assets
    BY DEF Active
  <2>2. QED
    BY <1>3, <2>1, RematchTyped DEF BeginRematch
<1>4. ASSUME NEW r \in Requests, CommitSelect(r) PROVE TypeOK'
  <2> DEFINE s == txn[r].segment  row == [asset |-> txn[r].asset, source |-> txn[r].source]
  <2>1. s \in Segments /\ txn[r].asset \in Assets /\ txn[r].source \in {"manual", "generated"}
    BY <1>4, TxnShape DEF CommitSelect, LockingOps
  <2>2. row # NoSelection
    BY <2>1, LibraryAssumption DEF NoSelection
  <2>3. selection' = [selection EXCEPT ![s] = row]
    BY <1>4 DEF CommitSelect
  <2>4. txn' \in [Requests -> Transaction] /\ UNCHANGED <<dialect, asset, candidates, job>>
    BY <1>4, NoTxnTyped DEF CommitSelect
  <2>5. job.state = "ready"
    BY <1>4 DEF CommitSelect, HeldStillTrue
  <2>6. row \in SelectionRow
    BY <2>1 DEF SelectionRow
  <2> HIDE DEF s, row
  <2>7. QED
    BY <2>1, <2>2, <2>3, <2>4, <2>5, <2>6
<1>5. ASSUME NEW r \in Requests, CommitRematch(r) PROVE TypeOK'
  <2> DEFINE s == txn[r].segment
  <2>1. s \in Segments /\ txn[r].seen \in SUBSET Assets
    BY <1>5, TxnShape DEF CommitRematch
  <2>2. PICK ranked \in Ranked(txn[r].seen) : \E b \in ranked :
          /\ candidates' = [candidates EXCEPT ![s] = ranked]
          /\ selection' = [selection EXCEPT ![s] = Rematched(@, b)]
    BY <1>5 DEF CommitRematch
  <2>3. PICK b \in ranked : /\ candidates' = [candidates EXCEPT ![s] = ranked]
                            /\ selection' = [selection EXCEPT ![s] = Rematched(@, b)]
    BY <2>2
  <2>4. ranked \subseteq Assets /\ b \in Assets
    BY <2>1, <2>3, RankedSubset
  <2> DEFINE row == Rematched(selection[s], b)
  <2>5. row \in {NoSelection} \union SelectionRow
    BY <2>1, <2>4 DEF Rematched, AutoSelection, SelectionRow
  <2>6. row # NoSelection <=> selection[s] # NoSelection
    BY <2>1 DEF Rematched, AutoSelection, NoSelection
  <2>7. selection' = [selection EXCEPT ![s] = row]
    BY <2>3
  <2>8. txn' \in [Requests -> Transaction] /\ UNCHANGED <<dialect, asset, job>>
    BY <1>5, NoTxnTyped DEF CommitRematch
  <2> HIDE DEF s, row
  <2>9. QED
    BY <2>1, <2>3, <2>4, <2>5, <2>6, <2>7, <2>8
<1>6. ASSUME NEW s \in Segments, NEW a \in Assets, AcceptImage(s, a) PROVE TypeOK'
  <2> DEFINE row == [asset |-> a, source |-> "generated"]
  <2>1. row # NoSelection
    BY LibraryAssumption DEF NoSelection
  <2>2. row \in SelectionRow
    BY DEF SelectionRow
  <2>3. selection' = [selection EXCEPT ![s] = row]
    BY <1>6 DEF AcceptImage
  <2> HIDE DEF row
  <2>4. QED
    BY <1>6, <2>1, <2>2, <2>3 DEF AcceptImage
<1>7. ASSUME NEW r \in Requests, NEW a \in Assets, BeginDeactivate(r, a) \/ BeginDelete(r, a)
      PROVE  TypeOK'
  <2>1. PICK t \in Transaction : txn' = [txn EXCEPT ![r] = t]
    BY <1>7, RemovalTyped DEF BeginDeactivate, BeginDelete
  <2>2. UNCHANGED <<dialect, asset, selection, candidates, job>>
    BY <1>7 DEF BeginDeactivate, BeginDelete
  <2>3. QED
    BY <2>1, <2>2
<1>8. ASSUME NEW r \in Requests, CommitDeactivate(r) \/ CommitDelete(r) PROVE TypeOK'
  <2>1. txn' \in [Requests -> Transaction]
    BY <1>8, NoTxnTyped DEF CommitDeactivate, CommitDelete
  <2>2. asset' \in [Assets -> {"absent", "active", "inactive", "deleted"}]
    BY <1>8 DEF CommitDeactivate, CommitDelete
  <2>3. candidates' \in [Segments -> SUBSET Assets]
    BY <1>8 DEF CommitDeactivate, CommitDelete
  <2>4. UNCHANGED <<dialect, selection, job>>
    BY <1>8 DEF CommitDeactivate, CommitDelete
  <2>5. QED
    BY <2>1, <2>2, <2>3, <2>4
<1>9. ASSUME NEW a \in Assets, Upload(a) \/ Reactivate(a) PROVE TypeOK'
  BY <1>9 DEF Upload, Reactivate
<1>10. ASSUME NEW r \in Requests, Rollback(r) PROVE TypeOK'
  BY <1>10, NoTxnTyped DEF Rollback
<1>11. CASE Match \/ MatchAgain
  BY <1>11 DEF Match, MatchAgain, Active
<1>12. CASE Persist
  <2>1. job' = [state |-> "ready", seen |-> {}] /\ UNCHANGED <<dialect, asset, txn>>
    BY <1>12 DEF Persist
  <2>2. candidates' \in [Segments -> SUBSET Assets]
    BY <1>12, RankedSubset DEF Persist
  <2>3. PICK best \in [Segments -> job.seen] :
          selection' = [s \in Segments |-> AutoSelection(best[s])]
    BY <1>12 DEF Persist
  <2>4. \A s \in Segments : best[s] \in Assets /\ best[s] # NoAsset
    BY <2>3, LibraryAssumption
  <2>5. QED
    BY <2>1, <2>2, <2>3, <2>4 DEF AutoSelection, NoSelection, SelectionRow
<1> QED
  BY <1>1, <1>2, <1>3, <1>4, <1>5, <1>6, <1>7, <1>8, <1>9, <1>10, <1>11, <1>12
  DEF Next, SegmentRequest, LibraryRequest
-----------------------------------------------------------------------------
(* The locks *)

\* Every step keeps the transactions apart: one that begins finds its asset free.
LEMMA LocksStep == ASSUME TypeOK, LocksExclusive, [Next]_vars PROVE LocksExclusive'
<1>1. CASE UNCHANGED txn
  BY <1>1 DEF LocksExclusive
<1>2. ASSUME NEW r \in Requests, txn' = [txn EXCEPT ![r] = NoTxn] PROVE LocksExclusive'
  BY <1>2 DEF LocksExclusive, LockingOps, NoTxn, TypeOK
<1>3. ASSUME NEW r \in Requests, NEW t \in Transaction, txn' = [txn EXCEPT ![r] = t],
             t.op \in LockingOps => AssetFree(t.asset)
      PROVE  LocksExclusive'
  BY <1>3 DEF LocksExclusive, AssetFree, TypeOK
<1>4. ASSUME NEW r \in Requests,
             CommitSelect(r) \/ CommitRematch(r) \/ CommitDeactivate(r) \/ CommitDelete(r)
               \/ Rollback(r)
      PROVE  txn' = [txn EXCEPT ![r] = NoTxn]
  BY <1>4 DEF CommitSelect, CommitRematch, CommitDeactivate, CommitDelete, Rollback
<1>5. ASSUME NEW r \in Requests, NEW s \in Segments, NEW a \in Assets,
             NEW source \in {"manual", "generated"}, BeginSelect(r, s, a, source)
      PROVE  LocksExclusive'
  BY <1>5, <1>3, SelectTyped DEF BeginSelect
<1>6. ASSUME NEW r \in Requests, NEW s \in Segments, BeginRematch(r, s) PROVE LocksExclusive'
  <2>1. Active \in SUBSET Assets
    BY DEF Active
  <2>2. QED
    BY <1>6, <1>3, <2>1, RematchTyped DEF BeginRematch, LockingOps
<1>7. ASSUME NEW r \in Requests, NEW a \in Assets, BeginDeactivate(r, a) \/ BeginDelete(r, a)
      PROVE  LocksExclusive'
  BY <1>7, <1>3, RemovalTyped DEF BeginDeactivate, BeginDelete
<1>8. ASSUME \/ \E s \in Segments, a \in Assets : AcceptImage(s, a)
             \/ \E a \in Assets : Upload(a) \/ Reactivate(a)
             \/ Match \/ Persist \/ MatchAgain
      PROVE  UNCHANGED txn
  BY <1>8 DEF AcceptImage, Upload, Reactivate, Match, Persist, MatchAgain
<1> QED
  BY <1>1, <1>2, <1>4, <1>5, <1>6, <1>7, <1>8
  DEF Next, SegmentRequest, LibraryRequest, vars

\* What a transaction learnt of the asset it holds stays true: the asset only
\* changes under its own lock, and only a free asset is inserted as a selection.
LEMMA HeldStep ==
  ASSUME TypeOK, LocksExclusive, HeldStillTrue, ChosenAssetUsable, [Next]_vars
  PROVE  HeldStillTrue'
<1> USE DEF HeldStillTrue
<1>0. \A r \in Requests : txn[r] \in Transaction
  BY DEF TypeOK
<1>1. ASSUME UNCHANGED <<asset, selection>>, NEW r \in Requests, job'.state = job.state,
             NEW t \in Transaction, txn' = [txn EXCEPT ![r] = t],
             /\ t.op \in {"select", "deactivate"} => asset[t.asset] = "active"
             /\ t.op = "select" => job.state = "ready"
             /\ t.op = "delete" => Present(t.asset)
             /\ t.op \in {"deactivate", "delete"} => ~InUse(t.asset)
      PROVE  HeldStillTrue'
  BY <1>1 DEF TypeOK, Present, InUse
<1>2. ASSUME UNCHANGED <<asset, selection, txn>>, job'.state = job.state \/ job.state # "ready"
      PROVE  HeldStillTrue'
  BY <1>2 DEF Present, InUse
<1>3. CASE UNCHANGED vars
  BY <1>2, <1>3 DEF vars
<1>4. ASSUME NEW r \in Requests, NEW s \in Segments, NEW a \in Assets,
             NEW source \in {"manual", "generated"}, BeginSelect(r, s, a, source)
      PROVE  HeldStillTrue'
  BY <1>4, <1>1, SelectTyped DEF BeginSelect
<1>5. ASSUME NEW r \in Requests, NEW s \in Segments, BeginRematch(r, s) PROVE HeldStillTrue'
  <2>1. Active \in SUBSET Assets
    BY DEF Active
  <2>2. QED
    BY <1>5, <1>1, <2>1, RematchTyped DEF BeginRematch
<1>6. ASSUME NEW r \in Requests, NEW a \in Assets, BeginDeactivate(r, a) \/ BeginDelete(r, a)
      PROVE  HeldStillTrue'
  BY <1>6, <1>1, RemovalTyped DEF BeginDeactivate, BeginDelete
<1>7. ASSUME NEW r \in Requests, Rollback(r) PROVE HeldStillTrue'
  BY <1>7, <1>1, NoTxnTyped DEF Rollback, NoTxn
<1>8. ASSUME NEW r \in Requests, CommitSelect(r) PROVE HeldStillTrue'
  <2> DEFINE a == txn[r].asset
  <2>1. /\ selection' = [selection EXCEPT ![txn[r].segment] = [asset |-> a, source |-> txn[r].source]]
        /\ txn' = [txn EXCEPT ![r] = NoTxn]
        /\ UNCHANGED <<asset, job>>
        /\ txn[r].op \in LockingOps
    BY <1>8 DEF CommitSelect, LockingOps
  <2>2. ASSUME NEW q \in Requests, txn'[q].op \in {"deactivate", "delete"}
        PROVE  ~InUse(txn[q].asset)'
    <3>1. q # r /\ txn'[q] = txn[q]
      BY <2>1, <2>2 DEF TypeOK, NoTxn
    <3>2. txn[q].asset # a
      BY <2>1, <2>2, <3>1 DEF LocksExclusive, LockingOps
    <3>3. ~InUse(txn[q].asset)
      BY <2>2, <3>1
    <3>4. QED
      BY <2>1, <3>1, <3>2, <3>3 DEF InUse, TypeOK
  <2>3. QED
    BY <2>1, <2>2 DEF TypeOK, NoTxn, Present, InUse
<1>9. ASSUME NEW r \in Requests, CommitRematch(r) PROVE HeldStillTrue'
  <2>1. PICK best : /\ AssetFree(best)
                    /\ selection' = [selection EXCEPT ![txn[r].segment] = Rematched(@, best)]
    BY <1>9 DEF CommitRematch, Insertable
  <2>2. txn' = [txn EXCEPT ![r] = NoTxn] /\ UNCHANGED <<asset, job>>
    BY <1>9 DEF CommitRematch
  <2>3. ASSUME NEW q \in Requests, txn'[q].op \in {"deactivate", "delete"}
        PROVE  ~InUse(txn[q].asset)'
    <3>1. q # r /\ txn'[q] = txn[q]
      BY <2>2, <2>3 DEF TypeOK, NoTxn
    <3>2. txn[q].asset # best
      BY <2>1, <2>3, <3>1 DEF AssetFree, LockingOps
    <3>3. ~InUse(txn[q].asset)
      BY <2>3, <3>1
    <3>4. QED
      BY <2>1, <2>2, <3>1, <3>2, <3>3 DEF InUse, Rematched, AutoSelection, TypeOK
  <2>4. QED
    BY <2>2, <2>3 DEF TypeOK, NoTxn, Present, InUse
<1>10. ASSUME NEW r \in Requests, CommitDeactivate(r) \/ CommitDelete(r) PROVE HeldStillTrue'
  <2>1. PICK gone \in {"inactive", "deleted"} : asset' = [asset EXCEPT ![txn[r].asset] = gone]
    BY <1>10 DEF CommitDeactivate, CommitDelete
  <2>2. txn' = [txn EXCEPT ![r] = NoTxn] /\ UNCHANGED <<selection, job>>
    BY <1>10 DEF CommitDeactivate, CommitDelete
  <2>3. txn[r].op \in LockingOps
    BY <1>10 DEF CommitDeactivate, CommitDelete, LockingOps
  <2>4. ASSUME NEW q \in Requests, txn'[q].op \in LockingOps
        PROVE  txn'[q] = txn[q] /\ asset'[txn[q].asset] = asset[txn[q].asset]
    <3>1. q # r /\ txn'[q] = txn[q]
      BY <2>2, <2>4 DEF TypeOK, NoTxn, LockingOps
    <3>2. txn[q].asset # txn[r].asset /\ txn[q].asset \in Assets
      BY <2>3, <2>4, <3>1, <1>0, TxnShape DEF LocksExclusive
    <3>3. QED
      BY <2>1, <3>1, <3>2 DEF TypeOK
  <2>5. QED
    BY <2>2, <2>4 DEF LockingOps, Present, InUse
<1>11. ASSUME NEW s \in Segments, NEW a \in Assets, AcceptImage(s, a) PROVE HeldStillTrue'
  <2>1. \A q \in Requests : txn[q].op \in LockingOps => txn[q].asset # a
    BY <1>11 DEF AcceptImage, LockingOps, Present
  <2>2. QED
    BY <1>11, <2>1, <1>0, TxnShape DEF AcceptImage, LockingOps, Present, InUse, TypeOK
<1>12. ASSUME NEW a \in Assets, Upload(a) \/ Reactivate(a) PROVE HeldStillTrue'
  BY <1>12, <1>0, TxnShape DEF Upload, Reactivate, Present, InUse, TypeOK, LockingOps
<1>13. CASE Match \/ MatchAgain
  BY <1>2, <1>13 DEF Match, MatchAgain
<1>14. CASE Persist
  <2>1. PICK ranked \in [Segments -> Ranked(job.seen)] :
          /\ \A s \in Segments : Insertable(ranked[s])
          /\ \E best \in [Segments -> job.seen] :
               /\ \A s \in Segments : best[s] \in ranked[s]
               /\ selection' = [s \in Segments |-> AutoSelection(best[s])]
    BY <1>14 DEF Persist
  <2>2. \A s \in Segments : AssetFree(selection'[s].asset)
    BY <2>1 DEF Insertable, AutoSelection
  <2>3. job.state # "ready" /\ job'.state = "ready" /\ UNCHANGED <<asset, txn>>
    BY <1>14 DEF Persist
  <2>4. QED
    BY <2>2, <2>3 DEF InUse, AssetFree, LockingOps, Present
<1> QED
  BY <1>3, <1>4, <1>5, <1>6, <1>7, <1>8, <1>9, <1>10, <1>11, <1>12, <1>13, <1>14
  DEF Next, SegmentRequest, LibraryRequest
-----------------------------------------------------------------------------
(* Selections and recommendations *)

LEMMA ChosenStep ==
  ASSUME TypeOK, HeldStillTrue, ChosenAssetUsable, [Next]_vars PROVE ChosenAssetUsable'
<1> USE DEF ChosenAssetUsable, Chosen
<1>0. \A s \in Segments : Chosen(s) => selection[s].asset \in Assets
  BY DEF TypeOK, NoSelection, SelectionRow
<1>1. CASE UNCHANGED <<asset, selection>>
  BY <1>1
<1>2. ASSUME UNCHANGED selection, \A a \in Assets : asset[a] = "active" => asset'[a] = "active"
      PROVE  ChosenAssetUsable'
  BY <1>0, <1>2
<1>3. ASSUME NEW r \in Requests, CommitSelect(r) PROVE ChosenAssetUsable'
  <2>1. asset[txn[r].asset] = "active"
    BY <1>3 DEF CommitSelect, HeldStillTrue
  <2>2. QED
    BY <1>3, <2>1 DEF CommitSelect, TypeOK
<1>4. ASSUME NEW r \in Requests, CommitRematch(r) PROVE ChosenAssetUsable'
  BY <1>4 DEF CommitRematch, Rematched, AutoSelection, TypeOK
<1>5. ASSUME NEW s \in Segments, NEW a \in Assets, AcceptImage(s, a) PROVE ChosenAssetUsable'
  BY <1>5 DEF AcceptImage, TypeOK
<1>6. ASSUME NEW r \in Requests, CommitDeactivate(r) \/ CommitDelete(r) PROVE ChosenAssetUsable'
  <2>1. UNCHANGED selection /\ \A a \in Assets : a # txn[r].asset => asset'[a] = asset[a]
    BY <1>6 DEF CommitDeactivate, CommitDelete, TypeOK
  <2>2. ~InUse(txn[r].asset)
    BY <1>6 DEF CommitDeactivate, CommitDelete, HeldStillTrue
  <2>3. QED
    BY <1>0, <2>1, <2>2 DEF InUse
<1>7. CASE Persist
  BY <1>7 DEF Persist, AutoSelection
<1>8. ASSUME NEW a \in Assets, Upload(a) \/ Reactivate(a) PROVE ChosenAssetUsable'
  BY <1>2, <1>8 DEF Upload, Reactivate, TypeOK
<1>9. ASSUME NEW r \in Requests, NEW a \in Assets, BeginDeactivate(r, a) \/ BeginDelete(r, a)
      PROVE  ChosenAssetUsable'
  BY <1>1, <1>9 DEF BeginDeactivate, BeginDelete
<1>10. ASSUME NEW r \in Requests, NEW s \in Segments,
              BeginRematch(r, s) \/ \E a \in Assets, source \in {"manual", "generated"} :
                                      BeginSelect(r, s, a, source)
       PROVE  ChosenAssetUsable'
  BY <1>1, <1>10 DEF BeginRematch, BeginSelect
<1>11. ASSUME NEW r \in Requests, Rollback(r) PROVE ChosenAssetUsable'
  BY <1>1, <1>11 DEF Rollback
<1>12. CASE Match \/ MatchAgain \/ UNCHANGED vars
  BY <1>1, <1>12 DEF Match, MatchAgain, vars
<1> QED
  BY <1>3, <1>4, <1>5, <1>6, <1>7, <1>8, <1>9, <1>10, <1>11, <1>12
  DEF Next, SegmentRequest, LibraryRequest

LEMMA BackedStep ==
  ASSUME TypeOK, HeldStillTrue, SelectionBacked, [Next]_vars PROVE SelectionBacked'
<1> USE DEF SelectionBacked
<1>0. \A r \in Requests : txn[r] \in Transaction
  BY DEF TypeOK
<1>1. CASE UNCHANGED <<asset, selection, candidates>>
  BY <1>1 DEF Present
<1>2. ASSUME UNCHANGED <<selection, candidates>>,
             \A a \in Assets : Present(a) => asset'[a] \in {"active", "inactive"}
      PROVE  SelectionBacked'
  BY <1>2 DEF TypeOK, Present, NoSelection, SelectionRow
<1>3. ASSUME NEW r \in Requests, CommitSelect(r) PROVE SelectionBacked'
  <2>1. asset[txn[r].asset] = "active"
    BY <1>3 DEF CommitSelect, HeldStillTrue
  <2>2. txn[r].source \in {"manual", "generated"}
    BY <1>0, <1>3, TxnShape DEF CommitSelect
  <2>3. QED
    BY <1>3, <2>1, <2>2 DEF CommitSelect, TypeOK, Present
<1>4. ASSUME NEW r \in Requests, CommitRematch(r) PROVE SelectionBacked'
  <2>1. PICK ranked, best :
          /\ best \in ranked
          /\ Insertable(ranked)
          /\ candidates' = [candidates EXCEPT ![txn[r].segment] = ranked]
          /\ selection' = [selection EXCEPT ![txn[r].segment] = Rematched(@, best)]
          /\ UNCHANGED asset
    BY <1>4 DEF CommitRematch
  <2>2. \A a \in ranked : Present(a)
    BY <2>1 DEF Insertable
  <2>3. QED
    BY <2>1, <2>2 DEF Rematched, AutoSelection, TypeOK, Present
<1>5. ASSUME NEW s \in Segments, NEW a \in Assets, AcceptImage(s, a) PROVE SelectionBacked'
  BY <1>5 DEF AcceptImage, TypeOK, Present
<1>6. ASSUME NEW r \in Requests, CommitDeactivate(r) PROVE SelectionBacked'
  BY <1>2, <1>6 DEF CommitDeactivate, TypeOK, Present
<1>7. ASSUME NEW r \in Requests, CommitDelete(r) PROVE SelectionBacked'
  <2> DEFINE gone == txn[r].asset
  <2>1. /\ UNCHANGED selection
        /\ candidates' = [s \in Segments |-> candidates[s] \ {gone}]
        /\ \A a : a # gone => asset'[a] = asset[a]
    BY <1>7 DEF CommitDelete, TypeOK
  <2>2. ~InUse(gone)
    BY <1>7 DEF CommitDelete, HeldStillTrue
  <2>3. QED
    BY <2>1, <2>2 DEF InUse, Present
<1>8. CASE Persist
  <2>1. PICK ranked, best :
          /\ \A s \in Segments : Insertable(ranked[s]) /\ best[s] \in ranked[s]
          /\ candidates' = ranked
          /\ selection' = [s \in Segments |-> AutoSelection(best[s])]
          /\ UNCHANGED asset
    BY <1>8 DEF Persist
  <2>2. QED
    BY <2>1 DEF Insertable, AutoSelection, Present
<1>9. ASSUME NEW a \in Assets, Upload(a) \/ Reactivate(a) PROVE SelectionBacked'
  BY <1>2, <1>9 DEF Upload, Reactivate, TypeOK, Present
<1>10. ASSUME NEW r \in Requests, NEW a \in Assets, BeginDeactivate(r, a) \/ BeginDelete(r, a)
       PROVE  SelectionBacked'
  BY <1>1, <1>10 DEF BeginDeactivate, BeginDelete
<1>11. ASSUME NEW r \in Requests, NEW s \in Segments,
              BeginRematch(r, s) \/ \E a \in Assets, source \in {"manual", "generated"} :
                                      BeginSelect(r, s, a, source)
       PROVE  SelectionBacked'
  BY <1>1, <1>11 DEF BeginRematch, BeginSelect
<1>12. ASSUME NEW r \in Requests, Rollback(r) PROVE SelectionBacked'
  BY <1>1, <1>12 DEF Rollback
<1>13. CASE Match \/ MatchAgain \/ UNCHANGED vars
  BY <1>1, <1>13 DEF Match, MatchAgain, vars
<1> QED
  BY <1>3, <1>4, <1>5, <1>6, <1>7, <1>8, <1>9, <1>10, <1>11, <1>12, <1>13
  DEF Next, SegmentRequest, LibraryRequest

-----------------------------------------------------------------------------
(* Theorems *)

LEMMA LibraryInit == Init => LibraryInv
<1> SUFFICES ASSUME Init PROVE LibraryInv
  OBVIOUS
<1>1. TypeOK
  BY DEF Init, TypeOK, Transaction, NoSelection
<1>2. LocksExclusive /\ HeldStillTrue
  BY DEF Init, LocksExclusive, HeldStillTrue, LockingOps, NoTxn
<1>3. ChosenAssetUsable /\ SelectionBacked
  BY DEF Init, ChosenAssetUsable, Chosen, SelectionBacked, NoSelection
<1> QED
  BY <1>1, <1>2, <1>3 DEF LibraryInv

\* The inductive invariant: row locks exclude each other, what a transaction
\* learnt under its lock holds until it commits, and selections are in order.
THEOREM LibraryCorrect == Spec => []LibraryInv
<1>1. LibraryInv /\ [Next]_vars => LibraryInv'
  BY TypeStep, LocksStep, HeldStep, ChosenStep, BackedStep DEF LibraryInv
<1> QED
  BY <1>1, LibraryInit, PTL DEF Spec

\* The library, selections and transactions keep their types, and the project
\* is ready exactly when each of its segments has a selection.
THEOREM LibraryTypes == Spec => []TypeOK
<1>1. LibraryInv => TypeOK
  BY DEF LibraryInv
<1> QED
  BY <1>1, LibraryCorrect, PTL

\* An asset chosen by a person or generated for a segment stays active,
\* whatever patch_asset and delete_asset do concurrently.
THEOREM ChosenStaysUsable == Spec => []ChosenAssetUsable
<1>1. LibraryInv => ChosenAssetUsable
  BY DEF LibraryInv
<1> QED
  BY <1>1, LibraryCorrect, PTL

\* Selections and recommendations never dangle, and a default selection is
\* always one of the recommendations of its segment.
THEOREM SelectionsBacked == Spec => []SelectionBacked
<1>1. LibraryInv => SelectionBacked
  BY DEF LibraryInv
<1> QED
  BY <1>1, LibraryCorrect, PTL

\* A rematch never takes a person's choice away.
THEOREM ChoiceKept == Spec => ChoiceSurvivesRematch
<1>1. ASSUME TypeOK, [Next]_vars, NEW s \in Segments, Chosen(s)
      PROVE  Chosen(s)' /\ (candidates'[s] # candidates[s] => selection'[s] = selection[s])
  <2> USE <1>1 DEF Chosen
  <2>1. CASE UNCHANGED <<candidates, selection>>
    BY <2>1
  <2>2. ASSUME NEW r \in Requests, CommitSelect(r)
        PROVE  UNCHANGED candidates /\ Chosen(s)'
    <3>1. txn[r].source \in {"manual", "generated"}
      BY <2>2, TxnShape DEF CommitSelect, TypeOK
    <3>2. QED
      BY <2>2, <3>1 DEF CommitSelect, TypeOK
  <2>3. ASSUME NEW r \in Requests, CommitRematch(r) PROVE selection'[s] = selection[s]
    BY <2>3 DEF CommitRematch, Rematched, TypeOK
  <2>4. ASSUME NEW q \in Segments, NEW a \in Assets, AcceptImage(q, a)
        PROVE  UNCHANGED candidates /\ Chosen(s)'
    BY <2>4 DEF AcceptImage, TypeOK
  <2>5. ASSUME NEW r \in Requests, CommitDelete(r) PROVE UNCHANGED selection
    BY <2>5 DEF CommitDelete
  <2>6. CASE Persist
    <3>1. selection[s] = NoSelection
      BY <2>6 DEF Persist, TypeOK
    <3>2. QED
      BY <3>1 DEF NoSelection
  <2>7. ASSUME NEW r \in Requests,
               \/ Rollback(r) \/ CommitDeactivate(r)
               \/ \E a \in Assets : BeginDeactivate(r, a) \/ BeginDelete(r, a)
               \/ \E q \in Segments : BeginRematch(r, q)
               \/ \E q \in Segments, a \in Assets, source \in {"manual", "generated"} :
                    BeginSelect(r, q, a, source)
        PROVE  UNCHANGED <<candidates, selection>>
    BY <2>7 DEF Rollback, CommitDeactivate, BeginDeactivate, BeginDelete, BeginRematch, BeginSelect
  <2>8. CASE Match \/ MatchAgain \/ UNCHANGED vars \/ \E a \in Assets : Upload(a) \/ Reactivate(a)
    BY <2>1, <2>8 DEF Match, MatchAgain, Upload, Reactivate, vars
  <2> QED
    BY <2>1, <2>2, <2>3, <2>4, <2>5, <2>6, <2>7, <2>8 DEF Next, SegmentRequest, LibraryRequest
<1>2. TypeOK /\ [Next]_vars =>
        [\A s \in Segments : Chosen(s) =>
           /\ Chosen(s)'
           /\ candidates'[s] # candidates[s] => selection'[s] = selection[s]]_vars
  BY <1>1
<1> QED
  BY <1>2, LibraryTypes, PTL DEF Spec, ChoiceSurvivesRematch

-----------------------------------------------------------------------------
(* The minimum of active assets, with SQLite *)

LEMMA ActiveFinite ==
  IsFiniteSet(Active) /\ Cardinality(Active) \in Nat
  BY FS_Subset, FS_CardinalityType, LibraryAssumption DEF Active

\* A step that takes no asset out of the active ones keeps the minimum.
LEMMA ActiveGrows ==
  ASSUME \A a \in Assets : asset[a] = "active" => asset'[a] = "active",
         Cardinality(Active) >= MinimumActive
  PROVE  Cardinality(Active') >= MinimumActive
<1>1. Active \subseteq Active' /\ Active' \subseteq Assets
  BY DEF Active
<1>2. IsFiniteSet(Active') /\ Cardinality(Active') \in Nat
  BY <1>1, FS_Subset, FS_CardinalityType, LibraryAssumption
<1>3. Cardinality(Active) <= Cardinality(Active')
  BY <1>1, <1>2, FS_Subset
<1> QED
  BY <1>2, <1>3, ActiveFinite, LibraryAssumption

\* Taking one asset away keeps the minimum when there were more than that.
LEMMA ActiveShrinks ==
  ASSUME NEW a \in Assets, TypeOK, NEW gone \in {"inactive", "deleted"},
         asset' = [asset EXCEPT ![a] = gone],
         asset[a] = "active" => EnoughActive,
         Cardinality(Active) >= MinimumActive
  PROVE  Cardinality(Active') >= MinimumActive
<1>1. CASE asset[a] # "active"
  <2>1. Active' = Active
    BY <1>1 DEF Active, TypeOK
  <2>2. QED
    BY <2>1
<1>2. CASE asset[a] = "active"
  <2>1. a \in Active /\ Active' = Active \ {a}
    BY <1>2 DEF Active, TypeOK
  <2>2. Cardinality(Active') = Cardinality(Active) - 1
    BY <2>1, ActiveFinite, FS_RemoveElement
  <2>3. QED
    BY <1>2, <2>2, ActiveFinite, LibraryAssumption DEF EnoughActive
<1> QED
  BY <1>1, <1>2

LEMMA DialectKept == ASSUME [Next]_vars PROVE dialect' = dialect
  BY DEF Next, SegmentRequest, LibraryRequest, vars, BeginSelect, CommitSelect,
     BeginRematch, CommitRematch, AcceptImage, Upload, Reactivate, BeginDeactivate,
     CommitDeactivate, BeginDelete, CommitDelete, Rollback, Match, Persist, MatchAgain

LEMMA WriterStep == ASSUME TypeOK, OneWriter, [Next]_vars PROVE OneWriter'
<1> USE DEF OneWriter, TypeOK
<1>1. CASE UNCHANGED <<txn, dialect>>
  BY <1>1
<1>2. ASSUME NEW r \in Requests,
             CommitSelect(r) \/ CommitRematch(r) \/ CommitDeactivate(r) \/ CommitDelete(r)
               \/ Rollback(r)
      PROVE  OneWriter'
  BY <1>2 DEF CommitSelect, CommitRematch, CommitDeactivate, CommitDelete, Rollback
<1>3. ASSUME NEW r \in Requests, CanBegin(r), NEW t, txn' = [txn EXCEPT ![r] = t], dialect' = dialect
      PROVE  OneWriter'
  BY <1>3 DEF CanBegin, WriteLockFree
<1>4. ASSUME NEW r \in Requests,
             \/ \E a \in Assets : BeginDeactivate(r, a) \/ BeginDelete(r, a)
             \/ \E s \in Segments : BeginRematch(r, s)
             \/ \E s \in Segments, a \in Assets, source \in {"manual", "generated"} :
                  BeginSelect(r, s, a, source)
      PROVE  OneWriter'
  <2>1. CanBegin(r) /\ dialect' = dialect /\ \E t : txn' = [txn EXCEPT ![r] = t]
    BY <1>4 DEF BeginDeactivate, BeginDelete, BeginRematch, BeginSelect
  <2>2. QED
    BY <1>3, <2>1
<1>5. ASSUME \/ \E s \in Segments, a \in Assets : AcceptImage(s, a)
             \/ \E a \in Assets : Upload(a) \/ Reactivate(a)
             \/ Match \/ Persist \/ MatchAgain
      PROVE  UNCHANGED <<txn, dialect>>
  BY <1>5 DEF AcceptImage, Upload, Reactivate, Match, Persist, MatchAgain
<1> QED
  BY <1>1, <1>2, <1>4, <1>5 DEF Next, SegmentRequest, LibraryRequest, vars

LEMMA MinimumStep ==
  ASSUME TypeOK, HeldStillTrue, MinimumInv, [Next]_vars, dialect = "sqlite"
  PROVE  RemovalCounted' /\ MinimumKeptBySQLite'
<1> USE DEF MinimumInv, MinimumKeptBySQLite, RemovalCounted
<1>0. \A r \in Requests : txn[r] \in Transaction
  BY DEF TypeOK
<1>1. ASSUME UNCHANGED asset, NEW r \in Requests, NEW t, txn' = [txn EXCEPT ![r] = t],
             t.op \in {"deactivate", "delete"} /\ asset[t.asset] = "active" => EnoughActive
      PROVE  RemovalCounted' /\ MinimumKeptBySQLite'
  BY <1>1 DEF EnoughActive, Active, TypeOK
<1>2. CASE UNCHANGED <<asset, txn>>
  BY <1>2 DEF EnoughActive, Active
<1>3. ASSUME NEW r \in Requests, NEW s \in Segments,
             BeginRematch(r, s) \/ \E a \in Assets, source \in {"manual", "generated"} :
                                     BeginSelect(r, s, a, source)
      PROVE  RemovalCounted' /\ MinimumKeptBySQLite'
  BY <1>1, <1>3 DEF BeginRematch, BeginSelect
<1>4. ASSUME NEW r \in Requests, NEW a \in Assets, BeginDeactivate(r, a) \/ BeginDelete(r, a)
      PROVE  RemovalCounted' /\ MinimumKeptBySQLite'
  BY <1>1, <1>4 DEF BeginDeactivate, BeginDelete
<1>5. ASSUME NEW r \in Requests, CommitSelect(r) \/ CommitRematch(r) \/ Rollback(r)
      PROVE  RemovalCounted' /\ MinimumKeptBySQLite'
  BY <1>1, <1>5 DEF CommitSelect, CommitRematch, Rollback, NoTxn
<1>6. ASSUME NEW r \in Requests, CommitDeactivate(r) \/ CommitDelete(r)
      PROVE  RemovalCounted' /\ MinimumKeptBySQLite'
  <2>1. PICK gone \in {"inactive", "deleted"} : asset' = [asset EXCEPT ![txn[r].asset] = gone]
    BY <1>6 DEF CommitDeactivate, CommitDelete
  <2>2. txn[r].op \in {"deactivate", "delete"} /\ txn' = [txn EXCEPT ![r] = NoTxn]
    BY <1>6 DEF CommitDeactivate, CommitDelete
  <2>3. txn[r].asset \in Assets
    BY <1>0, <2>2, TxnShape DEF LockingOps
  <2>4. Cardinality(Active') >= MinimumActive
    BY <2>1, <2>2, <2>3, ActiveShrinks
  <2>5. \A q \in Requests : txn'[q] = NoTxn
    BY <2>2 DEF OneWriter, NoTxn, TypeOK
  <2>6. QED
    BY <2>4, <2>5 DEF NoTxn
<1>7. ASSUME \/ \E s \in Segments, a \in Assets : AcceptImage(s, a)
             \/ \E a \in Assets : Upload(a) \/ Reactivate(a)
      PROVE  RemovalCounted' /\ MinimumKeptBySQLite'
  <2>1. UNCHANGED txn /\ \A q \in Requests : txn[q] = NoTxn
    BY <1>7 DEF AcceptImage, Upload, Reactivate, WriteLockFree
  <2>2. \A a \in Assets : asset[a] = "active" => asset'[a] = "active"
    BY <1>7 DEF AcceptImage, Upload, Reactivate, TypeOK
  <2>3. QED
    BY <2>1, <2>2, ActiveGrows DEF NoTxn
<1>8. CASE Match \/ MatchAgain \/ Persist \/ UNCHANGED vars
  BY <1>2, <1>8 DEF Match, MatchAgain, Persist, vars
<1> QED
  BY <1>3, <1>4, <1>5, <1>6, <1>7, <1>8 DEF Next, SegmentRequest, LibraryRequest

LEMMA MinimumInductive == Spec => []MinimumInv
<1>1. Init => MinimumInv
  <2>1. ASSUME Init PROVE Active = SeedAssets
    BY <2>1, LibraryAssumption DEF Init, Active
  <2>2. QED
    BY <2>1, LibraryAssumption
    DEF Init, MinimumInv, OneWriter, RemovalCounted, MinimumKeptBySQLite, NoTxn
<1>2. TypeOK /\ HeldStillTrue /\ MinimumInv /\ [Next]_vars => MinimumInv'
  <2>1. SUFFICES ASSUME TypeOK, HeldStillTrue, MinimumInv, [Next]_vars PROVE MinimumInv'
    OBVIOUS
  <2>2. dialect' = dialect
    BY <2>1, DialectKept
  <2>3. CASE dialect = "sqlite"
    BY <2>1, <2>3, WriterStep, MinimumStep DEF MinimumInv
  <2>4. CASE dialect # "sqlite"
    BY <2>2, <2>4 DEF MinimumInv, OneWriter, RemovalCounted, MinimumKeptBySQLite
  <2>5. QED
    BY <2>3, <2>4
<1>3. LibraryInv => TypeOK /\ HeldStillTrue
  BY DEF LibraryInv
<1> QED
  BY <1>1, <1>2, <1>3, LibraryCorrect, PTL DEF Spec

\* With SQLite, patch_asset and delete_asset together never leave fewer active
\* assets than a match needs: BEGIN IMMEDIATE makes the count and the update one.
THEOREM MinimumKept == Spec => []MinimumKeptBySQLite
<1>1. MinimumInv => MinimumKeptBySQLite
  BY DEF MinimumInv
<1> QED
  BY <1>1, MinimumInductive, PTL

-----------------------------------------------------------------------------
(* Every request behaves as if it happened at once *)

\* What else a request found out when it began: the asset to delete is not built
\* in, a project that is ready stays so, and with SQLite nobody changes the active
\* assets that a rematch has read.
RequestsCurrent ==
  \A r \in Requests :
    /\ txn[r].op = "delete" => txn[r].asset \notin SeedAssets
    /\ txn[r].op = "rematch" =>
         job.state = "ready" /\ (dialect = "sqlite" => txn[r].seen = Active)

AtomicInv == LibraryInv /\ MinimumInv /\ RequestsCurrent

LEMMA CurrentStep ==
  ASSUME TypeOK, OneWriter, RequestsCurrent, [Next]_vars
  PROVE  RequestsCurrent'
<1> USE DEF RequestsCurrent
<1>0. dialect' = dialect
  BY DialectKept
<1>1. ASSUME UNCHANGED asset, job'.state = job.state, NEW r \in Requests, NEW t,
             txn' = [txn EXCEPT ![r] = t],
             t.op = "delete" => t.asset \notin SeedAssets,
             t.op = "rematch" => job.state = "ready" /\ t.seen = Active
      PROVE  RequestsCurrent'
  BY <1>0, <1>1 DEF Active, TypeOK
<1>2. ASSUME UNCHANGED <<asset, txn>>, job.state = "ready" => job'.state = "ready"
      PROVE  RequestsCurrent'
  BY <1>0, <1>2 DEF Active
<1>3. ASSUME NEW r \in Requests,
             \/ \E s \in Segments : BeginRematch(r, s)
             \/ \E s \in Segments, a \in Assets, source \in {"manual", "generated"} :
                  BeginSelect(r, s, a, source)
             \/ \E a \in Assets : BeginDeactivate(r, a) \/ BeginDelete(r, a)
      PROVE  RequestsCurrent'
  <2>1. CASE \E s \in Segments : BeginRematch(r, s)
    BY <1>1, <2>1 DEF BeginRematch
  <2>2. CASE \E s \in Segments, a \in Assets, source \in {"manual", "generated"} :
               BeginSelect(r, s, a, source)
    BY <1>1, <2>2 DEF BeginSelect
  <2>3. CASE \E a \in Assets : BeginDeactivate(r, a) \/ BeginDelete(r, a)
    BY <1>1, <2>3 DEF BeginDeactivate, BeginDelete
  <2>4. QED
    BY <1>3, <2>1, <2>2, <2>3
<1>4. ASSUME NEW r \in Requests, CommitSelect(r) \/ CommitRematch(r) \/ Rollback(r)
      PROVE  RequestsCurrent'
  BY <1>1, <1>4 DEF CommitSelect, CommitRematch, Rollback, NoTxn
<1>5. ASSUME NEW r \in Requests, CommitDeactivate(r) \/ CommitDelete(r)
      PROVE  RequestsCurrent'
  <2>1. txn[r] # NoTxn /\ txn' = [txn EXCEPT ![r] = NoTxn] /\ UNCHANGED job
    BY <1>5 DEF CommitDeactivate, CommitDelete, NoTxn
  <2>2. ASSUME NEW q \in Requests, txn'[q].op \in {"delete", "rematch"}
        PROVE  q # r /\ txn'[q] = txn[q] /\ dialect # "sqlite"
    <3>1. q # r /\ txn'[q] = txn[q]
      BY <2>1, <2>2 DEF TypeOK, NoTxn
    <3>2. QED
      BY <2>1, <2>2, <3>1 DEF OneWriter, NoTxn
  <2>3. QED
    BY <1>0, <2>1, <2>2
<1>6. ASSUME \/ \E s \in Segments, a \in Assets : AcceptImage(s, a)
             \/ \E a \in Assets : Upload(a) \/ Reactivate(a)
      PROVE  RequestsCurrent'
  <2>1. UNCHANGED <<txn, job>> /\ (dialect = "sqlite" => \A r \in Requests : txn[r] = NoTxn)
    BY <1>6 DEF AcceptImage, Upload, Reactivate, WriteLockFree
  <2>2. QED
    BY <1>0, <2>1 DEF NoTxn
<1>7. CASE Match \/ MatchAgain \/ Persist \/ UNCHANGED vars
  BY <1>2, <1>7 DEF Match, MatchAgain, Persist, vars
<1> QED
  BY <1>3, <1>4, <1>5, <1>6, <1>7 DEF Next, SegmentRequest, LibraryRequest

\* A step that leaves the three tables alone is a refused request.
LEMMA RefuseMapped ==
  ASSUME UNCHANGED <<dialect, asset, selection, candidates>>
  PROVE  Atomic!Next
  BY DEF Atomic!Next, Atomic!Refuse, Atomic!vars

\* A segment has a selection when the project is ready.
LEMMA ShownIfReady ==
  ASSUME TypeOK, job.state = "ready", NEW s \in Segments
  PROVE  selection[s] # Atomic!Unshown
  BY DEF TypeOK, NoSelection, Atomic!Unshown, Atomic!Shown

LEMMA SelectMapped ==
  ASSUME AtomicInv, NEW r \in Requests, CommitSelect(r)
  PROVE  Atomic!Next
<1> DEFINE s == txn[r].segment  a == txn[r].asset  source == txn[r].source
<1>1. TypeOK /\ HeldStillTrue /\ txn[r].op = "select"
  BY DEF AtomicInv, LibraryInv, CommitSelect
<1>2. s \in Segments /\ a \in Assets /\ source \in {"manual", "generated"}
  BY <1>1, TxnShape DEF TypeOK, LockingOps
<1>3. selection[s] # Atomic!Unshown /\ asset[a] = "active"
  BY <1>1, <1>2, ShownIfReady DEF HeldStillTrue
<1>4. Atomic!Choose(s, a, source)
  BY <1>3 DEF CommitSelect, Atomic!Choose, Atomic!Shown
<1> QED
  BY <1>2, <1>4 DEF Atomic!Next

\* AtomicLibrary counts as AssetSelection does.
LEMMA SameCount ==
  ASSUME NEW S
  PROVE  Atomic!Cardinality(S) = Cardinality(S)
  BY DEF Cardinality, Atomic!Cardinality

\* A ranking of all active assets keeps as many of them as it may.
LEMMA RankedFromAll ==
  ASSUME NEW ranked \in Ranked(Active)
  PROVE  Atomic!FromAllActive(ranked)
<1>1. ranked \subseteq Active
  BY RankedSubset
<1>2. Cardinality(ranked) = IF Cardinality(Active) < MaxCandidates THEN Cardinality(Active)
                                                                   ELSE MaxCandidates
  BY DEF Ranked
<1>3. Cardinality(Active) < MaxCandidates => ranked = Active
  BY <1>1, <1>2, ActiveFinite, FS_Subset
<1> QED
  BY <1>1, <1>2, <1>3, SameCount DEF Atomic!FromAllActive, Active, Atomic!Active

LEMMA RematchMapped ==
  ASSUME AtomicInv, NEW r \in Requests, CommitRematch(r)
  PROVE  Atomic!Next
<1> DEFINE s == txn[r].segment
<1>1. TypeOK /\ txn[r].op = "rematch"
  BY DEF AtomicInv, LibraryInv, CommitRematch
<1>2. s \in Segments /\ txn[r].seen \in SUBSET Assets
  BY <1>1, TxnShape DEF TypeOK
<1>3. job.state = "ready" /\ (dialect = "sqlite" => txn[r].seen = Active)
  BY <1>1 DEF AtomicInv, RequestsCurrent
<1>4. PICK ranked \in Ranked(txn[r].seen) : \E best \in ranked :
        /\ Insertable(ranked)
        /\ candidates' = [candidates EXCEPT ![s] = ranked]
        /\ selection' = [selection EXCEPT ![s] = Rematched(@, best)]
  BY DEF CommitRematch
<1>5. PICK best \in ranked : selection' = [selection EXCEPT ![s] = Rematched(@, best)]
  BY <1>4
<1>6. ranked \subseteq Atomic!Present
  BY <1>2, <1>4, RankedSubset DEF Insertable, Present, Atomic!Present
<1>7. \A q \in Segments : candidates[q] \subseteq Atomic!Present
  BY DEF AtomicInv, LibraryInv, TypeOK, SelectionBacked, Present, Atomic!Present
<1>8. candidates' \in [Segments -> SUBSET Atomic!Present]
  BY <1>1, <1>4, <1>6, <1>7 DEF TypeOK
<1>9. candidates'[s] = ranked /\ \A other \in Segments \ {s} : candidates'[other] = candidates[other]
  BY <1>1, <1>2, <1>4 DEF TypeOK
<1>10. dialect = "sqlite" => Atomic!FromAllActive(ranked)
  BY <1>3, RankedFromAll
<1>11. selection' = IF selection[s].source = "auto"
                    THEN [selection EXCEPT ![s] = Atomic!Shown(best, "auto")]
                    ELSE selection
  BY <1>1, <1>2, <1>5 DEF TypeOK, Rematched, AutoSelection, Atomic!Shown
<1>12. selection[s] # Atomic!Unshown
  BY <1>1, <1>2, <1>3, ShownIfReady
<1>13. UNCHANGED <<dialect, asset>>
  BY DEF CommitRematch
<1>14. Atomic!Recommend(s)
  BY <1>8, <1>9, <1>10, <1>11, <1>12, <1>13 DEF Atomic!Recommend
<1> QED
  BY <1>2, <1>14 DEF Atomic!Next

LEMMA OfferMapped ==
  ASSUME NEW a \in Assets, Upload(a) \/ Reactivate(a)
  PROVE  Atomic!Next
<1>1. Atomic!Offer(a)
  BY DEF Upload, Reactivate, Atomic!Offer
<1> QED
  BY <1>1 DEF Atomic!Next

LEMMA ImportMapped ==
  ASSUME AtomicInv, NEW s \in Segments, NEW a \in Assets, AcceptImage(s, a)
  PROVE  Atomic!Next
<1>1. TypeOK /\ job.state = "ready"
  BY DEF AtomicInv, LibraryInv, AcceptImage
<1>2. Atomic!Import(s, a)
  BY <1>1, ShownIfReady DEF AcceptImage, Atomic!Import, Atomic!Shown
<1> QED
  BY <1>2 DEF Atomic!Next

LEMMA RemovalMapped ==
  ASSUME AtomicInv, NEW r \in Requests, CommitDeactivate(r) \/ CommitDelete(r)
  PROVE  Atomic!Next
<1> DEFINE a == txn[r].asset
<1>1. TypeOK /\ HeldStillTrue /\ MinimumInv /\ RequestsCurrent /\ txn[r].op \in {"deactivate", "delete"}
  BY DEF AtomicInv, LibraryInv, CommitDeactivate, CommitDelete
<1>2. a \in Assets
  BY <1>1, TxnShape DEF TypeOK, LockingOps
<1>3. Atomic!Idle(a)
  BY <1>1 DEF HeldStillTrue, InUse, Atomic!Idle
<1>4. asset[a] = "active" => Atomic!Spare
  BY <1>1, SameCount DEF MinimumInv, RemovalCounted, EnoughActive, Active, Atomic!Active, Atomic!Spare
<1>5. CASE CommitDeactivate(r)
  <2>1. asset[a] = "active"
    BY <1>1, <1>5 DEF HeldStillTrue, CommitDeactivate
  <2>2. Atomic!Withdraw(a)
    BY <1>3, <1>4, <1>5, <2>1 DEF CommitDeactivate, Atomic!Withdraw
  <2>3. QED
    BY <1>2, <2>2 DEF Atomic!Next
<1>6. CASE CommitDelete(r)
  <2>1. a \in Atomic!Present \ SeedAssets
    BY <1>1, <1>2, <1>6 DEF HeldStillTrue, CommitDelete, RequestsCurrent, Present, Atomic!Present
  <2>2. Atomic!Remove(a)
    BY <1>3, <1>4, <1>6, <2>1 DEF CommitDelete, Atomic!Remove
  <2>3. QED
    BY <1>2, <2>2 DEF Atomic!Next
<1> QED
  BY <1>5, <1>6

LEMMA PublishMapped ==
  ASSUME AtomicInv, Persist
  PROVE  Atomic!Next
<1>1. PICK ranked \in [Segments -> Ranked(job.seen)], best \in [Segments -> job.seen] :
        /\ \A s \in Segments : Insertable(ranked[s]) /\ best[s] \in ranked[s]
        /\ candidates' = ranked
        /\ selection' = [s \in Segments |-> AutoSelection(best[s])]
  BY DEF Persist
<1>2. TypeOK /\ job.seen \subseteq Assets /\ UNCHANGED <<dialect, asset>>
  BY DEF AtomicInv, LibraryInv, TypeOK, Persist
<1>3. \A s \in Segments : selection[s] = Atomic!Unshown
  BY <1>2 DEF Persist, TypeOK, NoSelection, Atomic!Unshown, Atomic!Shown
<1>4. \A s \in Segments : ranked[s] \subseteq Atomic!Present
  BY <1>1, <1>2, RankedSubset DEF Insertable, Present, Atomic!Present
<1>5. candidates' \in [Segments -> SUBSET Atomic!Present]
  BY <1>1, <1>4
<1>6. best \in [Segments -> Assets]
  BY <1>1, <1>2
<1>7. /\ \A s \in Segments : best[s] \in candidates'[s]
      /\ selection' = [s \in Segments |-> Atomic!Shown(best[s], "auto")]
  BY <1>1 DEF AutoSelection, Atomic!Shown
<1>8. Atomic!Publish
  BY <1>2, <1>3, <1>5, <1>6, <1>7 DEF Atomic!Publish
<1> QED
  BY <1>8 DEF Atomic!Next

LEMMA NextMapped ==
  ASSUME AtomicInv, [Next]_vars
  PROVE  [Atomic!Next]_(Atomic!vars)
<1>1. ASSUME NEW r \in Requests,
             \/ Rollback(r)
             \/ \E a \in Assets : BeginDeactivate(r, a) \/ BeginDelete(r, a)
             \/ \E s \in Segments : BeginRematch(r, s)
             \/ \E s \in Segments, a \in Assets, source \in {"manual", "generated"} :
                  BeginSelect(r, s, a, source)
      PROVE  Atomic!Next
  BY <1>1, RefuseMapped
  DEF Rollback, BeginDeactivate, BeginDelete, BeginRematch, BeginSelect
<1>2. CASE Match \/ MatchAgain \/ UNCHANGED vars
  BY <1>2, RefuseMapped DEF Match, MatchAgain, vars
<1>3. CASE \/ \E r \in Requests :
                CommitSelect(r) \/ CommitRematch(r) \/ CommitDeactivate(r) \/ CommitDelete(r)
           \/ \E s \in Segments, a \in Assets : AcceptImage(s, a)
           \/ \E a \in Assets : Upload(a) \/ Reactivate(a)
           \/ Persist
  BY <1>3, SelectMapped, RematchMapped, RemovalMapped, ImportMapped, OfferMapped, PublishMapped
<1> QED
  BY <1>1, <1>2, <1>3 DEF Next, SegmentRequest, LibraryRequest

\* All requests of selections.py, assets.py and segments.py, and the worker's
\* persisting, behave as if each read and wrote at one moment, the commit: what a
\* request checked before is still true then.  With PostgreSQL the exceptions are
\* those AtomicLibrary names, the minimum and the completeness of a ranking.
THEOREM LibraryIsAtomic == Spec => ImplementsAtomicLibrary
<1>1. Init => Atomic!Init
  BY DEF Init, NoSelection, Atomic!Init, Atomic!Unshown, Atomic!Shown
<1>2. AtomicInv /\ [Next]_vars => [Atomic!Next]_(Atomic!vars)
  BY NextMapped
<1>3. Spec => []AtomicInv
  <2>1. Init => RequestsCurrent
    BY DEF Init, RequestsCurrent, NoTxn
  <2>2. LibraryInv /\ MinimumInv /\ RequestsCurrent /\ [Next]_vars => RequestsCurrent'
    BY CurrentStep DEF LibraryInv, MinimumInv
  <2>3. QED
    BY <2>1, <2>2, LibraryCorrect, MinimumInductive, PTL DEF Spec, AtomicInv
<1> QED
  BY <1>1, <1>2, <1>3, PTL DEF Spec, ImplementsAtomicLibrary, Atomic!Spec
=============================================================================
