-------------------------- MODULE AssetTaggingProofs --------------------------
(***************************************************************************)
(* Proofs about AssetTagging for any number of assets and worker slots.    *)
(*                                                                         *)
(* The argument has two halves.  A slot that still has a live thread is    *)
(* either watching it or has isolated it, and then serves no queue, so it  *)
(* never has two (Watched).  The claims of threads and slots are past: the *)
(* row has moved on to a later request or attempt, or is still the one     *)
(* they were given (ClaimsPast), so whoever still owns its claim owns the  *)
(* present request and knows the present name.                             *)
(***************************************************************************)
EXTENDS AssetTagging, FiniteSetTheorems, TLAPS

ClaimPoints == {"tagging", "abandoned", "rescuing"}

\* The threads of a slot are the one it watches, or one it has isolated.
Watched(w) ==
  /\ \A t \in threads : t.worker = w =>
       \/ slot[w].at \in {"tagging", "abandoned"} /\ t.claim = slot[w].claim
       \/ slot[w].at \in {"idle", "other", "rescuing"} /\ t.claim \in isolated[w]
  /\ \A t, u \in threads : t.worker = w /\ u.worker = w => t = u
  /\ w \in detached =>
       slot[w].at \in {"idle", "other"} /\ \A t \in threads : t.worker # w

\* The row of a claim is at the claim's attempt, or at a later one.
Past(c) ==
  /\ c.generation <= asset[c.id].generation
  /\ c.generation = asset[c.id].generation => c.attempt <= asset[c.id].attempt

ClaimsPast ==
  /\ \A t \in threads : Past(t.claim)
  /\ \A w \in Workers : slot[w].at \in ClaimPoints => Past(slot[w].claim)

\* A replacement was asked for, an ended task has left its tags, and an asset that
\* was never uploaded has no task.
Consistent(a) ==
  /\ asset[a].mode = "replace" => consent[a]
  /\ asset[a].status \in {"succeeded", "degraded"} => \A f \in Fields : asset[a].meta[f] # "empty"
  /\ asset[a].status = "absent" => asset[a].generation = 0 /\ asset[a].attempt = 0

TaggingInv ==
  /\ TypeOK
  /\ \A w \in Workers : Watched(w)
  /\ ClaimsPast
  /\ ReadsPresentName
  /\ \A a \in Assets : Consistent(a)

-----------------------------------------------------------------------------
(* The types *)

\* A row has a mode exactly when its task is active.
TaskRow == {r \in Row : r.mode # "none" <=> r.status \in {"queued", "running"}}

Meta == [Fields -> {"empty", "manual", "auto"}]

LEMMA SlotShape ==
  ASSUME NEW s \in Slot
  PROVE  /\ s.prefersTagging \in BOOLEAN
         /\ s.at \in {"idle", "other", "job", "tagging", "abandoned", "rescuing"}
         /\ s.at \in ClaimPoints => s.claim \in ClaimOf
         /\ s.at = "rescuing" => s.name \in Nat
  BY DEF Slot, ClaimPoints

LEMMA SlotTyped ==
  ASSUME NEW b \in BOOLEAN, NEW c \in ClaimOf, NEW n \in Nat
  PROVE  /\ \A p \in {"idle", "other", "job"} : [at |-> p, prefersTagging |-> b] \in Slot
         /\ [at |-> "tagging", claim |-> c, prefersTagging |-> b] \in Slot
         /\ [at |-> "rescuing", claim |-> c, name |-> n, prefersTagging |-> b] \in Slot
  BY DEF Slot

\* What requests, claims and outcomes write.
LEMMA RequestedTyped ==
  ASSUME NEW r \in Row, NEW status, NEW mode,
         <<status, mode>> \in {<<"idle", "none">>, <<"queued", "fill_missing">>, <<"queued", "replace">>}
  PROVE  LET q == Requested(r, status, mode) IN
         /\ q \in TaskRow
         /\ q.status = status /\ q.mode = mode /\ q.meta = r.meta /\ q.name = r.name
         /\ q.generation = r.generation + 1 /\ q.attempt = 0
<1> DEFINE n == r.generation + 1
           q == [r EXCEPT !.generation = n, !.attempt = 0, !.status = status, !.mode = mode,
                          !.owner = NoWorker, !.lease = "none"]
<1>1. n \in Nat
  BY DEF Row
<1>2. Requested(r, status, mode) = q
  BY DEF Requested
<1> HIDE DEF n
<1>3. q \in Row
  BY <1>1 DEF Row
<1>4. /\ q.status = status /\ q.mode = mode /\ q.meta = r.meta /\ q.name = r.name
      /\ q.generation = n /\ q.attempt = 0
  BY <1>1 DEF Row
<1>5. q \in TaskRow
  BY <1>3, <1>4 DEF TaskRow
<1>6. QED
  BY <1>2, <1>4, <1>5 DEF n

LEMMA AppliedTyped ==
  ASSUME NEW r \in Row, NEW status \in {"succeeded", "degraded"}
  PROVE  LET q == Applied(r, status) IN
         /\ q \in TaskRow
         /\ q.status = status /\ q.mode = "none" /\ q.owner = NoWorker /\ q.name = r.name
         /\ q.generation = r.generation /\ q.attempt = r.attempt
         /\ q.meta = Written(r)
         /\ \A f \in Fields : Written(r)[f] # "empty"
         /\ \A f \in Fields : r.meta[f] = "manual" /\ Written(r)[f] = "auto" => r.mode = "replace"
<1>1. /\ Written(r) \in Meta
      /\ \A f \in Fields : Written(r)[f] # "empty"
      /\ \A f \in Fields : r.meta[f] = "manual" /\ Written(r)[f] = "auto" => r.mode = "replace"
  BY DEF Written, Row, Meta
<1> DEFINE m == Written(r)
           q == [r EXCEPT !.meta = m, !.status = status, !.mode = "none",
                          !.owner = NoWorker, !.lease = "none"]
<1>2. Applied(r, status) = q
  BY DEF Applied
<1> HIDE DEF m
<1>3. q \in Row
  BY <1>1 DEF Row, Meta, m
<1>4. /\ q.status = status /\ q.mode = "none" /\ q.owner = NoWorker /\ q.name = r.name
      /\ q.generation = r.generation /\ q.attempt = r.attempt /\ q.meta = m
  BY <1>1 DEF Row
<1>5. q \in TaskRow
  BY <1>3, <1>4 DEF TaskRow
<1>6. QED
  BY <1>1, <1>2, <1>4, <1>5 DEF m

LEMMA Types ==
  ASSUME TypeOK
  PROVE  /\ asset \in [Assets -> TaskRow] /\ asset \in [Assets -> Row]
         /\ slot \in [Workers -> Slot]
         /\ threads \subseteq Thread
         /\ isolated \in [Workers -> SUBSET ClaimOf]
         /\ detached \subseteq Workers
         /\ consent \in [Assets -> BOOLEAN]
         /\ requests \in 0..MaxRequests
         /\ outages \in 0..MaxOutages
<1>1. \A a \in Assets : asset[a] \in TaskRow
  BY DEF TypeOK, TaskRow
<1>2. asset \in [Assets -> Row]
  BY DEF TypeOK
<1>3. asset \in [Assets -> TaskRow]
  BY <1>1, <1>2
<1>4. QED
  BY <1>2, <1>3 DEF TypeOK

LEMMA PrimedTypes ==
  ASSUME asset' \in [Assets -> TaskRow], slot' \in [Workers -> Slot], threads' \subseteq Thread,
         isolated' \in [Workers -> SUBSET ClaimOf], detached' \subseteq Workers,
         consent' \in [Assets -> BOOLEAN], requests' \in 0..MaxRequests, outages' \in 0..MaxOutages
  PROVE  TypeOK'
<1>1. /\ asset' \in [Assets -> Row]
      /\ \A a \in Assets : asset'[a].mode # "none" <=> asset'[a].status \in {"queued", "running"}
  BY DEF TaskRow
<1>2. QED
  BY <1>1 DEF TypeOK

-----------------------------------------------------------------------------
(* What the steps have in common *)

\* A row moves to a later request, to a later attempt, or nobody gains it.
Moves(a) ==
  \/ asset'[a].generation > asset[a].generation
  \/ asset'[a].generation = asset[a].generation /\ asset'[a].attempt > asset[a].attempt
  \/ /\ asset'[a].generation = asset[a].generation /\ asset'[a].attempt = asset[a].attempt
     /\ asset'[a].status = "running" =>
          /\ asset[a].status = "running" /\ asset'[a].name = asset[a].name
          /\ asset'[a].owner \in {asset[a].owner, NoWorker}

LEMMA RowsTyped ==
  /\ TypeOK => \A a \in Assets : asset[a].generation \in Nat /\ asset[a].attempt \in Nat
  /\ TypeOK' => \A a \in Assets : asset'[a].generation \in Nat /\ asset'[a].attempt \in Nat
  BY DEF TypeOK, Row

\* What is past stays past, and nobody gains a claim that is past.
LEMMA PastStays ==
  ASSUME TypeOK, TypeOK', NEW c \in ClaimOf, Moves(c.id), Past(c)
  PROVE  /\ Past(c)'
         /\ \A w \in Workers : Owns(w, c)' =>
              Owns(w, c) /\ asset'[c.id].name = asset[c.id].name
<1>1. /\ c.id \in Assets /\ c.generation \in Nat /\ c.attempt \in Nat
      /\ asset[c.id].generation \in Nat /\ asset[c.id].attempt \in Nat
      /\ asset'[c.id].generation \in Nat /\ asset'[c.id].attempt \in Nat
  BY RowsTyped DEF ClaimOf
<1>2. Past(c)'
  BY <1>1 DEF Past, Moves
<1>3. ASSUME NEW w \in Workers, Owns(w, c)'
      PROVE  Owns(w, c) /\ asset'[c.id].name = asset[c.id].name
  <2>1. /\ asset'[c.id].status = "running" /\ asset'[c.id].generation = c.generation
        /\ asset'[c.id].attempt = c.attempt /\ asset'[c.id].owner = w
    BY <1>3 DEF Owns
  <2>2. w # NoWorker
    BY TaggingAssumption
  <2>3. QED
    BY <1>1, <2>1, <2>2 DEF Owns, Past, Moves
<1>4. QED
  BY <1>2, <1>3

\* A thread or a slot that has just been given its claim, or has just read its row.
FreshThread(t) == Past(t.claim)' /\ (t.read => t.name = asset'[t.claim.id].name)

KeptThread(t) ==
  \E u \in threads : /\ u.worker = t.worker /\ u.claim = t.claim
                     /\ t.read => u.read /\ u.name = t.name

FreshSlot(w) == slot[w].at # "rescuing" /\ Past(slot[w].claim)

KeptSlot(w) ==
  /\ slot[w].at \in ClaimPoints /\ slot'[w].claim = slot[w].claim
  /\ slot'[w].at = "rescuing" =>
       \/ slot[w].at = "rescuing" /\ slot'[w].name = slot[w].name
       \/ slot'[w].name = asset'[slot'[w].claim.id].name

LEMMA ClaimsKept ==
  ASSUME TypeOK, TypeOK', ClaimsPast, ReadsPresentName,
         \A a \in Assets : Moves(a),
         \A t \in threads' : KeptThread(t) \/ FreshThread(t),
         \A w \in Workers : slot'[w].at \in ClaimPoints =>
           KeptSlot(w) \/ FreshSlot(w)'
  PROVE  ClaimsPast' /\ ReadsPresentName'
<1>1. ASSUME NEW t \in threads'
      PROVE  /\ Past(t.claim)'
             /\ t.read /\ Owns(t.worker, t.claim)' => t.name = asset'[t.claim.id].name
  <2>1. CASE KeptThread(t)
    <3>1. PICK u \in threads : /\ u.worker = t.worker /\ u.claim = t.claim
                               /\ t.read => u.read /\ u.name = t.name
      BY <2>1 DEF KeptThread
    <3>2. u.claim \in ClaimOf /\ u.worker \in Workers /\ u.claim.id \in Assets /\ Past(u.claim)
      BY Types DEF Thread, ClaimOf, ClaimsPast
    <3>3. /\ Past(u.claim)'
          /\ Owns(u.worker, u.claim)' =>
               Owns(u.worker, u.claim) /\ asset'[u.claim.id].name = asset[u.claim.id].name
      BY <3>2, PastStays
    <3>4. u.read /\ Owns(u.worker, u.claim) => u.name = asset[u.claim.id].name
      BY DEF ReadsPresentName
    <3>5. Past(t.claim)'
      BY <3>1, <3>3
    <3>6. ASSUME t.read, Owns(t.worker, t.claim)' PROVE t.name = asset'[t.claim.id].name
      BY <3>1, <3>3, <3>4, <3>6
    <3>7. QED
      BY <3>5, <3>6
  <2>2. CASE FreshThread(t)
    BY <2>2 DEF FreshThread
  <2>3. QED
    BY <2>1, <2>2
<1>2. ASSUME NEW w \in Workers, slot'[w].at \in ClaimPoints
      PROVE  /\ Past(slot[w].claim)'
             /\ slot'[w].at = "rescuing" /\ Owns(w, slot[w].claim)'
                  => slot'[w].name = asset'[slot'[w].claim.id].name
  <2> DEFINE c == slot[w].claim
  <2>1. CASE KeptSlot(w)
    <3>1. slot'[w].claim = c /\ slot[w].at \in ClaimPoints
      BY <2>1 DEF KeptSlot
    <3>2. c \in ClaimOf /\ Past(c) /\ c.id \in Assets
      BY <3>1, Types, SlotShape DEF ClaimsPast, ClaimOf
    <3>3. PICK d : d = c
      OBVIOUS
    <3>4. /\ Past(d)'
          /\ Owns(w, d)' => Owns(w, d) /\ asset'[d.id].name = asset[d.id].name
      BY <3>2, <3>3, PastStays
    <3>5. slot[w].at = "rescuing" /\ Owns(w, d) => slot[w].name = asset[d.id].name
      BY <3>3 DEF ReadsPresentName
    <3>6. Past(slot[w].claim)' /\ (Owns(w, slot[w].claim)' => Owns(w, d)')
      BY <3>1, <3>3, <3>4 DEF Past, Owns
    <3>7. QED
      BY <2>1, <3>1, <3>3, <3>4, <3>5, <3>6 DEF KeptSlot
  <2>2. CASE FreshSlot(w)'
    BY <2>2 DEF FreshSlot
  <2>3. QED
    BY <1>2, <2>1, <2>2
<1>3. ClaimsPast'
  BY <1>1, <1>2 DEF ClaimsPast
<1>4. ReadsPresentName'
  BY <1>1, <1>2 DEF ReadsPresentName, ClaimPoints
<1>5. QED
  BY <1>3, <1>4

\* A step that only writes rows.
LEMMA RowsOnly ==
  ASSUME TaggingInv, TypeOK', UNCHANGED <<slot, threads, isolated, detached>>,
         \A a \in Assets : Moves(a) /\ Consistent(a)'
  PROVE  TaggingInv'
<1>1. \A w \in Workers : Watched(w)'
  BY DEF TaggingInv, Watched
<1>2. \A t \in threads' : KeptThread(t)
  BY DEF KeptThread
<1>3. \A w \in Workers : slot'[w].at \in ClaimPoints => KeptSlot(w)
  BY DEF KeptSlot
<1>4. TypeOK /\ ClaimsPast /\ ReadsPresentName /\ (\A a \in Assets : Moves(a))
  BY DEF TaggingInv
<1>5. ClaimsPast' /\ ReadsPresentName'
  BY <1>2, <1>3, <1>4, ClaimsKept
<1>6. QED
  BY <1>1, <1>5 DEF TaggingInv

\* A step that writes no row.
LEMMA UnwrittenRows ==
  ASSUME UNCHANGED <<asset, consent>>, TaggingInv
  PROVE  \A a \in Assets : Moves(a) /\ Consistent(a)'
  BY DEF Moves, Consistent, TaggingInv

\* A step that overwrites what a person wrote was asked for by a person.
Respects(a) ==
  \A f \in Fields : asset[a].meta[f] = "manual" /\ asset'[a].meta[f] = "auto" => consent[a]

LEMMA RowsStay == ASSUME UNCHANGED asset PROVE \A a \in Assets : Respects(a)
<1>1. ASSUME NEW a \in Assets, NEW f \in Fields,
             asset[a].meta[f] = "manual", asset'[a].meta[f] = "auto"
      PROVE  FALSE
  BY <1>1
<1>2. QED
  BY <1>1 DEF Respects

\* A request or a lease writes one row.
LEMMA OneRowWritten ==
  ASSUME TaggingInv, NEW a \in Assets, NEW r \in TaskRow,
         asset' = [asset EXCEPT ![a] = r],
         UNCHANGED <<slot, threads, isolated, detached>>,
         consent' \in [Assets -> BOOLEAN], \A b \in Assets \ {a} : consent'[b] = consent[b],
         requests' \in 0..MaxRequests, outages' \in 0..MaxOutages,
         Moves(a), Consistent(a)', Respects(a)
  PROVE  TaggingInv' /\ \A b \in Assets : Respects(b)
<1>1. /\ TypeOK /\ asset \in [Assets -> TaskRow] /\ slot \in [Workers -> Slot]
      /\ threads \subseteq Thread /\ isolated \in [Workers -> SUBSET ClaimOf]
      /\ detached \subseteq Workers
  BY Types DEF TaggingInv
<1>2. TypeOK'
  BY <1>1, PrimedTypes
<1>3. ASSUME NEW b \in Assets, b # a PROVE asset'[b] = asset[b] /\ consent'[b] = consent[b]
  BY <1>1, <1>3
<1>4. ASSUME NEW b \in Assets PROVE Moves(b) /\ Consistent(b)'
  <2>1. CASE b = a
    BY <2>1
  <2>2. CASE b # a
    BY <1>3, <2>2 DEF Moves, Consistent, TaggingInv
  <2>3. QED
    BY <2>1, <2>2
<1>5. TaggingInv'
  BY <1>2, <1>4, RowsOnly
<1>6. ASSUME NEW b \in Assets PROVE Respects(b)
  <2>1. ASSUME b # a, NEW f \in Fields, asset[b].meta[f] = "manual", asset'[b].meta[f] = "auto"
        PROVE  FALSE
    BY <1>3, <2>1
  <2>2. QED
    BY <2>1 DEF Respects
<1>7. QED
  BY <1>5, <1>6

LEMMA RequestKeeps ==
  ASSUME TaggingInv, NEW a \in Assets, Request(a)
  PROVE  TaggingInv' /\ \A b \in Assets : Respects(b)
<1> USE DEF bounds
<1>1. /\ TypeOK /\ asset \in [Assets -> TaskRow] /\ asset[a] \in Row /\ asset[a] \in TaskRow
      /\ consent \in [Assets -> BOOLEAN]
      /\ requests \in 0..MaxRequests /\ outages \in 0..MaxOutages /\ MaxRequests \in Nat
      /\ asset[a].generation \in Nat /\ asset[a].generation + 1 > asset[a].generation
      /\ asset[a].name + 1 \in Nat
  BY Types, TaggingAssumption DEF TaggingInv, Row
<1>2. Consistent(a)
  BY DEF TaggingInv
<1>3. ASSUME NEW given \in SUBSET Fields, Upload(a, given)
      PROVE  TaggingInv' /\ \A b \in Assets : Respects(b)
  <2> DEFINE m == [f \in Fields |-> IF f \in given THEN "manual" ELSE "empty"]
             p == [NoTask EXCEPT !.meta = m]
             r == IF given = Fields THEN p ELSE Requested(p, "queued", "fill_missing")
  <2>1. m \in Meta /\ \A f \in Fields : m[f] # "auto"
    BY DEF Meta
  <2>2. asset' = [asset EXCEPT ![a] = r]
    BY <1>3 DEF Upload
  <2>3. asset[a].status = "absent" /\ asset[a].generation = 0 /\ asset[a].attempt = 0
    BY <1>2, <1>3 DEF Upload, Consistent
  <2> HIDE DEF m
  <2>4. /\ p \in TaskRow /\ p \in Row /\ p.meta = m /\ p.status = "idle" /\ p.mode = "none"
        /\ p.generation = 0 /\ p.attempt = 0
    BY <2>1 DEF NoTask, TaskRow, Row, Meta
  <2> HIDE DEF p
  <2>5. /\ r \in TaskRow /\ r.meta = m /\ r.mode # "replace" /\ r.status \in {"idle", "queued"}
        /\ r.generation >= 0 /\ r.generation = 0 => r.attempt = 0 /\ r.status = "idle"
    BY <2>4, RequestedTyped
  <2> HIDE DEF r
  <2>6. asset'[a] = r /\ consent' = consent
    BY <1>1, <1>3, <2>2 DEF Upload
  <2>7. r.generation \in Nat
    BY <2>5 DEF TaskRow, Row
  <2>8. Moves(a) /\ Consistent(a)' /\ Respects(a)
    BY <2>1, <2>3, <2>5, <2>6, <2>7 DEF Moves, Consistent, Respects
  <2>9. QED
    BY <1>1, <1>3, <2>2, <2>5, <2>6, <2>8, OneRowWritten DEF Upload
<1>4. ASSUME NEW renames \in BOOLEAN, NEW edited \in SUBSET Fields, NEW value \in {"manual", "empty"},
             Patch(a, renames, edited, value)
      PROVE  TaggingInv' /\ \A b \in Assets : Respects(b)
  <2> DEFINE n == IF renames THEN asset[a].name + 1 ELSE asset[a].name
             m == [f \in Fields |-> IF f \in edited THEN value ELSE asset[a].meta[f]]
             p == [asset[a] EXCEPT !.name = n, !.meta = m]
             r == IF edited # {} THEN Edited(p) ELSE Renamed(p)
  <2>1. n \in Nat /\ m \in Meta
    BY <1>1 DEF Row, Meta
  <2>2. asset' = [asset EXCEPT ![a] = r]
    BY <1>4 DEF Patch
  <2>3. \A f \in Fields : m[f] = "auto" => asset[a].meta[f] = "auto"
    OBVIOUS
  <2>4. edited = {} => \A f \in Fields : m[f] = asset[a].meta[f]
    OBVIOUS
  <2>5. ~renames => n = asset[a].name
    OBVIOUS
  <2> HIDE DEF n, m
  <2>6. /\ p \in Row /\ p.status = asset[a].status /\ p.mode = asset[a].mode
        /\ p.generation = asset[a].generation /\ p.attempt = asset[a].attempt /\ p.meta = m
    BY <1>1, <2>1 DEF Row, Meta
  <2>7. p \in TaskRow
    BY <1>1, <2>6 DEF TaskRow
  <2> HIDE DEF p
  <2>8. /\ edited # {} => r = Requested(p, "idle", "none")
        /\ edited = {} /\ Busy(p) => r = Requested(p, "queued", p.mode)
        /\ edited = {} /\ ~Busy(p) => r = p
    BY DEF Edited, Renamed
  <2>9. Busy(p) => p.mode \in {"fill_missing", "replace"}
    BY <2>7 DEF TaskRow, Row, Busy
  <2>10. /\ r \in TaskRow /\ r.meta = m
         /\ \/ /\ edited # {} /\ r.status = "idle" /\ r.mode = "none"
               /\ r.generation = asset[a].generation + 1
            \/ /\ edited = {} /\ r.status = "queued" /\ r.mode = asset[a].mode
               /\ r.generation = asset[a].generation + 1
            \/ /\ edited = {} /\ r.status = asset[a].status /\ r.mode = asset[a].mode
               /\ r.generation = asset[a].generation /\ r.attempt = asset[a].attempt
               /\ r.status # "running"
    <3>1. CASE edited # {}
      <4>1. Requested(p, "idle", "none") \in TaskRow
        BY <2>6, RequestedTyped
      <4>2. QED
        BY <2>6, <2>8, <3>1, <4>1, RequestedTyped
    <3>2. CASE edited = {} /\ Busy(p)
      BY <2>6, <2>8, <2>9, <3>2, RequestedTyped
    <3>3. CASE edited = {} /\ ~Busy(p)
      BY <2>6, <2>7, <2>8, <3>3 DEF Busy
    <3>4. QED
      BY <3>1, <3>2, <3>3
  <2> HIDE DEF r
  <2>11. asset'[a] = r /\ asset[a].status # "absent"
    BY <1>1, <1>4, <2>2 DEF Patch, Known
  <2> DEFINE ok == consent[a] /\ edited = {}
  <2>12. consent' = [consent EXCEPT ![a] = ok] /\ ok \in BOOLEAN
    BY <1>4 DEF Patch
  <2> HIDE DEF ok
  <2>13. consent'[a] = ok /\ consent' \in [Assets -> BOOLEAN]
         /\ \A b \in Assets \ {a} : consent'[b] = consent[b]
    BY <1>1, <2>12
  <2>14. Moves(a)
    BY <1>1, <2>10, <2>11 DEF Moves
  <2>15. Consistent(a)'
    BY <1>2, <2>4, <2>10, <2>11, <2>13 DEF Consistent, ok
  <2>16. Respects(a)
    <3>1. ASSUME NEW f \in Fields, asset[a].meta[f] = "manual", asset'[a].meta[f] = "auto" PROVE FALSE
      BY <2>3, <2>10, <2>11, <3>1
    <3>2. QED
      BY <3>1 DEF Respects
  <2>17. requests' \in 0..MaxRequests /\ UNCHANGED <<slot, threads, isolated, detached, outages>>
    BY <1>1, <1>4 DEF Patch
  <2>18. QED
    BY <1>1, <2>2, <2>10, <2>13, <2>14, <2>15, <2>16, <2>17, OneRowWritten
<1>5. CASE Retag(a)
  <2> DEFINE r == Requested(asset[a], "queued", "replace")
  <2>1. asset' = [asset EXCEPT ![a] = r]
    BY <1>5 DEF Retag
  <2>2. /\ r \in TaskRow /\ r.status = "queued" /\ r.mode = "replace" /\ r.meta = asset[a].meta
        /\ r.generation = asset[a].generation + 1
    BY <1>1, RequestedTyped
  <2> HIDE DEF r
  <2>3. asset'[a] = r /\ consent'[a] /\ consent' \in [Assets -> BOOLEAN]
        /\ \A b \in Assets \ {a} : consent'[b] = consent[b]
    BY <1>1, <1>5, <2>1 DEF Retag
  <2>4. Moves(a) /\ Consistent(a)'
    BY <1>1, <2>2, <2>3 DEF Moves, Consistent
  <2>5. Respects(a)
    <3>1. ASSUME NEW f \in Fields, asset[a].meta[f] = "manual", asset'[a].meta[f] = "auto" PROVE FALSE
      BY <2>2, <2>3, <3>1
    <3>2. QED
      BY <3>1 DEF Respects
  <2>6. requests' \in 0..MaxRequests /\ UNCHANGED <<slot, threads, isolated, detached, outages>>
    BY <1>1, <1>5 DEF Retag
  <2>7. QED
    BY <1>1, <2>1, <2>2, <2>3, <2>4, <2>5, <2>6, OneRowWritten
<1>6. CASE Delete(a)
  <2> DEFINE r == [asset[a] EXCEPT !.status = "deleted", !.mode = "none", !.owner = NoWorker,
                                   !.lease = "none"]
  <2>1. asset' = [asset EXCEPT ![a] = r]
    BY <1>6 DEF Delete
  <2>2. /\ r \in TaskRow /\ r.status = "deleted" /\ r.mode = "none" /\ r.meta = asset[a].meta
        /\ r.generation = asset[a].generation /\ r.attempt = asset[a].attempt
    BY <1>1 DEF TaskRow, Row
  <2> HIDE DEF r
  <2>3. asset'[a] = r /\ consent' = consent
    BY <1>1, <1>6, <2>1 DEF Delete
  <2>4. Moves(a) /\ Consistent(a)'
    BY <1>1, <2>2, <2>3 DEF Moves, Consistent
  <2>5. Respects(a)
    <3>1. ASSUME NEW f \in Fields, asset[a].meta[f] = "manual", asset'[a].meta[f] = "auto" PROVE FALSE
      BY <2>2, <2>3, <3>1
    <3>2. QED
      BY <3>1 DEF Respects
  <2>6. UNCHANGED <<slot, threads, isolated, detached, requests, outages>>
    BY <1>6 DEF Delete
  <2>7. QED
    BY <1>1, <2>1, <2>2, <2>3, <2>4, <2>5, <2>6, OneRowWritten
<1>7. QED
  BY <1>3, <1>4, <1>5, <1>6 DEF Request

\* The lease alone changes.
LEMMA LeaseKeeps ==
  ASSUME TaggingInv, NEW a \in Assets, NEW lease \in {"live", "expired"},
         asset' = [asset EXCEPT ![a].lease = lease],
         UNCHANGED <<slot, threads, isolated, detached, consent, bounds>>
  PROVE  TaggingInv' /\ \A b \in Assets : Respects(b)
<1> DEFINE r == [asset[a] EXCEPT !.lease = lease]
<1>1. /\ asset \in [Assets -> TaskRow] /\ asset[a] \in Row /\ consent \in [Assets -> BOOLEAN]
      /\ requests \in 0..MaxRequests /\ outages \in 0..MaxOutages
  BY Types DEF TaggingInv
<1>2. /\ r \in TaskRow /\ r.status = asset[a].status /\ r.mode = asset[a].mode
      /\ r.meta = asset[a].meta /\ r.name = asset[a].name /\ r.owner = asset[a].owner
      /\ r.generation = asset[a].generation /\ r.attempt = asset[a].attempt
  BY <1>1 DEF TaskRow, Row
<1>3. asset' = [asset EXCEPT ![a] = r]
  OBVIOUS
<1> HIDE DEF r
<1>4. asset'[a] = r
  BY <1>1, <1>3
<1>5. Moves(a) /\ Consistent(a)'
  BY <1>2, <1>4 DEF Moves, Consistent, TaggingInv
<1>6. Respects(a)
  <2>1. ASSUME NEW f \in Fields, asset[a].meta[f] = "manual", asset'[a].meta[f] = "auto" PROVE FALSE
    BY <1>2, <1>4, <2>1
  <2>2. QED
    BY <2>1 DEF Respects
<1>7. QED
  BY <1>1, <1>2, <1>3, <1>5, <1>6, OneRowWritten DEF bounds

-----------------------------------------------------------------------------
(* Slots and threads *)

\* A step of one slot and its threads.
StepOf(w) ==
  /\ \A v \in Workers \ {w} :
       slot'[v] = slot[v] /\ isolated'[v] = isolated[v] /\ (v \in detached' <=> v \in detached)
  /\ \A t : t.worker # w => (t \in threads' <=> t \in threads)

LEMMA OneSlotSteps ==
  ASSUME TaggingInv, TypeOK', NEW w \in Workers, StepOf(w), Watched(w)',
         \A a \in Assets : Moves(a) /\ Consistent(a)',
         \A t \in threads' : t.worker = w => KeptThread(t) \/ FreshThread(t),
         slot'[w].at \in ClaimPoints => KeptSlot(w) \/ FreshSlot(w)'
  PROVE  TaggingInv'
<1>1. ASSUME NEW v \in Workers PROVE Watched(v)'
  <2>1. CASE v = w
    BY <2>1
  <2>2. CASE v # w
    <3>1. Watched(v) /\ slot'[v] = slot[v] /\ isolated'[v] = isolated[v]
          /\ (v \in detached' <=> v \in detached)
      BY <2>2 DEF StepOf, TaggingInv
    <3>2. \A t : t.worker = v => (t \in threads' <=> t \in threads)
      BY <2>2 DEF StepOf
    <3>3. QED
      BY <3>1, <3>2 DEF Watched
  <2>3. QED
    BY <2>1, <2>2
<1>2. \A t \in threads' : KeptThread(t) \/ FreshThread(t)
  BY DEF StepOf, KeptThread
<1>3. ASSUME NEW v \in Workers, slot'[v].at \in ClaimPoints
      PROVE  KeptSlot(v) \/ FreshSlot(v)'
  BY <1>3 DEF StepOf, KeptSlot
<1>4. TypeOK /\ ClaimsPast /\ ReadsPresentName /\ (\A a \in Assets : Moves(a))
  BY DEF TaggingInv
<1>5. ClaimsPast' /\ ReadsPresentName'
  BY <1>2, <1>3, <1>4, ClaimsKept
<1>6. QED
  BY <1>1, <1>5 DEF TaggingInv

\* A slot that starts over watches nothing.
LEMMA ClearSlot ==
  ASSUME NEW w \in Workers, ~\E t \in threads' : t.worker = w,
         w \notin detached' \/ slot'[w].at \in {"idle", "other"}
  PROVE  Watched(w)'
  BY DEF Watched

LEMMA LoopTyped ==
  ASSUME TypeOK, NEW w \in Workers, NEW s \in Slot, slot' = [slot EXCEPT ![w] = s]
  PROVE  /\ slot' \in [Workers -> Slot] /\ slot'[w] = s
         /\ \A v \in Workers \ {w} : slot'[v] = slot[v]
  BY Types

\* Neither queue is served while a thread is left behind.
LEMMA AskingIsAlone ==
  ASSUME TaggingInv, NEW w \in Workers, slot[w].at \in {"idle", "other"}, ~Quarantined(w)
  PROVE  /\ w \notin detached
         /\ ~\E t \in threads : t.worker = w
  BY DEF TaggingInv, Watched, Quarantined

LEMMA LoopKeeps ==
  ASSUME TaggingInv, NEW w \in Workers,
         \/ ClaimJob(w)
         \/ \E alive \in BOOLEAN : LeaveJob(w, alive)
         \/ JobThreadEnds(w)
         \/ Completed(w)
         \/ LeaseLost(w)
         \/ Deadline(w)
         \/ Exit(w)
         \/ Crash(w)
  PROVE  TaggingInv' /\ \A a \in Assets : Respects(a)
<1> USE DEF bounds
<1>1. /\ TypeOK /\ asset \in [Assets -> TaskRow] /\ slot \in [Workers -> Slot]
      /\ threads \subseteq Thread /\ isolated \in [Workers -> SUBSET ClaimOf]
      /\ detached \subseteq Workers /\ consent \in [Assets -> BOOLEAN]
      /\ requests \in 0..MaxRequests /\ outages \in 0..MaxOutages /\ MaxOutages \in Nat
  BY Types, TaggingAssumption DEF TaggingInv
<1>2. UNCHANGED <<asset, consent, requests>>
  BY DEF ClaimJob, LeaveJob, JobThreadEnds, Completed, LeaseLost, Deadline, Exit, Crash, Restarted
<1>3. (\A a \in Assets : Moves(a) /\ Consistent(a)') /\ \A a \in Assets : Respects(a)
  BY <1>2, UnwrittenRows, RowsStay
<1>4. slot[w].prefersTagging \in BOOLEAN /\ slot[w] \in Slot /\ Watched(w)
  BY <1>1, SlotShape DEF TaggingInv
<1>5. ASSUME threads' \subseteq threads PROVE \A t \in threads' : KeptThread(t)
  BY <1>5 DEF KeptThread
<1>6. ASSUME NEW p \in {"idle", "other", "job"}, NEW b \in BOOLEAN
      PROVE  /\ [at |-> p, prefersTagging |-> b] \in Slot
             /\ [at |-> p, prefersTagging |-> b].at = p
  BY DEF Slot
<1>7. ASSUME NEW p \in {"idle", "other", "job"}, NEW b \in BOOLEAN,
             slot' = [slot EXCEPT ![w] = [at |-> p, prefersTagging |-> b]],
             UNCHANGED <<threads, detached>>, isolated' \in [Workers -> SUBSET ClaimOf],
             \A v \in Workers \ {w} : isolated'[v] = isolated[v],
             outages' \in 0..MaxOutages, Watched(w)'
      PROVE  TaggingInv'
  <2>1. /\ slot' \in [Workers -> Slot] /\ slot'[w].at = p
        /\ \A v \in Workers \ {w} : slot'[v] = slot[v]
    BY <1>1, <1>6, <1>7, LoopTyped
  <2>2. TypeOK'
    BY <1>1, <1>2, <1>7, <2>1, PrimedTypes
  <2>3. StepOf(w)
    BY <1>7, <2>1 DEF StepOf
  <2>4. slot'[w].at \notin ClaimPoints
    BY <2>1 DEF ClaimPoints
  <2>5. QED
    BY <1>3, <1>5, <1>7, <2>2, <2>3, <2>4, OneSlotSteps
<1>8. CASE ClaimJob(w)
  <2>1. slot[w].at \in {"idle", "other"} /\ ~Quarantined(w)
    BY <1>8 DEF ClaimJob, Asks
  <2>2. w \notin detached /\ ~\E t \in threads : t.worker = w
    BY <2>1, AskingIsAlone
  <2>3. UNCHANGED <<threads, detached, outages>> /\ isolated' = [isolated EXCEPT ![w] = {}]
    BY <1>8 DEF ClaimJob
  <2>4. PICK p \in {"idle", "other", "job"}, b \in BOOLEAN :
          slot' = [slot EXCEPT ![w] = [at |-> p, prefersTagging |-> b]]
    BY <1>4, <1>8 DEF ClaimJob, NothingFound, NextPreference
  <2>5. Watched(w)'
    BY <2>2, <2>3, ClearSlot
  <2>6. isolated' \in [Workers -> SUBSET ClaimOf] /\ \A v \in Workers \ {w} : isolated'[v] = isolated[v]
    BY <1>1, <2>3
  <2>7. QED
    BY <1>1, <1>3, <1>7, <2>3, <2>4, <2>5, <2>6
<1>9. ASSUME NEW alive \in BOOLEAN, LeaveJob(w, alive) PROVE TaggingInv'
  <2>1. slot[w].at = "job" /\ UNCHANGED <<threads, isolated, outages>>
    BY <1>9 DEF LeaveJob
  <2> DEFINE s == [slot[w] EXCEPT !.at = "idle"]
  <2>2. slot' = [slot EXCEPT ![w] = s]
    BY <1>9 DEF LeaveJob
  <2>3. slot[w] \in [at: {"idle", "other", "job"}, prefersTagging: BOOLEAN]
    BY <1>4, <2>1 DEF Slot
  <2>4. s \in Slot /\ s.at = "idle"
    BY <2>3 DEF Slot
  <2> HIDE DEF s
  <2>5. /\ slot' \in [Workers -> Slot] /\ slot'[w].at = "idle"
        /\ \A v \in Workers \ {w} : slot'[v] = slot[v]
    BY <1>1, <2>2, <2>4, LoopTyped
  <2>6. ~\E t \in threads : t.worker = w
    BY <1>4, <2>1 DEF Watched
  <2>7. Watched(w)'
    BY <2>1, <2>5, <2>6, ClearSlot
  <2>8. detached' \in {detached, detached \union {w}}
    BY <1>9 DEF LeaveJob
  <2>9. TypeOK'
    BY <1>1, <1>2, <2>1, <2>5, <2>8, PrimedTypes
  <2>10. StepOf(w)
    BY <2>1, <2>5, <2>8 DEF StepOf
  <2>11. slot'[w].at \notin ClaimPoints
    BY <2>5 DEF ClaimPoints
  <2>12. QED
    BY <1>3, <1>5, <2>1, <2>7, <2>9, <2>10, <2>11, OneSlotSteps
<1>10. CASE JobThreadEnds(w)
  <2>1. UNCHANGED <<slot, threads, isolated, outages>> /\ detached' = detached \ {w}
    BY <1>10 DEF JobThreadEnds
  <2>2. TypeOK'
    BY <1>1, <1>2, <2>1, PrimedTypes
  <2>3. StepOf(w) /\ Watched(w)'
    BY <1>4, <2>1 DEF StepOf, Watched
  <2>4. slot'[w].at \in ClaimPoints => KeptSlot(w)
    BY <2>1 DEF KeptSlot
  <2>5. QED
    BY <1>3, <1>5, <2>1, <2>2, <2>3, <2>4, OneSlotSteps
<1>11. CASE Completed(w)
  <2>1. /\ slot[w].at = "tagging" /\ UNCHANGED <<threads, isolated, detached, outages>>
        /\ ~\E t \in threads : t.worker = w /\ t.claim = slot[w].claim
        /\ slot' = [slot EXCEPT ![w] = [at |-> "idle", prefersTagging |-> slot[w].prefersTagging]]
    BY <1>11 DEF Completed, Leaves
  <2>2. ~\E t \in threads : t.worker = w
    BY <1>4, <2>1 DEF Watched
  <2>3. w \notin detached
    BY <1>4, <2>1 DEF Watched
  <2>4. Watched(w)'
    BY <2>1, <2>2, <2>3, ClearSlot
  <2>5. QED
    BY <1>1, <1>3, <1>4, <1>7, <2>1, <2>4
<1>12. ASSUME slot[w].at = "tagging"
       PROVE  /\ slot[w].claim \in ClaimOf /\ w \notin detached
              /\ Isolated(w, slot[w].claim) \in [Workers -> SUBSET ClaimOf]
              /\ \A v \in Workers \ {w} : Isolated(w, slot[w].claim)[v] = isolated[v]
              /\ \A t \in threads : t.worker = w => t.claim \in Isolated(w, slot[w].claim)[w]
  <2>1. slot[w].claim \in ClaimOf /\ w \notin detached
    BY <1>4, <1>12, SlotShape DEF ClaimPoints, Watched
  <2>2. \A t \in threads : t.worker = w => t.claim = slot[w].claim
    BY <1>4, <1>12 DEF Watched
  <2>3. QED
    BY <1>1, <2>1, <2>2 DEF Isolated
<1>13. CASE LeaseLost(w) \/ (Deadline(w) /\ ~Owns(w, slot[w].claim))
  <2>1. /\ slot[w].at = "tagging" /\ UNCHANGED <<threads, detached, outages>>
        /\ isolated' = Isolated(w, slot[w].claim)
        /\ slot' = [slot EXCEPT ![w] = [at |-> "idle", prefersTagging |-> slot[w].prefersTagging]]
    BY <1>13 DEF LeaseLost, Deadline, Leaves
  <2>2. slot'[w].at = "idle"
    BY <1>1, <2>1
  <2>3. Watched(w)'
    BY <1>4, <1>12, <2>1, <2>2 DEF Watched
  <2>4. QED
    BY <1>1, <1>3, <1>4, <1>7, <1>12, <2>1, <2>3
<1>14. CASE Deadline(w) /\ Owns(w, slot[w].claim)
  <2> DEFINE c == slot[w].claim
             s == [at |-> "rescuing", claim |-> c, name |-> asset[c.id].name,
                   prefersTagging |-> slot[w].prefersTagging]
  <2>1. /\ slot[w].at = "tagging" /\ UNCHANGED <<threads, detached, outages>>
        /\ isolated' = Isolated(w, c) /\ slot' = [slot EXCEPT ![w] = s]
    BY <1>14 DEF Deadline
  <2>2. c \in ClaimOf /\ asset[c.id].name \in Nat
    BY <1>1, <1>12, <2>1 DEF ClaimOf, TaskRow, Row
  <2>3. s \in Slot /\ s.at = "rescuing" /\ s.claim = c /\ s.name = asset[c.id].name
    BY <1>4, <2>2, SlotTyped
  <2> HIDE DEF s
  <2>4. /\ slot' \in [Workers -> Slot] /\ slot'[w] = s
        /\ \A v \in Workers \ {w} : slot'[v] = slot[v]
    BY <1>1, <2>1, <2>3, LoopTyped
  <2>5. TypeOK'
    BY <1>1, <1>2, <1>12, <2>1, <2>4, PrimedTypes
  <2>6. Watched(w)'
    BY <1>4, <1>12, <2>1, <2>3, <2>4 DEF Watched
  <2>7. StepOf(w)
    BY <1>12, <2>1, <2>4 DEF StepOf
  <2>8. KeptSlot(w)
    BY <1>2, <2>1, <2>3, <2>4 DEF KeptSlot, ClaimPoints
  <2>9. QED
    BY <1>3, <1>5, <2>1, <2>5, <2>6, <2>7, <2>8, OneSlotSteps
<1>15. CASE Exit(w) \/ Crash(w)
  <2>1. PICK b \in BOOLEAN : slot' = [slot EXCEPT ![w] = [at |-> "idle", prefersTagging |-> b]]
    BY <1>15 DEF Exit, Crash, Restarted
  <2>2. /\ threads' = {t \in threads : t.worker # w} /\ isolated' = [isolated EXCEPT ![w] = {}]
        /\ detached' = detached \ {w} /\ outages' \in 0..MaxOutages
    BY <1>1, <1>15 DEF Exit, Crash, Restarted
  <2>3. /\ slot' \in [Workers -> Slot] /\ slot'[w].at = "idle"
        /\ \A v \in Workers \ {w} : slot'[v] = slot[v]
    BY <1>1, <1>6, <2>1, LoopTyped
  <2>4. isolated' \in [Workers -> SUBSET ClaimOf] /\ \A v \in Workers \ {w} : isolated'[v] = isolated[v]
    BY <1>1, <2>2
  <2>5. TypeOK'
    BY <1>1, <1>2, <2>2, <2>3, <2>4, PrimedTypes
  <2>6. StepOf(w) /\ Watched(w)'
    BY <2>2, <2>3, <2>4, ClearSlot DEF StepOf
  <2>7. slot'[w].at \notin ClaimPoints
    BY <2>3 DEF ClaimPoints
  <2>8. QED
    BY <1>3, <1>5, <2>2, <2>5, <2>6, <2>7, OneSlotSteps
<1>16. CASE LeaseLost(w) \/ Deadline(w)
  <2>1. CASE LeaseLost(w)
    BY <1>13, <2>1
  <2>2. CASE Deadline(w) /\ Owns(w, slot[w].claim)
    BY <1>14, <2>2
  <2>3. CASE Deadline(w) /\ ~Owns(w, slot[w].claim)
    BY <1>13, <2>3
  <2>4. QED
    BY <1>16, <2>1, <2>2, <2>3
<1>17. TaggingInv'
  BY <1>8, <1>9, <1>10, <1>11, <1>15, <1>16
<1>18. QED
  BY <1>3, <1>17

\* An outcome written to a row keeps what a person wrote, and ends the task.
LEMMA AppliedRow ==
  ASSUME TypeOK, NEW a \in Assets, NEW status \in {"succeeded", "degraded"}, Consistent(a),
         asset'[a] = Applied(asset[a], status), UNCHANGED consent
  PROVE  Moves(a) /\ Consistent(a)' /\ Respects(a)
<1>1. asset[a] \in Row
  BY Types
<1> DEFINE q == Applied(asset[a], status)
<1>2. /\ q.status = status /\ q.mode = "none" /\ q.generation = asset[a].generation
      /\ q.attempt = asset[a].attempt
      /\ \A f \in Fields : q.meta[f] # "empty"
      /\ \A f \in Fields : asset[a].meta[f] = "manual" /\ q.meta[f] = "auto" => asset[a].mode = "replace"
  BY <1>1, AppliedTyped
<1> HIDE DEF q
<1>3. asset'[a] = q
  BY DEF q
<1>4. Moves(a)
  BY <1>2, <1>3 DEF Moves
<1>5. Consistent(a)'
  BY <1>2, <1>3 DEF Consistent
<1>6. Respects(a)
  BY <1>2, <1>3 DEF Respects, Consistent
<1>7. QED
  BY <1>4, <1>5, <1>6

LEMMA RowStays ==
  ASSUME NEW a \in Assets, Consistent(a), asset'[a] = asset[a], consent'[a] = consent[a]
  PROVE  Moves(a) /\ Consistent(a)' /\ Respects(a)
<1>1. ASSUME NEW f \in Fields, asset[a].meta[f] = "manual", asset'[a].meta[f] = "auto" PROVE FALSE
  BY <1>1
<1>2. QED
  BY <1>1 DEF Moves, Consistent, Respects

LEMMA RescueKeeps ==
  ASSUME TaggingInv, NEW w \in Workers, Rescue(w)
  PROVE  TaggingInv' /\ \A a \in Assets : Respects(a)
<1> USE DEF bounds
<1>1. /\ TypeOK /\ asset \in [Assets -> TaskRow] /\ asset \in [Assets -> Row]
      /\ slot \in [Workers -> Slot]
      /\ threads \subseteq Thread /\ isolated \in [Workers -> SUBSET ClaimOf]
      /\ detached \subseteq Workers /\ consent \in [Assets -> BOOLEAN]
      /\ requests \in 0..MaxRequests /\ outages \in 0..MaxOutages /\ MaxOutages \in Nat
  BY Types, TaggingAssumption DEF TaggingInv
<1>2. /\ slot[w].at = "rescuing" /\ slot[w].prefersTagging \in BOOLEAN
      /\ slot[w].claim \in ClaimOf /\ slot[w].claim.id \in Assets /\ Watched(w)
  BY <1>1, SlotShape DEF Rescue, ClaimPoints, TaggingInv, ClaimOf
<1>3. PICK a \in Assets : a = slot[w].claim.id
  BY <1>2
<1>4. Applied(asset[a], "degraded") \in TaskRow
  BY <1>1, AppliedTyped
<1>5. asset' \in {asset, [asset EXCEPT ![a] = Applied(asset[a], "degraded")]} /\ consent' = consent
  BY <1>3 DEF Rescue
<1>6. /\ asset' \in [Assets -> TaskRow]
      /\ asset'[a] \in {asset[a], Applied(asset[a], "degraded")}
      /\ \A b \in Assets \ {a} : asset'[b] = asset[b]
  BY <1>1, <1>4, <1>5
<1>7. ASSUME NEW b \in Assets PROVE Moves(b) /\ Consistent(b)' /\ Respects(b)
  <2>1. Consistent(b)
    BY DEF TaggingInv
  <2>2. CASE asset'[b] = asset[b]
    BY <1>5, <2>1, <2>2, RowStays
  <2>3. CASE b = a /\ asset'[a] = Applied(asset[a], "degraded")
    BY <1>1, <1>5, <2>1, <2>3, AppliedRow
  <2>4. QED
    BY <1>6, <2>2, <2>3
<1> DEFINE s == [at |-> "idle", prefersTagging |-> slot[w].prefersTagging]
<1>8. s \in Slot /\ s.at = "idle" /\ slot' = [slot EXCEPT ![w] = s]
  BY <1>2 DEF Rescue, Leaves, Slot
<1> HIDE DEF s
<1>9. /\ slot' \in [Workers -> Slot] /\ slot'[w].at = "idle"
      /\ \A v \in Workers \ {w} : slot'[v] = slot[v]
  BY <1>1, <1>8, LoopTyped
<1>10. UNCHANGED <<threads, isolated, detached, requests>> /\ outages' \in 0..MaxOutages
  BY <1>1 DEF Rescue
<1>11. TypeOK'
  BY <1>1, <1>5, <1>6, <1>9, <1>10, PrimedTypes
<1>12. Watched(w)'
  BY <1>2, <1>9, <1>10 DEF Watched
<1>13. StepOf(w) /\ slot'[w].at \notin ClaimPoints /\ \A t \in threads' : KeptThread(t)
  BY <1>9, <1>10 DEF StepOf, ClaimPoints, KeptThread
<1>14. QED
  BY <1>7, <1>11, <1>12, <1>13, OneSlotSteps

LEMMA AbandonKeeps ==
  ASSUME TaggingInv, NEW w \in Workers, Abandon(w)
  PROVE  TaggingInv' /\ \A a \in Assets : Respects(a)
<1> USE DEF bounds
<1>1. /\ TypeOK /\ asset \in [Assets -> TaskRow] /\ asset \in [Assets -> Row]
      /\ slot \in [Workers -> Slot]
      /\ threads \subseteq Thread /\ isolated \in [Workers -> SUBSET ClaimOf]
      /\ detached \subseteq Workers /\ consent \in [Assets -> BOOLEAN]
      /\ requests \in 0..MaxRequests /\ outages \in 0..MaxOutages /\ MaxOutages \in Nat
  BY Types, TaggingAssumption DEF TaggingInv
<1>2. /\ slot[w].at = "tagging" /\ slot[w] \in Slot
      /\ slot[w].claim \in ClaimOf /\ slot[w].claim.id \in Assets /\ Watched(w)
  BY <1>1, SlotShape DEF Abandon, ClaimPoints, TaggingInv, ClaimOf
<1>3. PICK a \in Assets : a = slot[w].claim.id
  BY <1>2
<1> DEFINE r == [asset[a] EXCEPT !.owner = NoWorker, !.lease = "expired"]
<1>4. /\ r \in TaskRow /\ r.status = asset[a].status /\ r.mode = asset[a].mode
      /\ r.meta = asset[a].meta /\ r.name = asset[a].name /\ r.owner = NoWorker
      /\ r.generation = asset[a].generation /\ r.attempt = asset[a].attempt
  <2>1. asset[a] \in Row /\ asset[a] \in TaskRow
    BY <1>1
  <2>2. QED
    BY <2>1 DEF TaskRow, Row
<1>5. asset' \in {asset, [asset EXCEPT ![a] = r]} /\ consent' = consent
  BY <1>3 DEF Abandon
<1> HIDE DEF r
<1>6. /\ asset' \in [Assets -> TaskRow]
      /\ asset'[a] \in {asset[a], r}
      /\ \A b \in Assets \ {a} : asset'[b] = asset[b]
  BY <1>1, <1>4, <1>5
<1>7. ASSUME NEW b \in Assets PROVE Moves(b) /\ Consistent(b)' /\ Respects(b)
  <2>1. Consistent(b)
    BY DEF TaggingInv
  <2>2. CASE asset'[b] = asset[b]
    BY <1>5, <2>1, <2>2, RowStays
  <2>3. CASE b = a /\ asset'[a] = r
    <3>1. Moves(b) /\ Consistent(b)'
      BY <1>4, <1>5, <2>1, <2>3 DEF Moves, Consistent
    <3>2. ASSUME NEW f \in Fields, asset[b].meta[f] = "manual", asset'[b].meta[f] = "auto" PROVE FALSE
      BY <1>4, <2>3, <3>2
    <3>3. QED
      BY <3>1, <3>2 DEF Respects
  <2>4. QED
    BY <1>6, <2>2, <2>3
<1> DEFINE s == [slot[w] EXCEPT !.at = "abandoned"]
<1>8. slot[w] \in [at: {"tagging", "abandoned"}, prefersTagging: BOOLEAN, claim: ClaimOf]
  BY <1>2 DEF Slot
<1>9. /\ s \in Slot /\ s.at = "abandoned" /\ s.claim = slot[w].claim
      /\ slot' = [slot EXCEPT ![w] = s]
  BY <1>8 DEF Abandon, Slot
<1> HIDE DEF s
<1>10. /\ slot' \in [Workers -> Slot] /\ slot'[w] = s
       /\ \A v \in Workers \ {w} : slot'[v] = slot[v]
  BY <1>1, <1>9, LoopTyped
<1>11. UNCHANGED <<threads, isolated, detached, requests>> /\ outages' \in 0..MaxOutages
  BY <1>1 DEF Abandon
<1>12. TypeOK'
  BY <1>1, <1>5, <1>6, <1>10, <1>11, PrimedTypes
<1>13. Watched(w)'
  BY <1>2, <1>9, <1>10, <1>11 DEF Watched
<1>14. StepOf(w) /\ KeptSlot(w) /\ \A t \in threads' : KeptThread(t)
  BY <1>2, <1>9, <1>10, <1>11 DEF StepOf, ClaimPoints, KeptThread, KeptSlot
<1>15. QED
  BY <1>7, <1>12, <1>13, <1>14, OneSlotSteps

\* A thread reads its row, or ends.
LEMMA ThreadKeeps ==
  ASSUME TaggingInv, NEW t \in threads,
         Read(t) \/ ApplyFails(t) \/ \E status \in {"succeeded", "degraded"} : Apply(t, status)
  PROVE  TaggingInv' /\ \A a \in Assets : Respects(a)
<1> USE DEF bounds
<1>1. /\ TypeOK /\ asset \in [Assets -> TaskRow] /\ asset \in [Assets -> Row]
      /\ slot \in [Workers -> Slot]
      /\ threads \subseteq Thread /\ isolated \in [Workers -> SUBSET ClaimOf]
      /\ detached \subseteq Workers /\ consent \in [Assets -> BOOLEAN]
      /\ requests \in 0..MaxRequests /\ outages \in 0..MaxOutages /\ MaxOutages \in Nat
  BY Types, TaggingAssumption DEF TaggingInv
<1>2. /\ t \in Thread /\ t.worker \in Workers /\ t.claim \in ClaimOf /\ t.claim.id \in Assets
      /\ asset[t.claim.id].name \in Nat /\ Watched(t.worker) /\ Past(t.claim)
  BY <1>1 DEF Thread, ClaimOf, TaggingInv, ClaimsPast, Row
<1>3. PICK a \in Assets : a = t.claim.id
  BY <1>2
<1>4. UNCHANGED <<slot, isolated, detached, consent, requests>> /\ outages' \in 0..MaxOutages
  BY <1>1 DEF Read, Apply, ApplyFails
<1>5. /\ asset' \in [Assets -> TaskRow]
      /\ \A b \in Assets : Moves(b) /\ Consistent(b)' /\ Respects(b)
  <2>1. CASE asset' = asset
    BY <1>1, <1>4, <2>1, RowStays DEF TaggingInv
  <2>2. CASE asset' # asset
    <3>1. PICK status \in {"succeeded", "degraded"} :
            asset' = [asset EXCEPT ![a] = Applied(asset[a], status)]
      BY <1>3, <2>2 DEF Read, Apply, ApplyFails
    <3>2. Applied(asset[a], status) \in TaskRow
      BY <1>1, AppliedTyped
    <3>3. /\ asset' \in [Assets -> TaskRow] /\ asset'[a] = Applied(asset[a], status)
          /\ \A b \in Assets \ {a} : asset'[b] = asset[b]
      BY <1>1, <3>1, <3>2
    <3>4. ASSUME NEW b \in Assets PROVE Moves(b) /\ Consistent(b)' /\ Respects(b)
      <4>1. Consistent(b)
        BY DEF TaggingInv
      <4>2. CASE b = a
        BY <1>1, <1>4, <3>3, <4>1, <4>2, AppliedRow
      <4>3. CASE b # a
        BY <1>4, <3>3, <4>1, <4>3, RowStays
      <4>4. QED
        BY <4>2, <4>3
    <3>5. QED
      BY <3>3, <3>4
  <2>3. QED
    BY <2>1, <2>2
<1> DEFINE n == asset[t.claim.id].name
           q == [t EXCEPT !.read = TRUE, !.name = n]
<1>6. q \in Thread /\ q.worker = t.worker /\ q.claim = t.claim /\ q.name = n
  BY <1>2 DEF Thread
<1>7. \/ threads' = threads \ {t}
      \/ threads' = (threads \ {t}) \union {q} /\ asset' = asset
  BY DEF Read, Apply, ApplyFails
<1> HIDE DEF q
<1>8. TypeOK'
  BY <1>1, <1>4, <1>5, <1>6, <1>7, PrimedTypes
<1>9. StepOf(t.worker)
  BY <1>4, <1>6, <1>7 DEF StepOf
<1>10. Watched(t.worker)'
  <2>1. \A u \in threads : u.worker = t.worker => u = t
    BY <1>2 DEF Watched
  <2>2. \A u \in threads' : u.worker = t.worker => u = q /\ threads' = (threads \ {t}) \union {q}
    BY <1>7, <2>1
  <2>3. t.worker \notin detached
    BY <1>2 DEF Watched
  <2>4. \A u \in threads' : u.worker = t.worker => u.claim = t.claim
    BY <1>6, <2>2
  <2>5. QED
    BY <1>2, <1>4, <2>2, <2>3, <2>4 DEF Watched
<1>11. ASSUME NEW u \in threads' PROVE KeptThread(u) \/ FreshThread(u)
  <2>1. CASE u \in threads
    BY <2>1 DEF KeptThread
  <2>2. CASE u = q /\ asset' = asset
    <3>1. Past(u.claim)'
      BY <1>2, <1>6, <2>2 DEF Past
    <3>2. u.name = asset'[u.claim.id].name
      BY <1>6, <2>2
    <3>3. QED
      BY <3>1, <3>2 DEF FreshThread
  <2>3. QED
    BY <1>7, <2>1, <2>2
<1>12. slot'[t.worker].at \in ClaimPoints => KeptSlot(t.worker)
  BY <1>4 DEF KeptSlot
<1>13. PICK w \in Workers : w = t.worker
  BY <1>2
<1>14. StepOf(w) /\ Watched(w)' /\ (slot'[w].at \in ClaimPoints => KeptSlot(w))
  BY <1>9, <1>10, <1>12, <1>13
<1>15. QED
  BY <1>5, <1>8, <1>11, <1>14, OneSlotSteps

\* A claim ends what crashed too often, and gives one row to a new thread.
LEMMA ClaimKeeps ==
  ASSUME TaggingInv, NEW w \in Workers, ClaimTagging(w)
  PROVE  TaggingInv' /\ \A a \in Assets : Respects(a)
<1> USE DEF bounds
<1>1. /\ TypeOK /\ asset \in [Assets -> TaskRow] /\ asset \in [Assets -> Row]
      /\ slot \in [Workers -> Slot]
      /\ threads \subseteq Thread /\ isolated \in [Workers -> SUBSET ClaimOf]
      /\ detached \subseteq Workers /\ consent \in [Assets -> BOOLEAN]
      /\ requests \in 0..MaxRequests /\ outages \in 0..MaxOutages /\ MaxAttempts \in Nat
  BY Types, TaggingAssumption DEF TaggingInv
<1>2. /\ slot[w].at \in {"idle", "other"} /\ ~Quarantined(w)
      /\ isolated' = [isolated EXCEPT ![w] = {}]
      /\ UNCHANGED <<detached, consent, requests, outages>>
  BY DEF ClaimTagging, Asks
<1>3. w \notin detached /\ ~\E t \in threads : t.worker = w
  BY <1>2, AskingIsAlone
<1>4. slot[w].prefersTagging \in BOOLEAN
  BY <1>1, SlotShape
<1>5. isolated' \in [Workers -> SUBSET ClaimOf] /\ \A v \in Workers \ {w} : isolated'[v] = isolated[v]
  BY <1>1, <1>2
<1> DEFINE finished == [a \in Assets |->
                          IF a \in Exhausted THEN Applied(asset[a], "degraded") ELSE asset[a]]
<1>6. ASSUME NEW a \in Assets
      PROVE  /\ finished[a] \in TaskRow
             /\ asset'[a] = finished[a] /\ consent' = consent
                  => Moves(a) /\ Consistent(a)' /\ Respects(a)
  <2>1. Consistent(a) /\ asset[a] \in TaskRow /\ asset[a] \in Row
    BY <1>1 DEF TaggingInv
  <2>2. CASE a \in Exhausted
    <3>1. finished[a] = Applied(asset[a], "degraded")
      BY <2>2
    <3>2. Applied(asset[a], "degraded") \in TaskRow
      BY <2>1, AppliedTyped
    <3>3. QED
      BY <1>1, <2>1, <3>1, <3>2, AppliedRow
  <2>3. CASE a \notin Exhausted
    BY <2>1, <2>3, RowStays
  <2>4. QED
    BY <2>2, <2>3
<1>7. finished \in [Assets -> TaskRow]
  BY <1>6
<1>8. CASE asset' = finished /\ slot' = NothingFound(w) /\ UNCHANGED threads
  <2> DEFINE s == [at |-> IF slot[w].at = "idle" THEN "other" ELSE "idle",
                   prefersTagging |-> slot[w].prefersTagging]
  <2>1. s \in Slot /\ s.at \in {"idle", "other"} /\ slot' = [slot EXCEPT ![w] = s]
    BY <1>4, <1>8 DEF NothingFound, Slot
  <2> HIDE DEF s, finished
  <2>2. /\ slot' \in [Workers -> Slot] /\ slot'[w] = s
        /\ \A v \in Workers \ {w} : slot'[v] = slot[v]
    BY <1>1, <2>1, LoopTyped
  <2>3. TypeOK'
    BY <1>1, <1>2, <1>5, <1>7, <1>8, <2>2, PrimedTypes
  <2>4. Watched(w)'
    BY <1>2, <1>3, <1>8, ClearSlot
  <2>5. StepOf(w) /\ slot'[w].at \notin ClaimPoints /\ \A t \in threads' : KeptThread(t)
    BY <1>2, <1>5, <1>8, <2>1, <2>2 DEF StepOf, ClaimPoints, KeptThread
  <2>6. \A a \in Assets : Moves(a) /\ Consistent(a)' /\ Respects(a)
    BY <1>2, <1>6, <1>8
  <2>7. QED
    BY <2>3, <2>4, <2>5, <2>6, OneSlotSteps
<1>9. ASSUME NEW a \in Claimable, NEW c,
             c = [id |-> a, generation |-> asset[a].generation, attempt |-> asset[a].attempt + 1],
             asset' = [finished EXCEPT ![a].status = "running", ![a].attempt = c.attempt,
                                       ![a].owner = w, ![a].lease = "live"],
             slot' = [slot EXCEPT ![w] = [at |-> "tagging", claim |-> c,
                        prefersTagging |-> NextPreference(w, "tagging")]],
             threads' = threads \union {[worker |-> w, claim |-> c, read |-> FALSE, name |-> 0]}
      PROVE  TaggingInv' /\ \A b \in Assets : Respects(b)
  <2>1. /\ a \in Assets /\ asset[a].attempt < MaxAttempts
        /\ asset[a].status \in {"queued", "running"} /\ asset[a] \in Row /\ asset[a] \in TaskRow
    BY <1>1 DEF Claimable, Lapsed
  <2>2. asset[a].generation \in Nat /\ asset[a].attempt \in Nat /\ asset[a].attempt + 1 \in Nat
        /\ asset[a].mode # "none"
    BY <2>1 DEF Row, TaskRow
  <2>3. finished[a] = asset[a]
    BY <1>1, <2>1, <2>2 DEF Exhausted
  <2>4. c \in ClaimOf /\ c.id = a /\ c.generation = asset[a].generation /\ c.attempt = asset[a].attempt + 1
    BY <1>9, <2>1, <2>2 DEF ClaimOf
  <2> DEFINE n == c.attempt
             r == [asset[a] EXCEPT !.status = "running", !.attempt = n, !.owner = w, !.lease = "live"]
  <2>5. asset' = [finished EXCEPT ![a] = r]
    BY <1>7, <1>9, <2>1, <2>3
  <2>6. n \in Nat
    BY <2>2, <2>4
  <2> HIDE DEF finished, n
  <2>7. /\ r \in Row /\ r.status = "running" /\ r.mode = asset[a].mode /\ r.meta = asset[a].meta
        /\ r.generation = asset[a].generation /\ r.attempt = n
    BY <2>1, <2>6 DEF Row
  <2>8. r \in TaskRow
    BY <2>2, <2>7 DEF TaskRow
  <2> HIDE DEF r
  <2>9. /\ asset' \in [Assets -> TaskRow] /\ asset'[a] = r
        /\ \A b \in Assets \ {a} : asset'[b] = finished[b]
    BY <1>7, <2>1, <2>5, <2>8
  <2>10. Moves(a) /\ Consistent(a)' /\ Respects(a)
    <3>1. Consistent(a)
      BY <2>1 DEF TaggingInv
    <3>2. Moves(a)
      BY <2>2, <2>4, <2>7, <2>9 DEF Moves, n
    <3>3. Consistent(a)'
      BY <1>2, <2>7, <2>9, <3>1 DEF Consistent
    <3>4. ASSUME NEW f \in Fields, asset[a].meta[f] = "manual", asset'[a].meta[f] = "auto" PROVE FALSE
      BY <2>7, <2>9, <3>4
    <3>5. QED
      BY <3>2, <3>3, <3>4 DEF Respects
  <2>11. \A b \in Assets : Moves(b) /\ Consistent(b)' /\ Respects(b)
    BY <1>2, <1>6, <2>9, <2>10
  <2> DEFINE b0 == NextPreference(w, "tagging")
             s == [at |-> "tagging", claim |-> c, prefersTagging |-> b0]
             t == [worker |-> w, claim |-> c, read |-> FALSE, name |-> 0]
  <2>12. b0 \in BOOLEAN
    BY DEF NextPreference
  <2> HIDE DEF b0
  <2>13. s \in Slot /\ s.at = "tagging" /\ s.claim = c
    BY <2>4, <2>12 DEF Slot
  <2>14. t \in Thread /\ t.worker = w /\ t.claim = c /\ t.read = FALSE
    BY <2>4 DEF Thread
  <2>15. slot' = [slot EXCEPT ![w] = s] /\ threads' = threads \union {t}
    BY <1>9 DEF b0
  <2> HIDE DEF s, t
  <2>16. /\ slot' \in [Workers -> Slot] /\ slot'[w] = s
         /\ \A v \in Workers \ {w} : slot'[v] = slot[v]
    BY <1>1, <2>13, <2>15, LoopTyped
  <2>17. TypeOK'
    BY <1>1, <1>2, <1>5, <2>9, <2>14, <2>15, <2>16, PrimedTypes
  <2>18. Watched(w)'
    BY <1>2, <1>3, <2>13, <2>14, <2>15, <2>16 DEF Watched
  <2>19. StepOf(w)
    BY <1>2, <1>5, <2>14, <2>15, <2>16 DEF StepOf
  <2>20. Past(c)'
    BY <2>2, <2>4, <2>7, <2>9 DEF Past, n
  <2>21. FreshSlot(w)'
    BY <2>13, <2>16, <2>20 DEF FreshSlot
  <2>22. \A u \in threads' : u.worker = w => FreshThread(u)
    BY <1>3, <2>14, <2>15, <2>20 DEF FreshThread
  <2>23. QED
    BY <2>11, <2>17, <2>18, <2>19, <2>21, <2>22, OneSlotSteps
<1>10. \/ asset' = finished /\ slot' = NothingFound(w) /\ UNCHANGED threads
       \/ \E a \in Claimable : \E c :
            /\ c = [id |-> a, generation |-> asset[a].generation, attempt |-> asset[a].attempt + 1]
            /\ asset' = [finished EXCEPT ![a].status = "running", ![a].attempt = c.attempt,
                                         ![a].owner = w, ![a].lease = "live"]
            /\ slot' = [slot EXCEPT ![w] = [at |-> "tagging", claim |-> c,
                          prefersTagging |-> NextPreference(w, "tagging")]]
            /\ threads' = threads \union {[worker |-> w, claim |-> c, read |-> FALSE, name |-> 0]}
  BY DEF ClaimTagging
<1>11. QED
  BY <1>8, <1>9, <1>10

LEMMA TaggingStep ==
  ASSUME TaggingInv, [Next]_vars
  PROVE  TaggingInv' /\ \A a \in Assets : Respects(a)
<1>1. CASE UNCHANGED vars
  <2>1. UNCHANGED <<asset, slot, threads, isolated, detached, consent, requests, outages>>
    BY <1>1 DEF vars
  <2>2. TypeOK'
    BY <2>1 DEF TaggingInv, TypeOK
  <2>3. QED
    BY <2>1, <2>2, UnwrittenRows, RowsStay, RowsOnly
<1>2. ASSUME NEW a \in Assets, Request(a) PROVE TaggingInv' /\ \A b \in Assets : Respects(b)
  BY <1>2, RequestKeeps
<1>3. ASSUME NEW a \in Assets, LeaseExpires(a)
      PROVE  TaggingInv' /\ \A b \in Assets : Respects(b)
  BY <1>3, LeaseKeeps DEF LeaseExpires
<1>4. ASSUME NEW w \in Workers, RenewLease(w)
      PROVE  TaggingInv' /\ \A b \in Assets : Respects(b)
  <2>1. slot[w].claim.id \in Assets
    BY <1>4, Types, SlotShape DEF RenewLease, TaggingInv, ClaimPoints, ClaimOf
  <2>2. PICK a \in Assets : a = slot[w].claim.id
    BY <2>1
  <2>3. asset' = [asset EXCEPT ![a].lease = "live"]
        /\ UNCHANGED <<slot, threads, isolated, detached, consent, bounds>>
    BY <1>4, <2>2 DEF RenewLease
  <2>4. QED
    BY <2>3, LeaseKeeps
<1>5. ASSUME NEW w \in Workers,
             \/ RunOnce(w) \/ Deadline(w) \/ Abandon(w)
             \/ JobThreadEnds(w) \/ Crash(w)
      PROVE  TaggingInv' /\ \A b \in Assets : Respects(b)
  BY <1>5, LoopKeeps, ClaimKeeps, RescueKeeps, AbandonKeeps DEF RunOnce
<1>6. ASSUME NEW w \in Workers, ThreadStep(w)
      PROVE  TaggingInv' /\ \A b \in Assets : Respects(b)
  BY <1>6, ThreadKeeps DEF ThreadStep
<1>7. ASSUME NEW t \in threads, ApplyFails(t)
      PROVE  TaggingInv' /\ \A b \in Assets : Respects(b)
  BY <1>7, ThreadKeeps
<1>8. QED
  BY <1>1, <1>2, <1>3, <1>4, <1>5, <1>6, <1>7 DEF Next

LEMMA TaggingInit == ASSUME Init PROVE TaggingInv
<1> DEFINE m == [f \in Fields |-> "empty"]
           r == [status |-> "absent", mode |-> "none", generation |-> 0, attempt |-> 0,
                 owner |-> NoWorker, lease |-> "none", name |-> 0, meta |-> m]
<1>1. m \in Meta
  BY DEF Meta
<1>2. asset = [a \in Assets |-> r]
  BY DEF Init, NoTask
<1> HIDE DEF m
<1>3. /\ r \in Row /\ r.status = "absent" /\ r.mode = "none" /\ r.generation = 0 /\ r.attempt = 0
  BY <1>1 DEF Row, Meta
<1> HIDE DEF r
<1>4. /\ asset \in [Assets -> Row]
      /\ \A a \in Assets : asset[a].mode # "none" <=> asset[a].status \in {"queued", "running"}
  BY <1>2, <1>3
<1>5. [at: {"idle"}, prefersTagging: BOOLEAN] \subseteq Slot
  BY DEF Slot
<1>6. slot \in [Workers -> Slot] /\ \A w \in Workers : slot[w].at = "idle"
  BY <1>5 DEF Init
<1>7. TypeOK
  BY <1>4, <1>6, TaggingAssumption DEF Init, TypeOK
<1>8. \A w \in Workers : Watched(w)
  BY <1>6 DEF Init, Watched
<1>9. ClaimsPast /\ ReadsPresentName
  BY <1>6 DEF Init, ClaimsPast, ReadsPresentName, ClaimPoints
<1>10. \A a \in Assets : Consistent(a)
  BY <1>2, <1>3 DEF Consistent
<1>11. QED
  BY <1>7, <1>8, <1>9, <1>10 DEF TaggingInv

LEMMA TaggingInvariant == Spec => []TaggingInv
<1>1. TaggingInv /\ [Next]_vars => TaggingInv'
  BY TaggingStep
<1>2. QED
  BY <1>1, TaggingInit, PTL DEF Spec

\* Rows, slots and threads keep their types.
THEOREM TypeCorrect == Spec => []TypeOK
<1>1. TaggingInv => TypeOK
  BY DEF TaggingInv
<1>2. QED
  BY <1>1, TaggingInvariant, PTL

\* A task that ended, by whatever way, has left tags and keywords.
THEOREM TagsComplete == Spec => []TaggedCompletely
<1>1. TaggingInv => TaggedCompletely
  BY DEF TaggingInv, Consistent, TaggedCompletely
<1>2. QED
  BY <1>1, TaggingInvariant, PTL

\* Whoever can still write knows the asset's present name.
THEOREM NamesPresent == Spec => []ReadsPresentName
<1>1. TaggingInv => ReadsPresentName
  BY DEF TaggingInv
<1>2. QED
  BY <1>1, TaggingInvariant, PTL

\* However often a task was recovered, one of its live threads can still write.
THEOREM WritersUnique == Spec => []OneWriter
<1>1. TaggingInv => OneWriter
  <2>1. ASSUME TaggingInv, NEW t \in threads, NEW u \in threads,
               Owns(t.worker, t.claim), Owns(u.worker, u.claim), t.claim.id = u.claim.id
        PROVE  t = u
    <3>1. t.worker = u.worker /\ t.worker \in Workers
      BY <2>1, Types DEF Owns, TaggingInv, Thread
    <3>2. QED
      BY <2>1, <3>1 DEF TaggingInv, Watched
  <2>2. QED
    BY <2>1 DEF OneWriter
<1>2. QED
  BY <1>1, TaggingInvariant, PTL

\* A slot never runs two things, whatever it had to leave behind.
THEOREM SlotsRunOneThing == Spec => []OneExecutionPerSlot
<1>1. TaggingInv => OneExecutionPerSlot
  <2> SUFFICES ASSUME TaggingInv, NEW w \in Workers
               PROVE  LET own == {t \in threads : t.worker = w}
                      IN  /\ Cardinality(own) <= 1
                          /\ slot[w].at = "job" => own = {} /\ w \notin detached
                          /\ own # {} => w \notin detached
    BY DEF OneExecutionPerSlot
  <2> DEFINE own == {t \in threads : t.worker = w}
  <2>1. Watched(w)
    BY DEF TaggingInv
  <2>2. own = {} \/ \E t : own = {t}
    BY <2>1 DEF Watched
  <2>3. Cardinality(own) <= 1
    <3> HIDE DEF own
    <3>1. CASE own = {}
      BY <3>1, FS_EmptySet
    <3>2. ASSUME NEW t, own = {t} PROVE Cardinality(own) <= 1
      BY <3>2, FS_Singleton
    <3>3. QED
      BY <2>2, <3>1, <3>2
  <2>4. slot[w].at = "job" => own = {} /\ w \notin detached
    BY <2>1 DEF Watched
  <2>5. own # {} => w \notin detached
    BY <2>1 DEF Watched
  <2>6. QED
    BY <2>3, <2>4, <2>5
<1>2. QED
  BY <1>1, TaggingInvariant, PTL

\* What a person wrote is overwritten only after a person asked for it.
THEOREM PeopleWin == Spec => ManualTagsKept
<1>1. TaggingInv /\ [Next]_vars =>
        [\A a \in Assets, f \in Fields :
           asset[a].meta[f] = "manual" /\ asset'[a].meta[f] = "auto" => consent[a]]_vars
  BY TaggingStep DEF Respects
<1>2. QED
  BY <1>1, TaggingInvariant, PTL DEF Spec, ManualTagsKept
=============================================================================
