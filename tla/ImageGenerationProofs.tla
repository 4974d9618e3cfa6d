------------------------ MODULE ImageGenerationProofs ------------------------
(***************************************************************************)
(* Proofs about ImageGeneration for any number of generations and workers, *)
(* and any limits of attempts, crashes and unreadable results.             *)
(*                                                                         *)
(* The argument is about execution_generation: an execution that has not   *)
(* written its outcome yet carries a number that is at most its row's,     *)
(* that no other execution of the row carries, and that equals the row's   *)
(* only while the row is running under the lease of its worker             *)
(* (ExecutionsFenced, ExecutionsDiffer).  So the one draft a row can refer *)
(* to is the file of its last execution, and nobody else removes it.       *)
(***************************************************************************)
EXTENDS ImageGeneration, FiniteSetTheorems, TLAPS

\* Executions that have neither published nor been refused yet.
OpenPoints == {"claimed", "unsent", "confirmed", "submitted", "calling", "answered",
               "staged", "drafted", "failing"}
Open(w) == work[w].at \in OpenPoints

ExecutionsFenced ==
  \A w \in Workers : Open(w) =>
    LET r == row[work[w].id]
    IN  /\ work[w].generation \in 1..r.generation
        /\ work[w].generation = r.generation => r.status = "running" /\ r.owner = w

ExecutionsDiffer ==
  \A v, w \in Workers :
    Open(v) /\ Open(w) /\ v # w /\ work[v].id = work[w].id
      => work[v].generation # work[w].generation

\* A draft file is there from the moment its execution has written it.
WrittenDrafts ==
  /\ \A w \in Workers : work[w].at = "drafted" => work[w].generation \in drafts[work[w].id]
  /\ \A g \in Generations : NoDraft \notin drafts[g]

\* A row refers to the draft of its last execution, until it is imported or discarded.
DraftsReferred ==
  \A g \in Generations : row[g].draft # NoDraft =>
    row[g].status = "succeeded" /\ row[g].draft = row[g].generation /\ row[g].draft \in drafts[g]

\* What was imported or discarded refers to no draft and is not pending.
OutcomesFinal ==
  \A g \in Generations :
    /\ row[g].discarded => row[g].draft = NoDraft /\ g \notin Pending /\ ~row[g].asset
    /\ imports[g] <= 1
    /\ imports[g] > 0 => row[g].draft = NoDraft /\ row[g].status \in {"succeeded", "deleted"}
    /\ row[g].status = "absent" =>
         row[g].generation = 0 /\ ~row[g].asset /\ ~row[g].discarded

DraftInv ==
  TypeOK /\ ExecutionsFenced /\ ExecutionsDiffer /\ WrittenDrafts /\ DraftsReferred /\ OutcomesFinal

-----------------------------------------------------------------------------
(* The shape of what a worker does *)

AttemptPoints == {"claimed", "unsent", "confirmed", "submitted", "calling", "answered", "staged",
                  "drafted", "published", "fenced"}
Attempt == [at: AttemptPoints, id: Generations, generation: Nat, reuse: BOOLEAN]
FailingAttempt == [at: {"failing"}, id: Generations, generation: Nat, failure: Failures]

Work == {Idle} \union Execution \union Import \union Cleaning

LEMMA WorkShape ==
  ASSUME NEW e \in Work
  PROVE  /\ e.at \in AttemptPoints => e \in Attempt
         /\ e.at = "failing" => e \in FailingAttempt
         /\ e.at = "importing" => e = [at |-> "importing", id |-> e.id] /\ e.id \in Generations
         /\ e.at = "cleanStaging" => e.doomed \in SUBSET Generations
         /\ e.at = "idle" => e = Idle
  BY DEF Work, Execution, Import, Cleaning, Idle, Attempt, AttemptPoints, FailingAttempt

LEMMA WorkTyped ==
  /\ Idle \in Work
  /\ Attempt \subseteq Work
  /\ FailingAttempt \subseteq Work
  /\ \A g \in Generations : [at |-> "importing", id |-> g] \in Work
  /\ [at |-> "findStaging"] \in Work /\ [at |-> "cleanOutput"] \in Work
  /\ \A doomed \in SUBSET Generations : [at |-> "cleanStaging", doomed |-> doomed] \in Work
  BY DEF Work, Execution, Import, Cleaning, Idle, Attempt, AttemptPoints, FailingAttempt

\* A worker's step along one execution keeps the execution's claim.
LEMMA MovedTyped ==
  ASSUME work \in [Workers -> Work], NEW w \in Workers, work[w].at \in AttemptPoints,
         NEW point \in AttemptPoints
  PROVE  /\ Moved(w, point) \in [Workers -> Work]
         /\ \A v \in Workers : v # w => Moved(w, point)[v] = work[v]
         /\ Moved(w, point)[w].at = point
         /\ Moved(w, point)[w].id = work[w].id
         /\ Moved(w, point)[w].generation = work[w].generation
<1>1. work[w] \in Attempt
  BY WorkShape
<1> DEFINE e == [work[w] EXCEPT !.at = point]
<1>2. e \in Attempt /\ e.at = point /\ e.id = work[w].id /\ e.generation = work[w].generation
  BY <1>1 DEF Attempt
<1>3. e \in Work
  BY <1>2, WorkTyped
<1>4. Moved(w, point) = [work EXCEPT ![w] = e]
  BY DEF Moved
<1> HIDE DEF e
<1>5. QED
  BY <1>2, <1>3, <1>4

LEMMA FailingTyped ==
  ASSUME work \in [Workers -> Work], NEW w \in Workers, work[w].at \in AttemptPoints,
         NEW failure \in Failures
  PROVE  /\ Failing(w, failure) \in [Workers -> Work]
         /\ \A v \in Workers : v # w => Failing(w, failure)[v] = work[v]
         /\ Failing(w, failure)[w].at = "failing"
         /\ Failing(w, failure)[w].id = work[w].id
         /\ Failing(w, failure)[w].generation = work[w].generation
<1>1. work[w] \in Attempt
  BY WorkShape
<1> DEFINE e == [at |-> "failing", id |-> work[w].id,
                 generation |-> work[w].generation, failure |-> failure]
<1>2. e \in Work
  BY <1>1, WorkTyped DEF Attempt, FailingAttempt
<1>3. Failing(w, failure) = [work EXCEPT ![w] = e]
  BY DEF Failing
<1>4. e.at = "failing" /\ e.id = work[w].id /\ e.generation = work[w].generation
  OBVIOUS
<1> HIDE DEF e
<1>5. QED
  BY <1>2, <1>3, <1>4

-----------------------------------------------------------------------------
(* The types *)

\* Rows whose lease has an owner exactly when there is one.
LeasedRow == {r \in Row : r.owner = NoWorker <=> r.lease = "none"}

LEMMA NewRowTyped ==
  ASSUME NEW auto \in BOOLEAN
  PROVE  NewRow(auto) \in LeasedRow /\ [NewRow(auto) EXCEPT !.status = "absent"] \in LeasedRow
  BY ImageAssumption DEF NewRow, LeasedRow, Row, NoDraft

LEMMA UnleasedTyped ==
  ASSUME NEW r, r \in LeasedRow
  PROVE  /\ Unleased(r) \in LeasedRow
         /\ Unleased(r).owner = NoWorker /\ Unleased(r).lease = "none"
<1>1. r \in Row
  BY DEF LeasedRow
<1>2. Unleased(r) \in Row
  BY <1>1 DEF Unleased, Row
<1>3. Unleased(r).owner = NoWorker /\ Unleased(r).lease = "none"
  BY <1>1 DEF Unleased, Row
<1>4. QED
  BY <1>2, <1>3 DEF LeasedRow

\* Changes that do not touch the lease.
LEMMA LeaseUntouched ==
  ASSUME NEW r, r \in LeasedRow, NEW q, q \in Row, q.owner = r.owner, q.lease = r.lease
  PROVE  q \in LeasedRow
  BY DEF LeasedRow

LEMMA DecidedTyped ==
  ASSUME NEW r, r \in LeasedRow
  PROVE  /\ Canceled(r) \in LeasedRow
         /\ Refused(r) \in LeasedRow
         /\ \A retryable, ambiguous \in BOOLEAN : Failed(r, retryable, ambiguous) \in LeasedRow
<1>1. Unleased(r) \in LeasedRow /\ Unleased(r) \in Row /\ r \in Row
  BY UnleasedTyped DEF LeasedRow
<1>2. Canceled(r) \in Row /\ Canceled(r).owner = Unleased(r).owner
      /\ Canceled(r).lease = Unleased(r).lease
  <2> DEFINE n == r.generation + 1
  <2>1. n \in Nat
    BY <1>1 DEF Row
  <2>2. Canceled(r) =
          [Unleased(r) EXCEPT !.status = "canceled", !.retryable = FALSE, !.generation = n]
    BY DEF Canceled
  <2> HIDE DEF n
  <2>3. QED
    BY <1>1, <2>1, <2>2 DEF Row
<1>3. Refused(r) \in Row /\ Refused(r).owner = Unleased(r).owner
      /\ Refused(r).lease = Unleased(r).lease
  <2> DEFINE b == r.attempt < HardMaxAttempts
             n == IF r.status = "running" THEN r.generation + 1 ELSE r.generation
  <2>1. b \in BOOLEAN /\ n \in Nat
    BY <1>1 DEF Row
  <2>2. Refused(r) = [Unleased(r) EXCEPT !.status = "failed", !.retryable = b, !.generation = n]
    BY DEF Refused
  <2> HIDE DEF b, n
  <2>3. QED
    BY <1>1, <2>1, <2>2 DEF Row
<1>4. ASSUME NEW retryable \in BOOLEAN, NEW ambiguous \in BOOLEAN
      PROVE  /\ Failed(r, retryable, ambiguous) \in Row
             /\ Failed(r, retryable, ambiguous).owner = Unleased(r).owner
             /\ Failed(r, retryable, ambiguous).lease = Unleased(r).lease
  <2> DEFINE b == (retryable \/ ambiguous) /\ r.attempt < HardMaxAttempts
  <2>1. b \in BOOLEAN
    OBVIOUS
  <2>2. \/ Failed(r, retryable, ambiguous)
             = [Unleased(r) EXCEPT !.status = "queued", !.retryable = TRUE]
        \/ Failed(r, retryable, ambiguous)
             = [Unleased(r) EXCEPT !.status = "failed", !.retryable = b]
    BY DEF Failed
  <2> HIDE DEF b
  <2>3. QED
    BY <1>1, <2>1, <2>2 DEF Row
<1>5. QED
  BY <1>1, <1>2, <1>3, <1>4, LeaseUntouched

LEMMA TakenTyped ==
  ASSUME row \in [Generations -> LeasedRow], NEW w \in Workers, NEW g \in Generations, NEW loaded
  PROVE  Taken(w, g, loaded) \in LeasedRow
<1> DEFINE a == row[g].attempt + Spent(g, loaded)
           n == row[g].generation + 1
<1>1. row[g] \in Row /\ a \in Nat /\ n \in Nat
  BY DEF Spent, LeasedRow, Row
<1>2. Taken(w, g, loaded) =
        [row[g] EXCEPT !.status = "running", !.attempt = a, !.generation = n,
                       !.owner = w, !.lease = "live", !.retryable = FALSE]
  BY DEF Taken
<1> HIDE DEF a, n
<1>3. /\ Taken(w, g, loaded) \in Row
      /\ Taken(w, g, loaded).owner = w
      /\ Taken(w, g, loaded).lease = "live"
  BY <1>1, <1>2 DEF Row
<1>4. QED
  BY <1>3, ImageAssumption DEF LeasedRow

\* The rows that requests and outcomes write, from a row of the right type.
LEMMA ChangedTyped ==
  ASSUME NEW r, r \in LeasedRow, NEW n \in Nat
  PROVE  /\ [r EXCEPT !.status = "queued", !.max = n] \in LeasedRow
         /\ [r EXCEPT !.discarded = TRUE, !.draft = NoDraft] \in LeasedRow
         /\ [r EXCEPT !.asset = TRUE, !.draft = NoDraft] \in LeasedRow
         /\ [r EXCEPT !.asset = FALSE] \in LeasedRow
         /\ [r EXCEPT !.status = "deleted", !.generation = n, !.draft = NoDraft,
                      !.asset = FALSE] \in LeasedRow
         /\ [r EXCEPT !.status = "succeeded", !.retryable = FALSE, !.draft = n,
                      !.expired = FALSE] \in LeasedRow
         /\ [r EXCEPT !.expired = TRUE] \in LeasedRow
  BY DEF LeasedRow, Row, NoDraft

LEMMA LeaseTyped ==
  ASSUME NEW r, r \in LeasedRow, NEW w \in Workers
  PROVE  /\ [r EXCEPT !.owner = w, !.lease = "live"] \in LeasedRow
         /\ r.owner = w => [r EXCEPT !.lease = "live"] \in LeasedRow
         /\ r.lease = "live" => [r EXCEPT !.lease = "expired"] \in LeasedRow
  BY ImageAssumption DEF LeasedRow, Row

Files == [submitted: SUBSET Nat, ready: SUBSET Nat]

\* TypeOK, taken apart by variable.
LEMMA Types ==
  ASSUME TypeOK
  PROVE  /\ row \in [Generations -> LeasedRow]
         /\ staging \in [Generations -> Files]
         /\ drafts \in [Generations -> SUBSET Nat]
         /\ work \in [Workers -> Work]
         /\ calls \in [Generations -> Nat]
         /\ owed \in [Generations -> BOOLEAN]
         /\ imports \in [Generations -> Nat]
         /\ crashes \in 0..MaxCrashes
         /\ readFaults \in 0..MaxReadFaults
<1>1. \A g \in Generations : row[g] \in LeasedRow
  BY DEF TypeOK, LeasedRow
<1>2. row \in [Generations -> Row]
  BY DEF TypeOK
<1>3. row \in [Generations -> LeasedRow]
  BY <1>1, <1>2
<1>4. QED
  BY <1>3 DEF TypeOK, Work, Files

LEMMA PrimedTypes ==
  ASSUME row' \in [Generations -> LeasedRow], staging' \in [Generations -> Files],
         drafts' \in [Generations -> SUBSET Nat], work' \in [Workers -> Work],
         calls' \in [Generations -> Nat], owed' \in [Generations -> BOOLEAN],
         imports' \in [Generations -> Nat], crashes' \in 0..MaxCrashes,
         readFaults' \in 0..MaxReadFaults
  PROVE  TypeOK'
<1>1. /\ row' \in [Generations -> Row]
      /\ \A g \in Generations : row'[g].owner = NoWorker <=> row'[g].lease = "none"
  BY DEF LeasedRow
<1>2. QED
  BY <1>1 DEF TypeOK, Work, Files

\* Deletions of files keep the types.
LEMMA RemovalTyped ==
  ASSUME TypeOK, NEW g \in Generations
  PROVE  /\ NoFiles \in Files
         /\ StagingRemoved(g) => staging' \in [Generations -> Files]
         /\ DraftRemoved(g) => drafts' \in [Generations -> SUBSET Nat]
  BY Types DEF StagingRemoved, DraftRemoved, NoFiles, Files

LEMMA RequestTyped ==
  ASSUME TypeOK, NEW g \in Generations, Request(g)
  PROVE  TypeOK'
<1> USE Types, PrimedTypes, RemovalTyped DEF history, bounds
<1> DEFINE u == Unleased(row[g])
<1>0. /\ row[g] \in LeasedRow /\ u \in LeasedRow
      /\ row[g].max \in Nat /\ row[g].attempt + 1 \in Nat /\ row[g].generation + 1 \in Nat
  BY UnleasedTyped DEF LeasedRow, Row
<1>1. ASSUME NEW auto \in BOOLEAN, Create(g, auto) PROVE TypeOK'
  BY <1>1, NewRowTyped DEF Create
<1>2. CASE Retry(g)
  <2> DEFINE limit == IF row[g].max > row[g].attempt + 1 THEN row[g].max ELSE row[g].attempt + 1
             n == IF limit < HardMaxAttempts THEN limit ELSE HardMaxAttempts
  <2>1. n \in Nat
    BY <1>0, ImageAssumption
  <2>2. row' = [row EXCEPT ![g] = [u EXCEPT !.status = "queued", !.max = n]]
    BY <1>2 DEF Retry
  <2> HIDE DEF n, u
  <2>3. [u EXCEPT !.status = "queued", !.max = n] \in LeasedRow
    BY <1>0, <2>1, ChangedTyped
  <2>4. QED
    BY <1>2, <2>2, <2>3 DEF Retry
<1>3. CASE Cancel(g)
  BY <1>3, <1>0, DecidedTyped DEF Cancel
<1>4. CASE Discard(g)
  <2> DEFINE r == IF g \in Pending THEN Canceled(row[g]) ELSE row[g]
  <2>1. r \in LeasedRow
    BY <1>0, DecidedTyped
  <2>2. row' = [row EXCEPT ![g] = [r EXCEPT !.discarded = TRUE, !.draft = NoDraft]]
    BY <1>4 DEF Discard
  <2> HIDE DEF r
  <2>3. [r EXCEPT !.discarded = TRUE, !.draft = NoDraft] \in LeasedRow
    BY <2>1, ChangedTyped
  <2>4. QED
    BY <1>4, <2>2, <2>3 DEF Discard
<1>5. CASE Accept(g)
  <2>1. row' = [row EXCEPT ![g] = [u EXCEPT !.asset = TRUE, !.draft = NoDraft]]
    BY <1>5 DEF Accept, Imported
  <2> HIDE DEF u
  <2>2. [u EXCEPT !.asset = TRUE, !.draft = NoDraft] \in LeasedRow
    BY <1>0, ChangedTyped
  <2>3. QED
    BY <1>5, <2>1, <2>2 DEF Accept, Imported
<1>6. CASE DeleteAsset(g)
  <2>1. [row[g] EXCEPT !.asset = FALSE] \in LeasedRow
    BY <1>0, ChangedTyped
  <2>2. QED
    BY <1>6, <2>1 DEF DeleteAsset
<1>7. CASE DeleteProject(g)
  <2> DEFINE n == row[g].generation + 1
             r == [u EXCEPT !.status = "deleted", !.generation = n, !.draft = NoDraft,
                            !.asset = FALSE]
  <2>1. row' = [row EXCEPT ![g] = r]
    BY <1>7 DEF DeleteProject
  <2>2. n \in Nat
    BY <1>0
  <2> HIDE DEF u, n
  <2>3. r \in LeasedRow
    BY <1>0, <2>2, ChangedTyped
  <2> HIDE DEF r
  <2>4. QED
    BY <1>7, <2>1, <2>3 DEF DeleteProject
<1>8. QED
  BY <1>1, <1>2, <1>3, <1>4, <1>5, <1>6, <1>7 DEF Request

LEMMA ExecuteTyped ==
  ASSUME TypeOK, NEW w \in Workers, Execute(w)
  PROVE  TypeOK'
<1> USE Types, PrimedTypes DEF history, bounds
<1> DEFINE g == work[w].id
           n == work[w].generation
           u == Unleased(row[g])
<1>1. ASSUME work[w].at \in AttemptPoints \union {"failing"}
      PROVE  /\ g \in Generations /\ n \in Nat
             /\ row[g] \in LeasedRow /\ u \in LeasedRow
             /\ staging[g].submitted \in SUBSET Nat /\ staging[g].ready \in SUBSET Nat
  BY <1>1, WorkShape, UnleasedTyped DEF Attempt, FailingAttempt, Files
<1>2. Idle \in Work /\ [work EXCEPT ![w] = Idle] \in [Workers -> Work]
  BY WorkTyped
<1>3. ASSUME NEW bad \in BOOLEAN, FindResult(w, bad) PROVE TypeOK'
  <2>1. work[w].at \in AttemptPoints /\ "staged" \in AttemptPoints /\ "unsent" \in AttemptPoints
        /\ "ambiguous" \in Failures
    BY <1>3 DEF FindResult, AttemptPoints, Failures
  <2>2. work' \in [Workers -> Work]
    BY <1>2, <1>3, <2>1, MovedTyped, FailingTyped DEF FindResult
  <2>3. readFaults' \in 0..MaxReadFaults
    BY <1>3, ImageAssumption DEF FindResult
  <2>4. QED
    BY <1>3, <2>2, <2>3 DEF FindResult
<1>4. CASE ConfirmOwnership(w)
  <2>1. work[w].at \in AttemptPoints /\ "confirmed" \in AttemptPoints
    BY <1>4 DEF ConfirmOwnership, AttemptPoints
  <2>2. work' \in [Workers -> Work]
    BY <1>2, <1>4, <2>1, MovedTyped DEF ConfirmOwnership
  <2>3. ASSUME Owns(w) PROVE [row[g] EXCEPT !.lease = "live"] \in LeasedRow
    BY <1>1, <2>1, <2>3, LeaseTyped DEF Owns
  <2>4. row' \in [Generations -> LeasedRow]
    BY <1>1, <1>4, <2>1, <2>3 DEF ConfirmOwnership
  <2>5. QED
    BY <1>4, <2>2, <2>4 DEF ConfirmOwnership
<1>5. CASE WriteMarker(w)
  <2>1. work[w].at \in AttemptPoints /\ "submitted" \in AttemptPoints
    BY <1>5 DEF WriteMarker, AttemptPoints
  <2>2. [staging[g] EXCEPT !.submitted = @ \union {n}] \in Files
    BY <1>1, <2>1 DEF Files
  <2>3. staging' \in [Generations -> Files]
    BY <1>1, <1>5, <2>1, <2>2 DEF WriteMarker
  <2>4. QED
    BY <1>5, <2>1, <2>3, MovedTyped DEF WriteMarker
<1>6. CASE Send(w)
  <2>1. work[w].at \in AttemptPoints /\ "calling" \in AttemptPoints
    BY <1>6 DEF Send, AttemptPoints
  <2>2. QED
    BY <1>1, <1>6, <2>1, MovedTyped DEF Send
<1>7. CASE AnswerImage(w)
  BY <1>7, MovedTyped DEF AnswerImage, AttemptPoints
<1>8. ASSUME NEW failure \in Failures, AnswerFailure(w, failure) PROVE TypeOK'
  <2>1. work[w].at \in AttemptPoints
    BY <1>8 DEF AnswerFailure, AttemptPoints
  <2> DEFINE b == failure # "retryable"
  <2>2. b \in BOOLEAN /\ owed' = [owed EXCEPT ![g] = b]
    BY <1>8 DEF AnswerFailure
  <2> HIDE DEF b
  <2>3. QED
    BY <1>8, <2>1, <2>2, FailingTyped DEF AnswerFailure
<1>9. CASE PersistReady(w)
  <2>1. work[w].at \in AttemptPoints /\ "staged" \in AttemptPoints
    BY <1>9 DEF PersistReady, AttemptPoints
  <2>2. [staging[g] EXCEPT !.ready = @ \union {n}] \in Files
    BY <1>1, <2>1 DEF Files
  <2>3. staging' \in [Generations -> Files]
    BY <1>1, <1>9, <2>1, <2>2 DEF PersistReady
  <2>4. QED
    BY <1>9, <2>1, <2>3, MovedTyped DEF PersistReady
<1>10. CASE WriteDraft(w)
  BY <1>1, <1>10, MovedTyped DEF WriteDraft, AttemptPoints
<1>11. CASE ApplySuccess(w)
  <2>1. work[w].at \in AttemptPoints /\ "published" \in AttemptPoints /\ "fenced" \in AttemptPoints
    BY <1>11 DEF ApplySuccess, AttemptPoints
  <2>2. work' \in [Workers -> Work]
    BY <1>11, <2>1, MovedTyped DEF ApplySuccess
  <2>3. drafts' \in [Generations -> SUBSET Nat]
    BY <1>1, <1>11, <2>1, RemovalTyped DEF ApplySuccess
  <2> DEFINE r == [u EXCEPT !.status = "succeeded", !.retryable = FALSE, !.draft = n,
                            !.expired = FALSE]
  <2>4. row' \in {row, [row EXCEPT ![g] = r]}
    BY <1>11 DEF ApplySuccess
  <2> HIDE DEF u, n
  <2>5. r \in LeasedRow
    BY <1>1, <2>1, ChangedTyped
  <2> HIDE DEF r
  <2>6. QED
    BY <1>11, <2>2, <2>3, <2>4, <2>5 DEF ApplySuccess
<1>12. CASE AfterSuccess(w)
  <2>1. work[w].at \in AttemptPoints
    BY <1>12 DEF AfterSuccess, AttemptPoints
  <2>2. [at |-> "importing", id |-> g] \in Work
    BY <1>1, <2>1, WorkTyped
  <2>3. work' \in [Workers -> Work]
    BY <1>2, <1>12, <2>2 DEF AfterSuccess
  <2>4. QED
    BY <1>1, <1>12, <2>1, <2>3, RemovalTyped DEF AfterSuccess
<1>13. CASE AfterFenced(w)
  <2>1. work[w].at \in AttemptPoints
    BY <1>13 DEF AfterFenced, AttemptPoints
  <2>2. QED
    BY <1>1, <1>2, <1>13, <2>1, RemovalTyped DEF AfterFenced
<1>14. CASE ApplyFailure(w)
  <2>1. work[w].at = "failing"
    BY <1>14 DEF ApplyFailure
  <2> DEFINE removed == [submitted |-> staging[g].submitted \ {n}, ready |-> staging[g].ready \ {n}]
             b == work[w].failure = "retryable"
             r == Failed(row[g], b, Ambiguous(w))
  <2>2. removed \in Files
    BY <1>1, <2>1 DEF Files
  <2>3. staging' \in {staging, [staging EXCEPT ![g] = removed]}
    BY <1>14 DEF ApplyFailure
  <2>4. row' \in {row, [row EXCEPT ![g] = r]}
    BY <1>14 DEF ApplyFailure
  <2>5. b \in BOOLEAN /\ Ambiguous(w) \in BOOLEAN
    BY DEF Ambiguous
  <2> HIDE DEF removed, b
  <2>6. r \in LeasedRow
    BY <1>1, <2>1, <2>5, DecidedTyped
  <2> HIDE DEF r
  <2>7. QED
    BY <1>2, <1>14, <2>2, <2>3, <2>4, <2>6 DEF ApplyFailure
<1>15. CASE AutoAccept(w)
  <2>1. g \in Generations /\ row[g] \in LeasedRow /\ u \in LeasedRow
    BY <1>15, WorkShape, UnleasedTyped DEF AutoAccept
  <2> DEFINE r == [u EXCEPT !.asset = TRUE, !.draft = NoDraft]
  <2>2. row' = [row EXCEPT ![g] = r]
    BY <1>15 DEF AutoAccept, Imported
  <2> HIDE DEF u
  <2>3. r \in LeasedRow
    <3>1. 0 \in Nat
      OBVIOUS
    <3>2. QED
      BY <2>1, <3>1, ChangedTyped
  <2> HIDE DEF r
  <2>4. QED
    BY <1>2, <1>15, <2>1, <2>2, <2>3, RemovalTyped DEF AutoAccept, Imported
<1>16. CASE DeferImport(w)
  <2>1. g \in Generations /\ row[g] \in LeasedRow /\ u \in LeasedRow
    BY <1>16, WorkShape, UnleasedTyped DEF DeferImport
  <2>2. row' \in {row, [row EXCEPT ![g] = u]}
    BY <1>16 DEF DeferImport
  <2> HIDE DEF u
  <2>3. crashes' \in 0..MaxCrashes
    BY <1>16, ImageAssumption DEF DeferImport
  <2>4. QED
    BY <1>2, <1>16, <2>1, <2>2, <2>3 DEF DeferImport
<1>17. CASE FindStagingOrphans(w)
  <2> DEFINE doomed == {x \in Generations : staging[x] # NoFiles /\ Over(row[x])}
  <2>1. [at |-> "cleanStaging", doomed |-> doomed] \in Work
    BY WorkTyped
  <2>2. work' = [work EXCEPT ![w] = [at |-> "cleanStaging", doomed |-> doomed]]
    BY <1>17 DEF FindStagingOrphans
  <2> HIDE DEF doomed
  <2>3. QED
    BY <1>17, <2>1, <2>2 DEF FindStagingOrphans
<1>18. CASE CleanStaging(w)
  <2>1. NoFiles \in Files
    BY DEF NoFiles, Files
  <2>2. QED
    BY <1>18, <2>1, WorkTyped DEF CleanStaging
<1>19. CASE CleanOutput(w)
  <2>1. drafts' \in [Generations -> SUBSET Nat]
    BY <1>19 DEF CleanOutput
  <2>2. QED
    BY <1>2, <1>19, <2>1 DEF CleanOutput
<1>20. QED
  BY <1>3, <1>4, <1>5, <1>6, <1>7, <1>8, <1>9, <1>10, <1>11, <1>12, <1>13, <1>14, <1>15, <1>16,
     <1>17, <1>18, <1>19 DEF Execute

LEMMA TypeStep == ASSUME TypeOK, [Next]_vars PROVE TypeOK'
<1> USE Types, PrimedTypes DEF history, bounds
<1>1. Idle \in Work
  BY WorkTyped
<1>2. CASE UNCHANGED vars
  BY <1>2 DEF vars
<1>3. ASSUME NEW g \in Generations, Request(g) PROVE TypeOK'
  BY <1>3, RequestTyped
<1>4. ASSUME NEW g \in Generations, LeaseExpires(g) PROVE TypeOK'
  <2>1. row[g] \in LeasedRow /\ row[g].lease = "live"
    BY <1>4 DEF LeaseExpires
  <2>2. [row[g] EXCEPT !.lease = "expired"] \in LeasedRow
    BY <2>1 DEF LeasedRow, Row
  <2>3. QED
    BY <1>4, <2>2 DEF LeaseExpires
<1>5. ASSUME NEW g \in Generations, RetentionEnds(g) PROVE TypeOK'
  <2>1. [row[g] EXCEPT !.expired = TRUE] \in LeasedRow
    BY DEF LeasedRow, Row
  <2>2. QED
    BY <1>5, <2>1 DEF RetentionEnds
<1>6. ASSUME NEW w \in Workers, TakeWork(w) PROVE TypeOK'
  <2>1. PICK passed, taken, bad \in SUBSET Generations : Claim(w, passed, taken, bad)
    BY <1>6 DEF TakeWork
  <2> DEFINE loaded == {g \in Candidates : Staged(g)} \ bad
             hopeless == Hopeless(loaded)
  <2>2. \A g \in Generations : Refused(row[g]) \in LeasedRow /\ Taken(w, g, loaded) \in LeasedRow
    BY DecidedTyped, TakenTyped
  <2>3. row' = [g \in Generations |-> CASE g \in passed -> Refused(row[g])
                                        [] g \in taken  -> Taken(w, g, loaded)
                                        [] OTHER        -> row[g]]
    BY <2>1 DEF Claim
  <2>4. row' \in [Generations -> LeasedRow]
    <3> HIDE DEF loaded
    <3>1. QED
      BY <2>2, <2>3
  <2>5. work' \in [Workers -> Work]
    <3>1. CASE taken = {}
      BY <1>1, <2>1, <3>1 DEF Claim
    <3>2. CASE taken # {}
      <4> DEFINE g == CHOOSE g \in taken : TRUE
                 e == [at |-> "claimed", id |-> g, reuse |-> g \in loaded,
                       generation |-> row[g].generation + 1]
      <4>1. g \in Generations
        BY <3>2
      <4>2. row[g].generation + 1 \in Nat
        BY <4>1 DEF LeasedRow, Row
      <4>3. e \in Attempt
        BY <4>1, <4>2 DEF Attempt, AttemptPoints
      <4>4. work' = [work EXCEPT ![w] = e]
        BY <2>1, <3>2 DEF Claim
      <4> HIDE DEF e
      <4>5. QED
        BY <4>3, <4>4, WorkTyped
    <3>3. QED
      BY <3>1, <3>2
  <2>6. readFaults' \in 0..MaxReadFaults
    <3>1. bad \subseteq Generations /\ IsFiniteSet(bad)
      BY FS_Subset, ImageAssumption
    <3>2. Cardinality(bad) \in Nat
      BY <3>1, FS_CardinalityType
    <3>3. QED
      BY <2>1, <3>2, ImageAssumption DEF Claim
  <2>7. QED
    BY <2>1, <2>4, <2>5, <2>6 DEF Claim
<1>7. ASSUME NEW w \in Workers, Execute(w) PROVE TypeOK'
  BY <1>7, ExecuteTyped
<1>8. ASSUME NEW w \in Workers, NEW g \in Generations, ClaimImport(w, g) PROVE TypeOK'
  <2>1. [row[g] EXCEPT !.owner = w, !.lease = "live"] \in LeasedRow
    BY LeaseTyped
  <2>2. row' = [row EXCEPT ![g] = [row[g] EXCEPT !.owner = w, !.lease = "live"]]
    BY <1>8 DEF ClaimImport
  <2>3. [at |-> "importing", id |-> g] \in Work
    BY WorkTyped
  <2>4. QED
    BY <1>8, <2>1, <2>2, <2>3 DEF ClaimImport
<1>9. ASSUME NEW w \in Workers, DiscardExpired(w) PROVE TypeOK'
  <2>1. ASSUME NEW g \in Generations
        PROVE  [row[g] EXCEPT !.discarded = TRUE, !.draft = NoDraft] \in LeasedRow
    <3>1. row[g] \in LeasedRow /\ 0 \in Nat
      OBVIOUS
    <3>2. QED
      BY <3>1, ChangedTyped
  <2>2. row' \in [Generations -> LeasedRow]
    BY <1>9, <2>1 DEF DiscardExpired
  <2>3. drafts' \in [Generations -> SUBSET Nat]
    BY <1>9 DEF DiscardExpired
  <2>4. QED
    BY <1>9, <2>2, <2>3, WorkTyped DEF DiscardExpired
<1>10. ASSUME NEW w \in Workers, RenewLease(w) PROVE TypeOK'
  <2>1. work[w].at \in AttemptPoints \union {"failing"}
    BY <1>10 DEF RenewLease, AttemptPoints
  <2>2. work[w].id \in Generations
    BY <2>1, WorkShape DEF Attempt, FailingAttempt
  <2>3. [row[work[w].id] EXCEPT !.lease = "live"] \in LeasedRow
    BY <1>10, <2>2, LeaseTyped DEF RenewLease, Owns
  <2>4. QED
    BY <1>10, <2>2, <2>3 DEF RenewLease
<1>11. ASSUME NEW w \in Workers, Unexpected(w) PROVE TypeOK'
  <2>1. work[w].at \in AttemptPoints /\ "internal" \in Failures
    BY <1>11 DEF Unexpected, AttemptPoints, Failures
  <2>2. work[w].id \in Generations
    BY <2>1, WorkShape DEF Attempt
  <2>3. work' \in [Workers -> Work]
    BY <1>1, <1>11, <2>1, FailingTyped DEF Unexpected
  <2>4. drafts' \in [Generations -> SUBSET Nat] /\ crashes' \in 0..MaxCrashes
    BY <1>11, <2>2, ImageAssumption DEF Unexpected
  <2>5. QED
    BY <1>11, <2>3, <2>4 DEF Unexpected
<1>12. ASSUME NEW w \in Workers, Crash(w) PROVE TypeOK'
  BY <1>1, <1>12, ImageAssumption DEF Crash
<1>13. QED
  BY <1>2, <1>3, <1>4, <1>5, <1>6, <1>7, <1>8, <1>9, <1>10, <1>11, <1>12 DEF Next

LEMMA TypeInit == ASSUME Init PROVE TypeOK
<1> DEFINE r == [NewRow(FALSE) EXCEPT !.status = "absent"]
<1>1. r \in LeasedRow
  BY NewRowTyped
<1>2. row = [g \in Generations |-> r]
  BY DEF Init
<1> HIDE DEF r
<1>3. /\ row \in [Generations -> Row]
      /\ \A g \in Generations : row[g].owner = NoWorker <=> row[g].lease = "none"
  BY <1>1, <1>2 DEF LeasedRow
<1>4. Idle \in Work /\ NoFiles \in Files /\ {} \in SUBSET Nat
  BY WorkTyped DEF NoFiles, Files
<1>5. /\ staging \in [Generations -> Files] /\ drafts \in [Generations -> SUBSET Nat]
      /\ work \in [Workers -> Work]
  BY <1>4 DEF Init
<1>6. /\ calls \in [Generations -> Nat] /\ owed \in [Generations -> BOOLEAN]
      /\ imports \in [Generations -> Nat]
      /\ crashes \in 0..MaxCrashes /\ readFaults \in 0..MaxReadFaults
  BY ImageAssumption DEF Init
<1>7. QED
  BY <1>3, <1>5, <1>6 DEF TypeOK, Files, Work

\* The rows, the files and what the workers do keep their types, for any number of
\* generations and workers.
THEOREM TypeCorrect == Spec => []TypeOK
<1>1. QED
  BY TypeInit, TypeStep, PTL DEF Spec

-----------------------------------------------------------------------------
(* What the steps have in common *)

\* An execution that goes on keeps its claim.
KeepsClaim(w) ==
  Open(w)' => Open(w) /\ work'[w].id = work[w].id /\ work'[w].generation = work[w].generation

\* A row is given to a new execution.
ClaimedBy(w) ==
  LET g == work'[w].id
  IN  /\ ~Open(w)
      /\ work'[w].generation = row[g].generation + 1
      /\ row'[g].generation = row[g].generation + 1
      /\ row'[g].status = "running" /\ row'[g].owner = w

\* A row moves to a new generation, or stays with the execution that runs it.
RowAdvances(g) ==
  \/ row'[g].generation > row[g].generation
  \/ /\ row'[g].generation = row[g].generation
     /\ \A w \in Workers : row[g].status = "running" /\ row[g].owner = w =>
          \/ row'[g].status = "running" /\ row'[g].owner = w
          \/ ~Open(w)'

LEMMA OpenTyped ==
  ASSUME TypeOK, NEW w \in Workers, Open(w)
  PROVE  work[w].id \in Generations /\ work[w].generation \in Nat
<1>1. work[w] \in Work
  BY Types
<1>2. work[w].at \in AttemptPoints \/ work[w].at = "failing"
  BY DEF Open, OpenPoints, AttemptPoints
<1>3. QED
  BY <1>1, <1>2, WorkShape DEF Attempt, FailingAttempt

LEMMA OpenTypedPrimed ==
  ASSUME TypeOK', NEW w \in Workers, Open(w)'
  PROVE  work'[w].id \in Generations /\ work'[w].generation \in Nat
<1>1. work'[w] \in Work
  BY DEF TypeOK, Work
<1>2. work'[w].at \in AttemptPoints \/ work'[w].at = "failing"
  BY DEF Open, OpenPoints, AttemptPoints
<1>3. QED
  BY <1>1, <1>2, WorkShape DEF Attempt, FailingAttempt

LEMMA GenerationsTyped ==
  /\ TypeOK => \A g \in Generations : row[g].generation \in Nat
  /\ TypeOK' => \A g \in Generations : row'[g].generation \in Nat
  BY DEF TypeOK, Row

LEMMA ClaimsKept ==
  ASSUME TypeOK, ExecutionsFenced, ExecutionsDiffer, TypeOK',
         \A w \in Workers : KeepsClaim(w) \/ ClaimedBy(w),
         \A g \in Generations : RowAdvances(g)
  PROVE  ExecutionsFenced' /\ ExecutionsDiffer'
<1> USE GenerationsTyped
<1>1. ASSUME NEW w \in Workers, Open(w)'
      PROVE  /\ work'[w].generation \in 1..row'[work'[w].id].generation
             /\ work'[w].generation = row'[work'[w].id].generation =>
                  row'[work'[w].id].status = "running" /\ row'[work'[w].id].owner = w
  <2> DEFINE g == work'[w].id
             n == work'[w].generation
  <2>1. g \in Generations /\ n \in Nat
    BY <1>1, OpenTypedPrimed
  <2>2. row[g].generation \in Nat /\ row'[g].generation \in Nat /\ RowAdvances(g)
    BY <2>1
  <2>3. CASE KeepsClaim(w)
    <3>1. Open(w) /\ g = work[w].id /\ n = work[w].generation
      BY <1>1, <2>3 DEF KeepsClaim
    <3>2. /\ n \in 1..row[g].generation
          /\ n = row[g].generation => row[g].status = "running" /\ row[g].owner = w
      BY <3>1 DEF ExecutionsFenced
    <3>3. QED
      BY <1>1, <2>1, <2>2, <3>2 DEF RowAdvances
  <2>4. CASE ClaimedBy(w)
    BY <2>2, <2>4 DEF ClaimedBy
  <2>5. QED
    BY <2>3, <2>4
<1>2. ASSUME NEW v \in Workers, NEW w \in Workers, Open(v)', Open(w)', v # w,
             work'[v].id = work'[w].id
      PROVE  work'[v].generation # work'[w].generation
  <2> DEFINE g == work'[w].id
  <2>1. g \in Generations /\ row[g].generation \in Nat
    BY <1>2, OpenTypedPrimed
  <2>2. ASSUME NEW u \in Workers, Open(u)', work'[u].id = g, KeepsClaim(u)
        PROVE  work'[u].generation \in 1..row[g].generation
    BY <2>2 DEF KeepsClaim, ExecutionsFenced
  <2>3. CASE KeepsClaim(v) /\ KeepsClaim(w)
    BY <1>2, <2>3 DEF KeepsClaim, ExecutionsDiffer
  <2>4. CASE ClaimedBy(v) /\ ClaimedBy(w)
    BY <1>2, <2>4 DEF ClaimedBy
  <2>5. CASE KeepsClaim(v) /\ ClaimedBy(w)
    BY <1>2, <2>1, <2>2, <2>5 DEF ClaimedBy
  <2>6. CASE ClaimedBy(v) /\ KeepsClaim(w)
    BY <1>2, <2>1, <2>2, <2>6 DEF ClaimedBy
  <2>7. QED
    BY <2>3, <2>4, <2>5, <2>6
<1>3. ExecutionsFenced'
  BY <1>1 DEF ExecutionsFenced
<1>4. ExecutionsDiffer'
  BY <1>2 DEF ExecutionsDiffer
<1>5. QED
  BY <1>3, <1>4

\* A draft that is removed is the one its row refers to, or no execution has just
\* written it; a draft that is not there yet is written before it is published.
DraftsRemain ==
  /\ \A g \in Generations : NoDraft \notin drafts'[g]
  /\ \A g \in Generations : \A n \in drafts[g] \ drafts'[g] :
       \/ n = row[g].draft
       \/ \A w \in Workers : ~(work'[w].at = "drafted" /\ work'[w].id = g /\ work'[w].generation = n)
  /\ \A w \in Workers : work'[w].at = "drafted" =>
       \/ /\ work[w].at = "drafted" /\ work'[w].id = work[w].id
          /\ work'[w].generation = work[w].generation
       \/ work'[w].generation \in drafts'[work'[w].id]

LEMMA DraftsKept ==
  ASSUME TypeOK, TypeOK', ExecutionsFenced, DraftsReferred, WrittenDrafts, DraftsRemain
  PROVE  WrittenDrafts'
<1>1. ASSUME NEW w \in Workers, work'[w].at = "drafted"
      PROVE  work'[w].generation \in drafts'[work'[w].id]
  <2> DEFINE g == work[w].id
             n == work[w].generation
  <2>1. CASE work'[w].generation \in drafts'[work'[w].id]
    BY <2>1
  <2>2. CASE work[w].at = "drafted" /\ work'[w].id = g /\ work'[w].generation = n
    <3>1. n \in drafts[g]
      BY <2>2 DEF WrittenDrafts
    <3>2. Open(w)
      BY <2>2 DEF Open, OpenPoints
    <3>3. g \in Generations /\ n \in 1..row[g].generation /\ row[g].generation \in Nat
          /\ (n = row[g].generation => row[g].status = "running")
      BY <3>2, OpenTyped, GenerationsTyped DEF ExecutionsFenced
    <3>4. n # row[g].draft
      BY <3>3 DEF DraftsReferred, NoDraft
    <3>5. QED
      BY <1>1, <2>2, <3>1, <3>3, <3>4 DEF DraftsRemain
  <2>3. QED
    BY <1>1, <2>1, <2>2 DEF DraftsRemain
<1>2. QED
  BY <1>1 DEF WrittenDrafts, DraftsRemain

\* What a row refers to, and whether it is decided, stay as they are.
SameOutcome(g) ==
  /\ row'[g].status = row[g].status
  /\ row'[g].generation = row[g].generation
  /\ row'[g].draft = row[g].draft
  /\ row'[g].asset = row[g].asset
  /\ row'[g].discarded = row[g].discarded
  /\ row[g].status = "running" => row'[g].owner = row[g].owner

\* Most steps touch no outcome and no draft.
LEMMA Quiet ==
  ASSUME DraftInv, TypeOK', UNCHANGED <<drafts, imports>>,
         \A g \in Generations : SameOutcome(g),
         \A w \in Workers : KeepsClaim(w) /\ (work'[w].at = "drafted" => work[w].at = "drafted")
  PROVE  DraftInv'
<1>1. \A g \in Generations : RowAdvances(g)
  BY DEF SameOutcome, RowAdvances
<1>2. ExecutionsFenced' /\ ExecutionsDiffer'
  BY <1>1, ClaimsKept DEF DraftInv
<1>3. DraftsRemain
  BY DEF DraftsRemain, DraftInv, WrittenDrafts, KeepsClaim, Open, OpenPoints
<1>4. WrittenDrafts'
  BY <1>3, DraftsKept DEF DraftInv
<1>5. DraftsReferred'
  BY DEF DraftsReferred, DraftInv, SameOutcome
<1>6. OutcomesFinal'
  BY DEF OutcomesFinal, DraftInv, SameOutcome, Pending
<1>7. QED
  BY <1>2, <1>4, <1>5, <1>6 DEF DraftInv

\* A worker whose step does not end in a new claim or a new draft.
LEMMA OneStepsOn ==
  ASSUME NEW w \in Workers,
         \A v \in Workers : v # w => work'[v] = work[v],
         work'[w].at # "drafted",
         \/ work'[w].at \notin OpenPoints
         \/ Open(w) /\ work'[w].id = work[w].id /\ work'[w].generation = work[w].generation
  PROVE  \A v \in Workers : KeepsClaim(v) /\ (work'[v].at = "drafted" => work[v].at = "drafted")
  BY DEF KeepsClaim, Open

LEMMA SameRow ==
  ASSUME UNCHANGED row
  PROVE  \A g \in Generations : SameOutcome(g)
  BY DEF SameOutcome

\* A step may write the lease, the deadline, and the owner of what does not run.
LEMMA LeaseKeepsOutcome ==
  ASSUME TypeOK, NEW g \in Generations, NEW r \in Row, row' = [row EXCEPT ![g] = r],
         r.status = row[g].status, r.generation = row[g].generation, r.draft = row[g].draft,
         r.asset = row[g].asset, r.discarded = row[g].discarded,
         row[g].status = "running" => r.owner = row[g].owner
  PROVE  \A h \in Generations : SameOutcome(h)
  BY DEF TypeOK, SameOutcome

LEMMA QuietExecution ==
  ASSUME DraftInv, TypeOK', NEW w \in Workers,
         \/ \E bad \in BOOLEAN : FindResult(w, bad)
         \/ ConfirmOwnership(w)
         \/ WriteMarker(w)
         \/ Send(w)
         \/ AnswerImage(w)
         \/ \E failure \in Failures : AnswerFailure(w, failure)
         \/ PersistReady(w)
  PROVE  DraftInv'
<1> USE DEF history, bounds
<1>1. TypeOK /\ work \in [Workers -> Work] /\ row \in [Generations -> LeasedRow]
  BY Types DEF DraftInv
<1>2. ASSUME work[w].at \in AttemptPoints, NEW point \in AttemptPoints, point # "drafted",
             Open(w), work' = Moved(w, point)
      PROVE  \A v \in Workers : KeepsClaim(v) /\ (work'[v].at = "drafted" => work[v].at = "drafted")
  BY <1>1, <1>2, MovedTyped, OneStepsOn
<1>3. ASSUME work[w].at \in AttemptPoints, NEW failure \in Failures, Open(w),
             work' = Failing(w, failure)
      PROVE  \A v \in Workers : KeepsClaim(v) /\ (work'[v].at = "drafted" => work[v].at = "drafted")
  BY <1>1, <1>3, FailingTyped, OneStepsOn
<1>4. ASSUME work' = [work EXCEPT ![w] = Idle]
      PROVE  \A v \in Workers : KeepsClaim(v) /\ (work'[v].at = "drafted" => work[v].at = "drafted")
  BY <1>1, <1>4, OneStepsOn DEF Idle, OpenPoints
<1>5. ASSUME NEW bad \in BOOLEAN, FindResult(w, bad) PROVE DraftInv'
  <2>1. /\ work[w].at \in AttemptPoints /\ Open(w)
        /\ "staged" \in AttemptPoints /\ "unsent" \in AttemptPoints /\ "ambiguous" \in Failures
    BY <1>5 DEF FindResult, AttemptPoints, Open, OpenPoints, Failures
  <2>2. \/ work' = [work EXCEPT ![w] = Idle]
        \/ work' = Moved(w, "staged")
        \/ work' = Failing(w, "ambiguous")
        \/ work' = Moved(w, "unsent")
    BY <1>5 DEF FindResult
  <2>3. \A v \in Workers : KeepsClaim(v) /\ (work'[v].at = "drafted" => work[v].at = "drafted")
    BY <1>2, <1>3, <1>4, <2>1, <2>2
  <2>4. QED
    BY <1>5, <2>3, SameRow, Quiet DEF FindResult
<1>6. CASE ConfirmOwnership(w)
  <2>1. work[w].at \in AttemptPoints /\ Open(w) /\ "confirmed" \in AttemptPoints
    BY <1>6 DEF ConfirmOwnership, AttemptPoints, Open, OpenPoints
  <2>2. \A v \in Workers : KeepsClaim(v) /\ (work'[v].at = "drafted" => work[v].at = "drafted")
    BY <1>2, <1>4, <1>6, <2>1 DEF ConfirmOwnership
  <2>3. \A g \in Generations : SameOutcome(g)
    <3>1. CASE UNCHANGED row
      BY <3>1, SameRow
    <3>2. CASE ~(UNCHANGED row)
      <4> DEFINE g == work[w].id
                 r == [row[g] EXCEPT !.lease = "live"]
      <4>1. g \in Generations /\ row[g] \in Row
        BY <1>1, <2>1, OpenTyped DEF LeasedRow
      <4>2. row' = [row EXCEPT ![g] = r]
        BY <1>6, <3>2 DEF ConfirmOwnership
      <4>3. /\ r \in Row
            /\ r.status = row[g].status /\ r.generation = row[g].generation
            /\ r.draft = row[g].draft /\ r.asset = row[g].asset
            /\ r.discarded = row[g].discarded /\ r.owner = row[g].owner
        BY <4>1 DEF Row
      <4> HIDE DEF r
      <4>4. QED
        BY <1>1, <4>1, <4>2, <4>3, LeaseKeepsOutcome
    <3>3. QED
      BY <3>1, <3>2
  <2>4. QED
    BY <1>6, <2>2, <2>3, Quiet DEF ConfirmOwnership
<1>7. CASE WriteMarker(w)
  <2>1. work[w].at \in AttemptPoints /\ Open(w) /\ "submitted" \in AttemptPoints
    BY <1>7 DEF WriteMarker, AttemptPoints, Open, OpenPoints
  <2>2. QED
    BY <1>2, <1>7, <2>1, SameRow, Quiet DEF WriteMarker
<1>8. CASE Send(w)
  <2>1. work[w].at \in AttemptPoints /\ Open(w) /\ "calling" \in AttemptPoints
    BY <1>8 DEF Send, AttemptPoints, Open, OpenPoints
  <2>2. QED
    BY <1>2, <1>8, <2>1, SameRow, Quiet DEF Send
<1>9. CASE AnswerImage(w)
  <2>1. work[w].at \in AttemptPoints /\ Open(w) /\ "answered" \in AttemptPoints
    BY <1>9 DEF AnswerImage, AttemptPoints, Open, OpenPoints
  <2>2. QED
    BY <1>2, <1>9, <2>1, SameRow, Quiet DEF AnswerImage
<1>10. ASSUME NEW failure \in Failures, AnswerFailure(w, failure) PROVE DraftInv'
  <2>1. work[w].at \in AttemptPoints /\ Open(w)
    BY <1>10 DEF AnswerFailure, AttemptPoints, Open, OpenPoints
  <2>2. QED
    BY <1>3, <1>10, <2>1, SameRow, Quiet DEF AnswerFailure
<1>11. CASE PersistReady(w)
  <2>1. work[w].at \in AttemptPoints /\ Open(w) /\ "staged" \in AttemptPoints
    BY <1>11 DEF PersistReady, AttemptPoints, Open, OpenPoints
  <2>2. QED
    BY <1>2, <1>11, <2>1, SameRow, Quiet DEF PersistReady
<1>12. QED
  BY <1>5, <1>6, <1>7, <1>8, <1>9, <1>10, <1>11

\* Steps that leave an execution behind, or are not part of one.
LEMMA QuietOther ==
  ASSUME DraftInv, TypeOK', NEW w \in Workers,
         \/ AfterSuccess(w)
         \/ AfterFenced(w)
         \/ FindStagingOrphans(w)
         \/ CleanStaging(w)
         \/ Crash(w)
         \/ DeferImport(w)
         \/ \E g \in Generations : ClaimImport(w, g)
         \/ RenewLease(w)
  PROVE  DraftInv'
<1> USE DEF history, bounds
<1>1. TypeOK /\ work \in [Workers -> Work] /\ row \in [Generations -> LeasedRow]
  BY Types DEF DraftInv
<1>2. ASSUME NEW e, e.at \notin OpenPoints, work' = [work EXCEPT ![w] = e]
      PROVE  \A v \in Workers : KeepsClaim(v) /\ (work'[v].at = "drafted" => work[v].at = "drafted")
  BY <1>1, <1>2, OneStepsOn DEF OpenPoints
<1>3. Idle.at \notin OpenPoints
  BY DEF Idle, OpenPoints
<1>4. \A g : [at |-> "importing", id |-> g].at \notin OpenPoints
  BY DEF OpenPoints
<1>5. CASE AfterSuccess(w)
  BY <1>2, <1>3, <1>4, <1>5, SameRow, Quiet DEF AfterSuccess
<1>6. CASE AfterFenced(w)
  BY <1>2, <1>3, <1>6, SameRow, Quiet DEF AfterFenced
<1>7. CASE FindStagingOrphans(w)
  <2> DEFINE e == [at |-> "cleanStaging",
                   doomed |-> {g \in Generations : staging[g] # NoFiles /\ Over(row[g])}]
  <2>1. e.at \notin OpenPoints /\ work' = [work EXCEPT ![w] = e]
    BY <1>7 DEF FindStagingOrphans, OpenPoints
  <2> HIDE DEF e
  <2>2. QED
    BY <1>2, <1>7, <2>1, SameRow, Quiet DEF FindStagingOrphans
<1>8. CASE CleanStaging(w)
  <2>1. [at |-> "cleanOutput"].at \notin OpenPoints
    BY DEF OpenPoints
  <2>2. QED
    BY <1>2, <1>8, <2>1, SameRow, Quiet DEF CleanStaging
<1>9. CASE Crash(w)
  BY <1>2, <1>3, <1>9, SameRow, Quiet DEF Crash
<1>10. CASE DeferImport(w)
  <2> DEFINE g == work[w].id
             r == Unleased(row[g])
  <2>1. g \in Generations /\ row[g] \in Row
    BY <1>1, <1>10, WorkShape DEF DeferImport, LeasedRow
  <2>2. /\ r \in Row
        /\ r.status = row[g].status /\ r.generation = row[g].generation
        /\ r.draft = row[g].draft /\ r.asset = row[g].asset /\ r.discarded = row[g].discarded
    BY <2>1 DEF Unleased, Row
  <2>3. /\ row' \in {row, [row EXCEPT ![g] = r]}
        /\ row' # row => row[g].status = "succeeded"
    BY <1>10 DEF DeferImport
  <2> HIDE DEF r
  <2>4. \A h \in Generations : SameOutcome(h)
    BY <1>1, <2>1, <2>2, <2>3, SameRow, LeaseKeepsOutcome
  <2>5. QED
    BY <1>2, <1>3, <1>10, <2>4, Quiet DEF DeferImport
<1>11. ASSUME NEW g \in Generations, ClaimImport(w, g) PROVE DraftInv'
  <2> DEFINE r == [row[g] EXCEPT !.owner = w, !.lease = "live"]
  <2>1. row[g] \in Row
    BY <1>1 DEF LeasedRow
  <2>2. /\ r \in Row
        /\ r.status = row[g].status /\ r.generation = row[g].generation
        /\ r.draft = row[g].draft /\ r.asset = row[g].asset /\ r.discarded = row[g].discarded
    BY <2>1 DEF Row
  <2>3. row[g].status = "succeeded" /\ row' = [row EXCEPT ![g] = r]
    BY <1>11 DEF ClaimImport
  <2> HIDE DEF r
  <2>4. \A h \in Generations : SameOutcome(h)
    BY <1>1, <2>2, <2>3, LeaseKeepsOutcome
  <2>5. QED
    BY <1>2, <1>4, <1>11, <2>4, Quiet DEF ClaimImport
<1>12. CASE RenewLease(w)
  <2> DEFINE g == work[w].id
             r == [row[g] EXCEPT !.lease = "live"]
  <2>1. work[w].at \in AttemptPoints \union {"failing"}
    BY <1>12 DEF RenewLease, AttemptPoints
  <2>2. g \in Generations /\ row[g] \in Row
    BY <1>1, <2>1, WorkShape DEF Attempt, FailingAttempt, LeasedRow
  <2>3. /\ r \in Row
        /\ r.status = row[g].status /\ r.generation = row[g].generation
        /\ r.draft = row[g].draft /\ r.asset = row[g].asset
        /\ r.discarded = row[g].discarded /\ r.owner = row[g].owner
    BY <2>2 DEF Row
  <2>4. row' = [row EXCEPT ![g] = r]
    BY <1>12 DEF RenewLease
  <2> HIDE DEF r
  <2>5. \A h \in Generations : SameOutcome(h)
    BY <1>1, <2>2, <2>3, <2>4, LeaseKeepsOutcome
  <2>6. \A v \in Workers : KeepsClaim(v) /\ (work'[v].at = "drafted" => work[v].at = "drafted")
    BY <1>12 DEF RenewLease, KeepsClaim, Open
  <2>7. QED
    BY <1>12, <2>5, <2>6, Quiet DEF RenewLease
<1>13. QED
  BY <1>5, <1>6, <1>7, <1>8, <1>9, <1>10, <1>11, <1>12

LEMMA QuietTime ==
  ASSUME DraftInv, TypeOK', NEW g \in Generations, LeaseExpires(g) \/ RetentionEnds(g)
  PROVE  DraftInv'
<1> USE DEF history, bounds
<1>1. TypeOK /\ row[g] \in Row
  BY Types DEF DraftInv, LeasedRow
<1>2. PICK r \in {[row[g] EXCEPT !.lease = "expired"], [row[g] EXCEPT !.expired = TRUE]} :
        row' = [row EXCEPT ![g] = r]
  BY DEF LeaseExpires, RetentionEnds
<1>3. /\ r \in Row
      /\ r.status = row[g].status /\ r.generation = row[g].generation
      /\ r.draft = row[g].draft /\ r.asset = row[g].asset
      /\ r.discarded = row[g].discarded /\ r.owner = row[g].owner
  BY <1>1 DEF Row
<1>4. \A h \in Generations : SameOutcome(h)
  BY <1>1, <1>2, <1>3, LeaseKeepsOutcome
<1>5. QED
  BY <1>4, Quiet DEF LeaseExpires, RetentionEnds, KeepsClaim, Open

\* What DraftsReferred and OutcomesFinal say of one generation.
Lasting(g) ==
  LET r == row[g] IN
  /\ r.draft # NoDraft =>
       r.status = "succeeded" /\ r.draft = r.generation /\ r.draft \in drafts[g]
  /\ r.discarded => r.draft = NoDraft /\ r.status \notin {"queued", "running"} /\ ~r.asset
  /\ imports[g] <= 1
  /\ imports[g] > 0 => r.draft = NoDraft /\ r.status \in {"succeeded", "deleted"}
  /\ r.status = "absent" => r.generation = 0 /\ ~r.asset /\ ~r.discarded

LEMMA EachLasting ==
  /\ DraftsReferred /\ OutcomesFinal <=> \A g \in Generations : Lasting(g)
  /\ DraftsReferred' /\ OutcomesFinal' <=> \A g \in Generations : Lasting(g)'
<1>1. \A g \in Generations : g \in Pending <=> row[g].status \in {"queued", "running"}
  BY DEF Pending
<1>2. \A g \in Generations : g \in Pending' <=> row'[g].status \in {"queued", "running"}
  BY DEF Pending
<1>3. DraftsReferred /\ OutcomesFinal <=> \A g \in Generations : Lasting(g)
  BY <1>1 DEF DraftsReferred, OutcomesFinal, Lasting
<1>4. DraftsReferred' /\ OutcomesFinal' <=> \A g \in Generations : Lasting(g)'
  BY <1>2 DEF DraftsReferred, OutcomesFinal, Lasting
<1>5. QED
  BY <1>3, <1>4

\* A step that decides something for one generation.
LEMMA OneDecided ==
  ASSUME DraftInv, TypeOK', NEW g \in Generations,
         \A h \in Generations \ {g} :
           row'[h] = row[h] /\ drafts'[h] = drafts[h] /\ imports'[h] = imports[h],
         \A w \in Workers : KeepsClaim(w) \/ ClaimedBy(w),
         RowAdvances(g), DraftsRemain, Lasting(g)'
  PROVE  DraftInv'
<1>1. \A h \in Generations : RowAdvances(h)
  BY DEF RowAdvances
<1>2. ExecutionsFenced' /\ ExecutionsDiffer'
  BY <1>1, ClaimsKept DEF DraftInv
<1>3. WrittenDrafts'
  BY DraftsKept DEF DraftInv
<1>4. ASSUME NEW h \in Generations PROVE Lasting(h)'
  BY EachLasting DEF DraftInv, Lasting
<1>5. DraftsReferred' /\ OutcomesFinal'
  BY <1>4, EachLasting
<1>6. QED
  BY <1>2, <1>3, <1>5 DEF DraftInv

\* Requests touch no worker, and no file but the draft of their row.
LEMMA OneRequested ==
  ASSUME DraftInv, TypeOK', NEW g \in Generations, NEW r \in Row, UNCHANGED work,
         row' = [row EXCEPT ![g] = r],
         drafts' \in {drafts, [drafts EXCEPT ![g] = drafts[g] \ {row[g].draft}]},
         \A h \in Generations \ {g} : imports'[h] = imports[h],
         \/ r.generation > row[g].generation
         \/ r.generation = row[g].generation /\ row[g].status # "running",
         Lasting(g)'
  PROVE  DraftInv'
<1>1. /\ row'[g] = r
      /\ \A h \in Generations \ {g} : row'[h] = row[h] /\ drafts'[h] = drafts[h]
  BY DEF DraftInv, TypeOK
<1>2. RowAdvances(g)
  BY <1>1 DEF RowAdvances
<1>3. \A w \in Workers : KeepsClaim(w)
  BY DEF KeepsClaim, Open
<1>4. DraftsRemain
  <2>1. drafts \in [Generations -> SUBSET Nat]
    BY DEF DraftInv, TypeOK
  <2>2. \A h \in Generations : NoDraft \notin drafts'[h]
    BY <2>1 DEF DraftInv, WrittenDrafts
  <2>3. \A h \in Generations : \A n \in drafts[h] \ drafts'[h] : n = row[h].draft
    BY <2>1
  <2>4. QED
    BY <2>2, <2>3 DEF DraftsRemain
<1>5. QED
  BY <1>1, <1>2, <1>3, <1>4, OneDecided

\* The rows the requests write, field by field.
LEMMA RequestedRows ==
  ASSUME NEW r \in Row
  PROVE  /\ LET q == Canceled(r) IN
              /\ q.status = "canceled" /\ q.generation = r.generation + 1 /\ q.draft = r.draft
              /\ q.asset = r.asset /\ q.discarded = r.discarded
         /\ LET q == Unleased(r) IN
              /\ q \in Row
              /\ q.status = r.status /\ q.generation = r.generation /\ q.draft = r.draft
              /\ q.asset = r.asset /\ q.discarded = r.discarded
         /\ LET q == [r EXCEPT !.discarded = TRUE, !.draft = NoDraft] IN
              /\ q.status = r.status /\ q.generation = r.generation /\ q.draft = NoDraft
              /\ q.asset = r.asset /\ q.discarded
<1>1. LET q == Unleased(r) IN
        /\ q \in Row
        /\ q.status = r.status /\ q.generation = r.generation /\ q.draft = r.draft
        /\ q.asset = r.asset /\ q.discarded = r.discarded
  BY DEF Unleased, Row
<1>2. LET q == Canceled(r) IN
        /\ q.status = "canceled" /\ q.generation = r.generation + 1 /\ q.draft = r.draft
        /\ q.asset = r.asset /\ q.discarded = r.discarded
  BY <1>1 DEF Canceled, Row
<1>3. LET q == [r EXCEPT !.discarded = TRUE, !.draft = NoDraft] IN
        /\ q.status = r.status /\ q.generation = r.generation /\ q.draft = NoDraft
        /\ q.asset = r.asset /\ q.discarded
  BY DEF Row
<1>4. QED
  BY <1>1, <1>2, <1>3

LEMMA ImportedKeeps ==
  ASSUME DraftInv, TypeOK', NEW g \in Generations, Imported(g),
         \A w \in Workers : KeepsClaim(w) /\ (work'[w].at = "drafted" => work'[w] = work[w])
  PROVE  DraftInv'
<1> DEFINE u == Unleased(row[g])
           r == [u EXCEPT !.asset = TRUE, !.draft = NoDraft]
<1>1. /\ row \in [Generations -> LeasedRow] /\ row[g] \in Row /\ imports \in [Generations -> Nat]
      /\ drafts \in [Generations -> SUBSET Nat] /\ row[g].generation \in Nat
  BY Types DEF DraftInv, LeasedRow, Row
<1>2. /\ u \in Row /\ u.status = row[g].status /\ u.generation = row[g].generation
      /\ u.discarded = row[g].discarded
  BY <1>1, RequestedRows
<1>3. row' = [row EXCEPT ![g] = r] /\ imports' = [imports EXCEPT ![g] = imports[g] + 1]
  BY DEF Imported
<1> HIDE DEF u
<1>4. /\ r.status = row[g].status /\ r.generation = row[g].generation /\ r.draft = NoDraft
      /\ r.discarded = row[g].discarded
  BY <1>2 DEF Row
<1> HIDE DEF r
<1>5. row[g].status = "succeeded" /\ ~row[g].discarded /\ row[g].draft \in drafts[g]
  BY DEF Imported, Acceptable
<1>6. row[g].draft # NoDraft /\ imports[g] = 0
  BY <1>1, <1>5 DEF DraftInv, WrittenDrafts, OutcomesFinal
<1>7. row'[g] = r /\ imports'[g] = 1
      /\ \A h \in Generations \ {g} : row'[h] = row[h] /\ imports'[h] = imports[h]
  BY <1>1, <1>3, <1>6
<1>8. Lasting(g)'
  BY <1>4, <1>5, <1>7 DEF Lasting
<1>9. drafts' \in {drafts, [drafts EXCEPT ![g] = drafts[g] \ {row[g].draft}]}
  BY DEF Imported, DraftRemoved
<1>10. DraftsRemain
  <2>1. \A h \in Generations : NoDraft \notin drafts'[h]
    BY <1>1, <1>9 DEF DraftInv, WrittenDrafts
  <2>2. \A h \in Generations : \A n \in drafts[h] \ drafts'[h] : n = row[h].draft
    BY <1>1, <1>9
  <2>3. QED
    BY <2>1, <2>2 DEF DraftsRemain
<1>11. RowAdvances(g)
  BY <1>4, <1>5, <1>7 DEF RowAdvances
<1>12. \A h \in Generations \ {g} : drafts'[h] = drafts[h]
  BY <1>1, <1>9
<1>13. QED
  BY <1>7, <1>8, <1>10, <1>11, <1>12, OneDecided

LEMMA RequestKeeps ==
  ASSUME DraftInv, TypeOK', NEW g \in Generations, Request(g)
  PROVE  DraftInv'
<1> USE DEF history, bounds
<1>1. /\ row \in [Generations -> LeasedRow] /\ row[g] \in Row /\ imports \in [Generations -> Nat]
      /\ row[g].generation \in Nat
      /\ row[g].generation + 1 > row[g].generation
      /\ row' \in [Generations -> LeasedRow]
  BY Types DEF DraftInv, TypeOK, LeasedRow, Row
<1>2. Lasting(g)
  BY EachLasting DEF DraftInv
<1>3. row'[g] \in Row
  BY <1>1 DEF LeasedRow
<1>4. ASSUME NEW auto \in BOOLEAN, Create(g, auto) PROVE DraftInv'
  <2> DEFINE r == NewRow(auto)
  <2>1. row' = [row EXCEPT ![g] = r] /\ row'[g] = r /\ r \in Row
    BY <1>1, <1>3, <1>4 DEF Create
  <2>2. r.status = "queued" /\ r.generation = 0 /\ r.draft = NoDraft /\ ~r.asset /\ ~r.discarded
    BY DEF NewRow
  <2> HIDE DEF r
  <2>3. row[g].status = "absent" /\ row[g].generation = 0 /\ imports[g] = 0
    BY <1>1, <1>2, <1>4 DEF Create, Lasting
  <2>4. Lasting(g)'
    BY <1>4, <2>1, <2>2, <2>3 DEF Create, Lasting
  <2>5. QED
    BY <1>4, <2>1, <2>2, <2>3, <2>4, OneRequested DEF Create
<1>5. CASE Retry(g)
  <2> DEFINE u == Unleased(row[g])
             limit == IF row[g].max > row[g].attempt + 1 THEN row[g].max ELSE row[g].attempt + 1
             n == IF limit < HardMaxAttempts THEN limit ELSE HardMaxAttempts
             r == [u EXCEPT !.status = "queued", !.max = n]
  <2>1. row' = [row EXCEPT ![g] = r]
    BY <1>5 DEF Retry
  <2>2. /\ u \in Row /\ u.generation = row[g].generation /\ u.draft = row[g].draft
        /\ u.discarded = row[g].discarded
    BY <1>1, RequestedRows
  <2> HIDE DEF u, n
  <2>3. /\ r.status = "queued" /\ r.generation = row[g].generation /\ r.draft = row[g].draft
        /\ r.discarded = row[g].discarded
    BY <2>2 DEF Row
  <2> HIDE DEF r
  <2>4. row'[g] = r /\ r \in Row
    BY <1>1, <1>3, <2>1
  <2>5. row[g].status = "failed" /\ ~row[g].discarded /\ imports' = imports /\ drafts' = drafts
    BY <1>5 DEF Retry
  <2>6. Lasting(g)'
    BY <1>1, <1>2, <2>3, <2>4, <2>5 DEF Lasting
  <2>7. QED
    BY <1>5, <2>1, <2>3, <2>4, <2>5, <2>6, OneRequested DEF Retry
<1>6. CASE Cancel(g)
  <2> DEFINE r == Canceled(row[g])
  <2>1. row' = [row EXCEPT ![g] = r]
    BY <1>6 DEF Cancel
  <2>2. /\ r.status = "canceled" /\ r.generation = row[g].generation + 1
        /\ r.draft = row[g].draft /\ r.discarded = row[g].discarded
    BY <1>1, RequestedRows
  <2> HIDE DEF r
  <2>3. row'[g] = r /\ r \in Row
    BY <1>1, <1>3, <2>1
  <2>4. row[g].status \in {"queued", "running"} /\ imports' = imports /\ drafts' = drafts
    BY <1>6 DEF Cancel, Pending
  <2>5. Lasting(g)'
    BY <1>1, <1>2, <2>2, <2>3, <2>4 DEF Lasting
  <2>6. QED
    BY <1>1, <1>6, <2>1, <2>2, <2>3, <2>4, <2>5, OneRequested DEF Cancel
<1>7. CASE Discard(g)
  <2> DEFINE c == IF g \in Pending THEN Canceled(row[g]) ELSE row[g]
             r == [c EXCEPT !.discarded = TRUE, !.draft = NoDraft]
  <2>1. row' = [row EXCEPT ![g] = r]
    BY <1>7 DEF Discard
  <2>2. /\ c \in Row
        /\ g \in Pending => c.status = "canceled" /\ c.generation > row[g].generation
        /\ g \notin Pending => c.status = row[g].status /\ c.generation = row[g].generation
        /\ c.asset = row[g].asset
    BY <1>1, RequestedRows, DecidedTyped DEF LeasedRow
  <2>3. /\ row[g].status \notin {"absent", "deleted"} /\ ~row[g].asset /\ imports' = imports
        /\ drafts' \in {drafts, [drafts EXCEPT ![g] = drafts[g] \ {row[g].draft}]}
        /\ work' = work
    BY <1>7 DEF Discard, Discardable, DraftRemoved
  <2> HIDE DEF c
  <2>4. r.status = c.status /\ r.generation = c.generation /\ r.draft = NoDraft
        /\ r.asset = c.asset /\ r.discarded
    BY <2>2, RequestedRows
  <2> HIDE DEF r
  <2>5. row'[g] = r /\ r \in Row
    BY <1>1, <1>3, <2>1
  <2>6. g \in Pending <=> row[g].status \in {"queued", "running"}
    BY DEF Pending
  <2>7. Lasting(g)'
    BY <1>1, <1>2, <2>2, <2>3, <2>4, <2>5, <2>6 DEF Lasting
  <2>8. QED
    BY <2>1, <2>2, <2>3, <2>4, <2>5, <2>6, <2>7, OneRequested
<1>8. CASE Accept(g)
  BY <1>8, ImportedKeeps DEF Accept, KeepsClaim, Open
<1>9. CASE DeleteAsset(g)
  <2> DEFINE r == [row[g] EXCEPT !.asset = FALSE]
  <2>1. row' = [row EXCEPT ![g] = r]
    BY <1>9 DEF DeleteAsset
  <2>2. /\ r.status = row[g].status /\ r.generation = row[g].generation
        /\ r.draft = row[g].draft /\ ~r.asset /\ r.discarded = row[g].discarded
    BY <1>1 DEF Row
  <2> HIDE DEF r
  <2>3. row'[g] = r /\ r \in Row /\ row[g].asset /\ imports' = imports /\ drafts' = drafts
    BY <1>1, <1>3, <1>9, <2>1 DEF DeleteAsset
  <2>5. Lasting(g)'
    BY <1>2, <2>2, <2>3 DEF Lasting
  <2>6. RowAdvances(g)
    <3>1. row'[g].owner = row[g].owner
      BY <1>1, <1>9 DEF DeleteAsset, Row
    <3>2. QED
      BY <2>2, <2>3, <3>1 DEF RowAdvances
  <2>7. (\A w \in Workers : KeepsClaim(w)) /\ DraftsRemain
    BY <1>9 DEF DeleteAsset, KeepsClaim, Open, DraftsRemain, DraftInv, WrittenDrafts
  <2>8. \A h \in Generations \ {g} :
          row'[h] = row[h] /\ drafts'[h] = drafts[h] /\ imports'[h] = imports[h]
    BY <1>1, <2>1, <2>3
  <2>9. QED
    BY <2>5, <2>6, <2>7, <2>8, OneDecided
<1>10. CASE DeleteProject(g)
  <2> DEFINE u == Unleased(row[g])
             n == row[g].generation + 1
             r == [u EXCEPT !.status = "deleted", !.generation = n, !.draft = NoDraft,
                            !.asset = FALSE]
  <2>1. row' = [row EXCEPT ![g] = r]
    BY <1>10 DEF DeleteProject
  <2>2. u \in Row /\ u.discarded = row[g].discarded /\ n > row[g].generation
    BY <1>1, RequestedRows
  <2> HIDE DEF u, n
  <2>3. /\ r.status = "deleted" /\ r.generation = n /\ r.draft = NoDraft /\ ~r.asset
        /\ r.discarded = row[g].discarded
    BY <2>2 DEF Row
  <2> HIDE DEF r
  <2>4. row'[g] = r /\ r \in Row /\ imports' = imports
        /\ drafts' \in {drafts, [drafts EXCEPT ![g] = drafts[g] \ {row[g].draft}]}
    BY <1>1, <1>3, <1>10, <2>1 DEF DeleteProject, DraftRemoved
  <2>5. Lasting(g)'
    BY <1>2, <2>3, <2>4 DEF Lasting
  <2>6. QED
    BY <1>10, <2>1, <2>2, <2>3, <2>4, <2>5, OneRequested DEF DeleteProject
<1>11. QED
  BY <1>4, <1>5, <1>6, <1>7, <1>8, <1>9, <1>10 DEF Request

\* An execution writes its draft, is decided, or is given up.
LEMMA ExecutionKeeps ==
  ASSUME DraftInv, TypeOK', NEW w \in Workers,
         WriteDraft(w) \/ ApplySuccess(w) \/ ApplyFailure(w) \/ Unexpected(w),
         NEW g, g = work[w].id, NEW n, n = work[w].generation
  PROVE  DraftInv'
<1> USE DEF history, bounds
<1>1. /\ TypeOK /\ work \in [Workers -> Work] /\ row \in [Generations -> LeasedRow]
      /\ drafts \in [Generations -> SUBSET Nat] /\ row' \in [Generations -> LeasedRow]
      /\ work' \in [Workers -> Work]
  BY Types DEF DraftInv, TypeOK, LeasedRow, Work
<1>2. Open(w) /\ (work[w].at \in AttemptPoints \/ work[w].at = "failing")
  BY DEF WriteDraft, ApplySuccess, ApplyFailure, Unexpected, Open, OpenPoints, AttemptPoints
<1>3. /\ g \in Generations /\ n \in 1..row[g].generation
      /\ row[g] \in Row /\ row'[g] \in Row /\ row[g].generation \in Nat
      /\ n = row[g].generation => row[g].status = "running" /\ row[g].owner = w
  BY <1>1, <1>2, OpenTyped, GenerationsTyped DEF DraftInv, ExecutionsFenced, LeasedRow
<1>4. Lasting(g) /\ NoDraft \notin drafts[g]
  BY <1>3, EachLasting DEF DraftInv, WrittenDrafts
<1>5. n # row[g].draft
  BY <1>3, <1>4 DEF Lasting, NoDraft
<1>6. ASSUME NEW v \in Workers, v # w, Open(v), work[v].id = g
      PROVE  work[v].generation # n
  BY <1>2, <1>6 DEF DraftInv, ExecutionsDiffer
<1>7. ASSUME NEW v \in Workers, work[v].at = "drafted" PROVE Open(v)
  BY <1>7 DEF Open, OpenPoints
<1>8. \A v \in Workers : v # w => work'[v] = work[v]
  BY <1>1 DEF WriteDraft, ApplySuccess, ApplyFailure, Unexpected, Moved, Failing
<1>9. \A v \in Workers : v # w => KeepsClaim(v)
  BY <1>8 DEF KeepsClaim, Open
<1>10. CASE WriteDraft(w)
  <2>1. /\ work[w].at \in AttemptPoints /\ "drafted" \in AttemptPoints
        /\ work' = Moved(w, "drafted") /\ UNCHANGED <<row, imports>>
        /\ drafts' = [drafts EXCEPT ![g] = drafts[g] \union {n}]
    BY <1>10 DEF WriteDraft, AttemptPoints
  <2>2. work'[w].id = g /\ work'[w].generation = n
    BY <1>1, <2>1, MovedTyped
  <2>3. \A v \in Workers : KeepsClaim(v)
    BY <1>2, <1>9, <2>2 DEF KeepsClaim
  <2>4. RowAdvances(g)
    BY <2>1 DEF RowAdvances
  <2>5. drafts'[g] = drafts[g] \union {n} /\ \A h \in Generations \ {g} : drafts'[h] = drafts[h]
    BY <1>1, <1>3, <2>1
  <2>6. NoDraft # n
    BY <1>3 DEF NoDraft
  <2>7. DraftsRemain
    BY <1>3, <1>8, <2>2, <2>5, <2>6 DEF DraftsRemain, DraftInv, WrittenDrafts
  <2>8. Lasting(g)'
    BY <1>4, <2>1, <2>5 DEF Lasting
  <2>9. QED
    BY <1>3, <2>1, <2>3, <2>4, <2>5, <2>7, <2>8, OneDecided
<1>11. CASE ApplySuccess(w)
  <2>1. /\ work[w].at = "drafted" /\ work[w].at \in AttemptPoints
        /\ "published" \in AttemptPoints /\ "fenced" \in AttemptPoints /\ imports' = imports
    BY <1>11 DEF ApplySuccess, AttemptPoints
  <2>2. work'[w].at \in {"published", "fenced"}
    BY <1>1, <1>11, <2>1, MovedTyped DEF ApplySuccess
  <2>3. ~Open(w)' /\ work'[w].at # "drafted"
    BY <2>2 DEF Open, OpenPoints
  <2>4. \A v \in Workers : KeepsClaim(v)
    BY <1>9, <2>3 DEF KeepsClaim
  <2>5. n \in drafts[g]
    BY <2>1 DEF DraftInv, WrittenDrafts
  <2>6. CASE Owns(w)
    <3> DEFINE u == Unleased(row[g])
               r == [u EXCEPT !.status = "succeeded", !.retryable = FALSE, !.draft = n,
                              !.expired = FALSE]
    <3>1. row' = [row EXCEPT ![g] = r]
          /\ drafts' \in {drafts, [drafts EXCEPT ![g] = drafts[g] \ {row[g].draft}]}
      BY <1>11, <2>6 DEF ApplySuccess, DraftRemoved
    <3>2. row[g].status = "running" /\ row[g].generation = n
      BY <2>6 DEF Owns
    <3>3. u \in Row /\ u.generation = row[g].generation /\ u.discarded = row[g].discarded
      BY <1>3, RequestedRows
    <3> HIDE DEF u
    <3>4. /\ r.status = "succeeded" /\ r.generation = row[g].generation /\ r.draft = n
          /\ r.discarded = row[g].discarded
      BY <3>3 DEF Row
    <3> HIDE DEF r
    <3>5. row'[g] = r /\ \A h \in Generations \ {g} : row'[h] = row[h] /\ drafts'[h] = drafts[h]
      BY <1>1, <1>3, <3>1
    <3>6. n \in drafts'[g] /\ NoDraft \notin drafts'[g]
          /\ \A m \in drafts[g] \ drafts'[g] : m = row[g].draft
      BY <1>1, <1>3, <1>4, <1>5, <2>5, <3>1
    <3>7. Lasting(g)'
      BY <1>4, <2>1, <3>2, <3>4, <3>5, <3>6 DEF Lasting
    <3>8. RowAdvances(g)
      BY <2>3, <1>3, <3>2, <3>4, <3>5 DEF RowAdvances
    <3>9. DraftsRemain
      BY <1>8, <2>3, <3>5, <3>6 DEF DraftsRemain, DraftInv, WrittenDrafts
    <3>10. QED
      BY <1>3, <2>1, <2>4, <3>5, <3>7, <3>8, <3>9, OneDecided
  <2>7. CASE ~Owns(w)
    <3>1. row' = row /\ drafts' = [drafts EXCEPT ![g] = drafts[g] \ {n}]
      BY <1>11, <2>7 DEF ApplySuccess
    <3>2. drafts'[g] = drafts[g] \ {n} /\ \A h \in Generations \ {g} : drafts'[h] = drafts[h]
      BY <1>1, <1>3, <3>1
    <3>3. DraftsRemain
      BY <1>3, <1>4, <1>6, <1>7, <1>8, <2>3, <3>2 DEF DraftsRemain, DraftInv, WrittenDrafts
    <3>4. Lasting(g)'
      BY <1>4, <1>5, <2>1, <3>1, <3>2 DEF Lasting
    <3>5. RowAdvances(g)
      BY <3>1 DEF RowAdvances
    <3>6. QED
      BY <1>3, <2>1, <2>4, <3>1, <3>2, <3>3, <3>4, <3>5, OneDecided
  <2>8. QED
    BY <2>6, <2>7
<1>12. CASE ApplyFailure(w)
  <2>1. work' = [work EXCEPT ![w] = Idle] /\ UNCHANGED <<drafts, imports>>
    BY <1>12 DEF ApplyFailure
  <2>2. ~Open(w)' /\ work'[w].at # "drafted"
    BY <1>1, <2>1 DEF Open, OpenPoints, Idle
  <2>3. \A v \in Workers : KeepsClaim(v)
    BY <1>9, <2>2 DEF KeepsClaim
  <2>4. DraftsRemain
    BY <1>8, <2>1, <2>2 DEF DraftsRemain, DraftInv, WrittenDrafts
  <2>5. CASE row' = row
    <3>1. Lasting(g)' /\ RowAdvances(g)
      BY <1>4, <2>1, <2>5 DEF Lasting, RowAdvances
    <3>2. QED
      BY <1>3, <2>1, <2>3, <2>4, <2>5, <3>1, OneDecided
  <2>6. CASE row' # row
    <3> DEFINE u == Unleased(row[g])
               b == work[w].failure = "retryable"
               r == Failed(row[g], b, Ambiguous(w))
    <3>1. Owns(w) /\ row' = [row EXCEPT ![g] = r]
      BY <1>12, <2>6 DEF ApplyFailure
    <3>2. row[g].status = "running" /\ row[g].generation = n
      BY <3>1 DEF Owns
    <3>3. /\ u \in Row /\ u.generation = row[g].generation /\ u.discarded = row[g].discarded
          /\ u.draft = row[g].draft /\ u.asset = row[g].asset
      BY <1>3, RequestedRows
    <3> DEFINE c == (b \/ Ambiguous(w)) /\ row[g].attempt < HardMaxAttempts
    <3>4. \/ r = [u EXCEPT !.status = "queued", !.retryable = TRUE]
          \/ r = [u EXCEPT !.status = "failed", !.retryable = c]
      BY DEF Failed
    <3> HIDE DEF u, c, r
    <3>5. /\ r.status \in {"queued", "failed"} /\ r.generation = row[g].generation
          /\ r.discarded = row[g].discarded /\ r.draft = row[g].draft /\ r.asset = row[g].asset
      BY <3>3, <3>4 DEF Row
    <3>6. row'[g] = r /\ \A h \in Generations \ {g} : row'[h] = row[h]
      BY <1>1, <1>3, <3>1
    <3>7. Lasting(g)'
      BY <1>4, <2>1, <3>2, <3>5, <3>6 DEF Lasting
    <3>8. RowAdvances(g)
      BY <1>3, <2>2, <3>2, <3>5, <3>6 DEF RowAdvances
    <3>9. QED
      BY <1>3, <2>1, <2>3, <2>4, <3>6, <3>7, <3>8, OneDecided
  <2>7. QED
    BY <2>5, <2>6
<1>13. CASE Unexpected(w)
  <2>1. /\ work[w].at \in AttemptPoints /\ "internal" \in Failures /\ UNCHANGED <<row, imports>>
        /\ drafts' = [drafts EXCEPT ![g] = drafts[g] \ {n}]
    BY <1>13 DEF Unexpected, AttemptPoints, Failures
  <2>2. /\ work'[w].at # "drafted"
        /\ Open(w)' => work'[w].id = g /\ work'[w].generation = n
    <3>1. CASE work' = [work EXCEPT ![w] = Idle]
      BY <1>1, <3>1 DEF Open, OpenPoints, Idle
    <3>2. CASE work' = Failing(w, "internal")
      BY <1>1, <2>1, <3>2, FailingTyped
    <3>3. QED
      BY <1>13, <3>1, <3>2 DEF Unexpected
  <2>3. \A v \in Workers : KeepsClaim(v)
    BY <1>2, <1>9, <2>2 DEF KeepsClaim
  <2>4. drafts'[g] = drafts[g] \ {n} /\ \A h \in Generations \ {g} : drafts'[h] = drafts[h]
    BY <1>1, <1>3, <2>1
  <2>5. DraftsRemain
    BY <1>3, <1>4, <1>6, <1>7, <1>8, <2>2, <2>4 DEF DraftsRemain, DraftInv, WrittenDrafts
  <2>6. Lasting(g)' /\ RowAdvances(g)
    BY <1>4, <1>5, <2>1, <2>4 DEF Lasting, RowAdvances
  <2>7. QED
    BY <1>3, <2>1, <2>3, <2>4, <2>5, <2>6, OneDecided
<1>14. QED
  BY <1>10, <1>11, <1>12, <1>13

\* Sweeps: they decide many rows at once, but no execution's.
LEMMA SweepKeeps ==
  ASSUME DraftInv, TypeOK', NEW w \in Workers, DiscardExpired(w) \/ CleanOutput(w)
  PROVE  DraftInv'
<1> USE DEF history, bounds
<1>1. /\ TypeOK /\ work \in [Workers -> Work] /\ row \in [Generations -> LeasedRow]
      /\ drafts \in [Generations -> SUBSET Nat]
  BY Types DEF DraftInv
<1>2. /\ \A v \in Workers : v # w => work'[v] = work[v]
      /\ work'[w].at \in {"findStaging", "idle"} /\ UNCHANGED imports
  <2>1. CASE DiscardExpired(w)
    BY <1>1, <2>1 DEF DiscardExpired
  <2>2. CASE CleanOutput(w)
    BY <1>1, <2>2 DEF CleanOutput, Idle
  <2>3. QED
    BY <2>1, <2>2
<1>3. \A v \in Workers : KeepsClaim(v) /\ (work'[v].at = "drafted" => work[v].at = "drafted")
  BY <1>2, OneStepsOn DEF OpenPoints
<1>4. ASSUME NEW g \in Generations
      PROVE  /\ RowAdvances(g) /\ Lasting(g)'
             /\ NoDraft \notin drafts'[g]
             /\ \A n \in drafts[g] \ drafts'[g] :
                  \/ n = row[g].draft
                  \/ \A v \in Workers : ~(work[v].at = "drafted" /\ work[v].id = g /\ work[v].generation = n)
  <2>1. Lasting(g) /\ NoDraft \notin drafts[g] /\ row[g] \in Row
    BY <1>1, EachLasting DEF DraftInv, WrittenDrafts, LeasedRow
  <2>2. CASE DiscardExpired(w)
    <3> DEFINE r == [row[g] EXCEPT !.discarded = TRUE, !.draft = NoDraft]
    <3>1. /\ Retired(g) => row'[g] = r
          /\ ~Retired(g) => row'[g] = row[g]
      BY <2>2 DEF DiscardExpired
    <3>2. /\ drafts'[g] \in {drafts[g], drafts[g] \ {row[g].draft}}
          /\ ~Retired(g) => drafts'[g] = drafts[g]
      BY <2>2 DEF DiscardExpired
    <3>3. /\ r.status = row[g].status /\ r.generation = row[g].generation /\ r.draft = NoDraft
          /\ r.asset = row[g].asset /\ r.discarded /\ r.owner = row[g].owner
      BY <2>1 DEF Row
    <3> HIDE DEF r
    <3>4. Retired(g) => ~row[g].asset /\ row[g].status \in Finished
      BY DEF Retired
    <3>5. Lasting(g)'
      BY <1>2, <2>1, <3>1, <3>2, <3>3, <3>4 DEF Lasting, Finished
    <3>6. RowAdvances(g)
      BY <3>1, <3>3 DEF RowAdvances
    <3>7. QED
      BY <2>1, <3>2, <3>5, <3>6
  <2>3. CASE CleanOutput(w)
    <3>1. UNCHANGED row
          /\ drafts'[g] = {n \in drafts[g] : ~Unreferenced(g, n) \/ BeingPublished(g, n)}
      BY <2>3 DEF CleanOutput
    <3>2. Lasting(g)'
      BY <1>2, <2>1, <3>1 DEF Lasting, Unreferenced
    <3>3. RowAdvances(g)
      BY <3>1 DEF RowAdvances
    <3>4. \A n \in drafts[g] \ drafts'[g] : ~BeingPublished(g, n)
      BY <3>1
    <3>5. QED
      BY <2>1, <3>1, <3>2, <3>3, <3>4 DEF BeingPublished
  <2>4. QED
    BY <2>2, <2>3
<1>5. DraftsRemain
  <2>1. \A v \in Workers : work'[v].at = "drafted" =>
          work[v].at = "drafted" /\ work'[v] = work[v]
    BY <1>2
  <2>2. QED
    BY <1>4, <2>1 DEF DraftsRemain
<1>6. ExecutionsFenced' /\ ExecutionsDiffer'
  BY <1>3, <1>4, ClaimsKept DEF DraftInv
<1>7. WrittenDrafts'
  BY <1>5, DraftsKept DEF DraftInv
<1>8. DraftsReferred' /\ OutcomesFinal'
  BY <1>4, EachLasting
<1>9. QED
  BY <1>6, <1>7, <1>8 DEF DraftInv

LEMMA AutoAcceptKeeps ==
  ASSUME DraftInv, TypeOK', NEW w \in Workers, AutoAccept(w)
  PROVE  DraftInv'
<1>1. work \in [Workers -> Work] /\ work' = [work EXCEPT ![w] = Idle]
  BY Types DEF DraftInv, AutoAccept
<1>2. \A v \in Workers : KeepsClaim(v) /\ (work'[v].at = "drafted" => work'[v] = work[v])
  BY <1>1 DEF KeepsClaim, Open, OpenPoints, Idle
<1>3. PICK g : g = work[w].id
  OBVIOUS
<1>4. g \in Generations /\ Imported(g)
  BY <1>1, <1>3, WorkShape DEF AutoAccept
<1>5. QED
  BY <1>2, <1>4, ImportedKeeps

\* A claim fails some of the candidates and gives one to a new execution.
LEMMA ClaimKeeps ==
  ASSUME DraftInv, TypeOK', NEW w \in Workers, TakeWork(w)
  PROVE  DraftInv'
<1>1. PICK passed, taken, bad \in SUBSET Generations : Claim(w, passed, taken, bad)
  BY DEF TakeWork
<1> DEFINE loaded == {g \in Candidates : Staged(g)} \ bad
           hopeless == Hopeless(loaded)
<1>2. /\ TypeOK /\ work \in [Workers -> Work] /\ row \in [Generations -> LeasedRow]
      /\ drafts \in [Generations -> SUBSET Nat]
  BY Types DEF DraftInv
<1>3. /\ passed \subseteq hopeless /\ taken \subseteq Candidates \ hopeless /\ hopeless \subseteq Candidates
      /\ Cardinality(taken) <= 1 /\ work[w] = Idle /\ UNCHANGED <<drafts, imports>>
      /\ row' = [g \in Generations |-> CASE g \in passed -> Refused(row[g])
                                         [] g \in taken  -> Taken(w, g, loaded)
                                         [] OTHER        -> row[g]]
  BY <1>1 DEF Claim, Hopeless, history
<1> HIDE DEF loaded, hopeless
<1>4. ~Open(w)
  BY <1>3 DEF Open, OpenPoints, Idle
<1>5. ASSUME NEW g \in passed
      PROVE  /\ row'[g].status = "failed"
             /\ row'[g].generation = IF row[g].status = "running" THEN row[g].generation + 1
                                     ELSE row[g].generation
             /\ row'[g].draft = row[g].draft /\ row'[g].asset = row[g].asset
             /\ row'[g].discarded = row[g].discarded
  <2> DEFINE u == Unleased(row[g])
             n == IF row[g].status = "running" THEN row[g].generation + 1 ELSE row[g].generation
             b == row[g].attempt < HardMaxAttempts
             r == [u EXCEPT !.status = "failed", !.retryable = b, !.generation = n]
  <2>1. row[g] \in Row
    BY <1>2 DEF LeasedRow
  <2>2. /\ u \in Row /\ u.draft = row[g].draft /\ u.asset = row[g].asset
        /\ u.discarded = row[g].discarded
    BY <2>1, RequestedRows
  <2>3. row'[g] = r
    BY <1>3, <1>5 DEF Refused
  <2> HIDE DEF u, n, b
  <2>4. /\ r.status = "failed" /\ r.generation = n /\ r.draft = u.draft /\ r.asset = u.asset
        /\ r.discarded = u.discarded
    BY <2>2 DEF Row
  <2> HIDE DEF r
  <2>5. QED
    BY <2>2, <2>3, <2>4 DEF n
<1>6. ASSUME NEW g \in taken
      PROVE  /\ row'[g].status = "running" /\ row'[g].generation = row[g].generation + 1
             /\ row'[g].owner = w
             /\ row'[g].draft = row[g].draft /\ row'[g].asset = row[g].asset
             /\ row'[g].discarded = row[g].discarded
  <2> DEFINE n == row[g].generation + 1
             a == row[g].attempt + Spent(g, loaded)
             r == [row[g] EXCEPT !.status = "running", !.attempt = a, !.generation = n,
                                 !.owner = w, !.lease = "live", !.retryable = FALSE]
  <2>1. row[g] \in Row
    BY <1>2 DEF LeasedRow
  <2>2. g \notin passed
    BY <1>3
  <2>3. row'[g] = r
    BY <1>3, <1>6, <2>2 DEF Taken
  <2> HIDE DEF n, a
  <2>4. /\ r.status = "running" /\ r.generation = n /\ r.owner = w
        /\ r.draft = row[g].draft /\ r.asset = row[g].asset /\ r.discarded = row[g].discarded
    BY <2>1 DEF Row
  <2> HIDE DEF r
  <2>5. QED
    BY <2>3, <2>4 DEF n
<1>7. ASSUME NEW g \in Generations, g \notin passed, g \notin taken PROVE row'[g] = row[g]
  BY <1>3, <1>7
<1>8. ASSUME NEW g \in Candidates
      PROVE  /\ g \in Generations /\ row[g].status \in {"queued", "running"} /\ ~row[g].discarded
             /\ row[g].generation \in Nat
  BY GenerationsTyped, <1>2 DEF Candidates
<1>9. ASSUME NEW g \in Generations PROVE RowAdvances(g) /\ Lasting(g)'
  <2>1. Lasting(g)
    BY EachLasting DEF DraftInv
  <2>2. CASE g \in passed
    <3>1. RowAdvances(g)
      BY <1>3, <1>5, <1>8, <2>2 DEF RowAdvances
    <3>2. Lasting(g)'
      BY <1>3, <1>5, <1>8, <2>1, <2>2 DEF Lasting
    <3>3. QED
      BY <3>1, <3>2
  <2>3. CASE g \in taken
    <3>1. RowAdvances(g)
      BY <1>3, <1>6, <1>8, <2>3 DEF RowAdvances
    <3>2. Lasting(g)'
      BY <1>3, <1>6, <1>8, <2>1, <2>3 DEF Lasting
    <3>3. QED
      BY <3>1, <3>2
  <2>4. CASE g \notin passed /\ g \notin taken
    BY <1>3, <1>7, <2>1, <2>4 DEF Lasting, RowAdvances
  <2>5. QED
    BY <2>2, <2>3, <2>4
<1>10. \A v \in Workers : (KeepsClaim(v) \/ ClaimedBy(v)) /\ (v # w => work'[v] = work[v])
  <2>1. \A v \in Workers : v # w => work'[v] = work[v]
    BY <1>1, <1>2 DEF Claim
  <2>2. \A v \in Workers : v # w => KeepsClaim(v)
    BY <2>1 DEF KeepsClaim, Open
  <2>3. KeepsClaim(w) \/ ClaimedBy(w)
    <3>1. CASE taken = {}
      <4>1. work'[w] = Idle
        BY <1>1, <1>2, <3>1 DEF Claim
      <4>2. QED
        BY <4>1 DEF KeepsClaim, Open, OpenPoints, Idle
    <3>2. CASE taken # {}
      <4> DEFINE h == CHOOSE g \in taken : TRUE
                 e == [at |-> "claimed", id |-> h, reuse |-> h \in loaded,
                       generation |-> row[h].generation + 1]
      <4>1. h \in taken
        BY <3>2
      <4>2. work' = [work EXCEPT ![w] = e]
        BY <1>1, <3>2 DEF Claim, loaded
      <4>3. e.id = h /\ e.generation = row[h].generation + 1
        OBVIOUS
      <4> HIDE DEF e, h
      <4>4. work'[w].id = h /\ work'[w].generation = row[h].generation + 1
        BY <1>2, <4>2, <4>3
      <4>5. QED
        BY <1>4, <1>6, <4>1, <4>4 DEF ClaimedBy
    <3>3. QED
      BY <3>1, <3>2
  <2>4. QED
    BY <2>1, <2>2, <2>3
<1>11. work'[w].at # "drafted"
  BY <1>1, <1>2 DEF Claim, Idle
<1>12. DraftsRemain
  BY <1>3, <1>10, <1>11 DEF DraftsRemain, DraftInv, WrittenDrafts
<1>13. ExecutionsFenced' /\ ExecutionsDiffer'
  BY <1>9, <1>10, ClaimsKept DEF DraftInv
<1>14. WrittenDrafts'
  BY <1>12, DraftsKept DEF DraftInv
<1>15. DraftsReferred' /\ OutcomesFinal'
  BY <1>9, EachLasting
<1>16. QED
  BY <1>13, <1>14, <1>15 DEF DraftInv

LEMMA DraftStep == ASSUME DraftInv, [Next]_vars PROVE DraftInv'
<1>1. TypeOK'
  BY TypeStep DEF DraftInv
<1>2. CASE UNCHANGED vars
  BY <1>1, <1>2, SameRow, Quiet DEF vars, KeepsClaim, Open
<1>3. ASSUME NEW g \in Generations, Request(g) \/ LeaseExpires(g) \/ RetentionEnds(g)
      PROVE  DraftInv'
  BY <1>1, <1>3, RequestKeeps, QuietTime
<1>4. ASSUME NEW w \in Workers, TakeWork(w) PROVE DraftInv'
  BY <1>1, <1>4, ClaimKeeps
<1>5. ASSUME NEW w \in Workers, Execute(w) \/ Unexpected(w) PROVE DraftInv'
  <2>1. \/ WriteDraft(w) \/ ApplySuccess(w) \/ ApplyFailure(w) \/ Unexpected(w)
        \/ AutoAccept(w)
        \/ CleanOutput(w)
        \/ AfterSuccess(w) \/ AfterFenced(w) \/ FindStagingOrphans(w) \/ CleanStaging(w)
           \/ DeferImport(w)
        \/ (\E bad \in BOOLEAN : FindResult(w, bad)) \/ ConfirmOwnership(w) \/ WriteMarker(w)
           \/ Send(w) \/ AnswerImage(w) \/ (\E failure \in Failures : AnswerFailure(w, failure))
           \/ PersistReady(w)
    BY <1>5 DEF Execute
  <2>2. QED
    BY <1>1, <2>1, ExecutionKeeps, AutoAcceptKeeps, SweepKeeps, QuietOther, QuietExecution
<1>6. ASSUME NEW w \in Workers,
             \/ \E g \in Generations : ClaimImport(w, g)
             \/ RenewLease(w) \/ Crash(w)
      PROVE  DraftInv'
  BY <1>1, <1>6, QuietOther
<1>7. ASSUME NEW w \in Workers, DiscardExpired(w) PROVE DraftInv'
  BY <1>1, <1>7, SweepKeeps
<1>8. QED
  BY <1>2, <1>3, <1>4, <1>5, <1>6, <1>7 DEF Next

LEMMA DraftInit == ASSUME Init PROVE DraftInv
<1>1. TypeOK
  BY TypeInit
<1>2. /\ \A w \in Workers : work[w].at = "idle"
      /\ \A g \in Generations :
           /\ row[g].generation = 0 /\ row[g].draft = NoDraft /\ ~row[g].asset
           /\ ~row[g].discarded /\ row[g].status = "absent" /\ imports[g] = 0 /\ drafts[g] = {}
  BY DEF Init, Idle, NewRow
<1>3. \A g \in Generations : Lasting(g)
  BY <1>2 DEF Lasting
<1>4. QED
  BY <1>1, <1>2, <1>3, EachLasting
     DEF DraftInv, ExecutionsFenced, ExecutionsDiffer, WrittenDrafts, Open, OpenPoints

LEMMA DraftsInvariant == Spec => []DraftInv
  BY DraftInit, DraftStep, PTL DEF Spec

\* However the automatic import, a person's accept, a discard and a deletion race, a
\* draft becomes at most one asset, and what was discarded is no asset.
THEOREM ImportsOnce == Spec => []ImportedOnce
<1>1. DraftInv => ImportedOnce
  BY DEF DraftInv, OutcomesFinal, ImportedOnce
<1>2. QED
  BY <1>1, DraftsInvariant, PTL

\* No rollback, late result, sweep or deletion removes a file a row refers to.
THEOREM DraftsStayOnDisk == Spec => []DraftOnDisk
<1>1. DraftInv => DraftOnDisk
  BY DEF DraftInv, DraftsReferred, DraftOnDisk
<1>2. QED
  BY <1>1, DraftsInvariant, PTL

\* A generation that was canceled, deleted or discarded.
Settled(g) == row[g].status \in {"canceled", "deleted"} \/ row[g].discarded

StaysSettled(g) ==
  /\ row'[g].status \in {row[g].status, "deleted"}
  /\ row[g].discarded => row'[g].discarded

LEMMA SettledFields ==
  ASSUME NEW r \in Row, NEW n
  PROVE  /\ [r EXCEPT !.asset = FALSE].status = r.status
         /\ [r EXCEPT !.asset = FALSE].discarded = r.discarded
         /\ [r EXCEPT !.lease = "expired"].status = r.status
         /\ [r EXCEPT !.lease = "expired"].discarded = r.discarded
         /\ [r EXCEPT !.expired = TRUE].status = r.status
         /\ [r EXCEPT !.expired = TRUE].discarded = r.discarded
         /\ [r EXCEPT !.discarded = TRUE, !.draft = NoDraft].status = r.status
         /\ [r EXCEPT !.discarded = TRUE, !.draft = NoDraft].discarded
         /\ [r EXCEPT !.status = "deleted", !.generation = n, !.draft = NoDraft,
                      !.asset = FALSE].status = "deleted"
         /\ [r EXCEPT !.status = "deleted", !.generation = n, !.draft = NoDraft,
                      !.asset = FALSE].discarded = r.discarded
  BY DEF Row

LEMMA SettledStays ==
  ASSUME DraftInv, [Next]_vars, NEW g \in Generations, Settled(g)
  PROVE  StaysSettled(g)
<1>1. /\ TypeOK /\ row \in [Generations -> LeasedRow] /\ row[g] \in Row
      /\ work \in [Workers -> Work]
  BY Types DEF DraftInv, LeasedRow
<1>2. /\ row[g].status \notin {"queued", "running"}
      /\ row[g].discarded => ~row[g].asset
  BY <1>1 DEF Settled, DraftInv, OutcomesFinal, Pending
<1>3. ASSUME row'[g] = row[g] PROVE StaysSettled(g)
  BY <1>3 DEF StaysSettled
<1>4. CASE UNCHANGED vars
  BY <1>3, <1>4 DEF vars
<1>5. ASSUME NEW h \in Generations, Request(h) PROVE StaysSettled(g)
  <2>1. h # g => row'[g] = row[g]
    BY <1>1, <1>5
       DEF Request, Create, Retry, Cancel, Discard, Accept, Imported, DeleteAsset, DeleteProject
  <2>2. ASSUME h = g, \/ \E auto \in BOOLEAN : Create(h, auto)
                      \/ Retry(h) \/ Cancel(h) \/ Accept(h)
        PROVE  FALSE
    <3>1. row[g].status = "absent" => row[g].discarded = FALSE
      BY <1>1 DEF DraftInv, OutcomesFinal, Row
    <3>2. QED
      BY <1>2, <2>2, <3>1 DEF Settled, Create, Retry, Cancel, Accept, Imported, Acceptable, Pending
  <2>3. CASE h = g /\ Discard(h)
    <3>1. row' = [row EXCEPT ![g] = [row[g] EXCEPT !.discarded = TRUE, !.draft = NoDraft]]
      BY <1>2, <2>3 DEF Discard, Pending
    <3>2. row'[g] = [row[g] EXCEPT !.discarded = TRUE, !.draft = NoDraft]
      BY <1>1, <3>1
    <3>3. QED
      BY <1>1, <3>2, SettledFields DEF StaysSettled
  <2>4. CASE h = g /\ DeleteAsset(h)
    <3>1. row'[g] = [row[g] EXCEPT !.asset = FALSE]
      BY <1>1, <2>4 DEF DeleteAsset
    <3>2. QED
      BY <1>1, <3>1, SettledFields DEF StaysSettled
  <2>5. CASE h = g /\ DeleteProject(h)
    <3> DEFINE u == Unleased(row[g])
               n == row[g].generation + 1
               r == [u EXCEPT !.status = "deleted", !.generation = n, !.draft = NoDraft,
                              !.asset = FALSE]
    <3>1. row'[g] = r
      BY <1>1, <2>5 DEF DeleteProject
    <3>2. u \in Row /\ u.discarded = row[g].discarded
      BY <1>1, RequestedRows
    <3> HIDE DEF u, n
    <3>3. r.status = "deleted" /\ r.discarded = u.discarded
      BY <3>2, SettledFields
    <3> HIDE DEF r
    <3>4. QED
      BY <3>1, <3>2, <3>3 DEF StaysSettled
  <2>6. QED
    BY <1>3, <1>5, <2>1, <2>2, <2>3, <2>4, <2>5 DEF Request
<1>6. ASSUME NEW h \in Generations, LeaseExpires(h) \/ RetentionEnds(h) PROVE StaysSettled(g)
  <2>1. \/ row'[g] = row[g]
        \/ row'[g] = [row[g] EXCEPT !.lease = "expired"]
        \/ row'[g] = [row[g] EXCEPT !.expired = TRUE]
    BY <1>1, <1>6 DEF LeaseExpires, RetentionEnds
  <2>2. QED
    BY <1>1, <1>3, <2>1, SettledFields DEF StaysSettled
<1>7. ASSUME NEW w \in Workers, TakeWork(w) PROVE StaysSettled(g)
  <2>1. PICK passed, taken, bad \in SUBSET Generations : Claim(w, passed, taken, bad)
    BY <1>7 DEF TakeWork
  <2>2. g \notin Candidates
    BY <1>2 DEF Candidates
  <2>3. g \notin passed /\ g \notin taken
    BY <2>1, <2>2 DEF Claim, Hopeless
  <2>4. row'[g] = row[g]
    BY <2>1, <2>3 DEF Claim
  <2>5. QED
    BY <1>3, <2>4
<1>8. ASSUME NEW w \in Workers, Owns(w) PROVE work[w].id # g
  BY <1>2, <1>8 DEF Owns
<1>9. ASSUME NEW w \in Workers, Execute(w) PROVE StaysSettled(g)
  <2>1. CASE AutoAccept(w)
    <3>1. work[w].id # g
      BY <2>1 DEF AutoAccept, Imported, Acceptable, Settled
    <3>2. row'[g] = row[g]
      BY <1>1, <2>1, <3>1 DEF AutoAccept, Imported
    <3>3. QED
      BY <1>3, <3>2
  <2>2. CASE DeferImport(w)
    <3>1. row' # row => work[w].id # g
      BY <2>2 DEF DeferImport, Settled
    <3>2. row'[g] = row[g]
      BY <1>1, <2>2, <3>1 DEF DeferImport
    <3>3. QED
      BY <1>3, <3>2
  <2>3. CASE ConfirmOwnership(w) \/ ApplySuccess(w) \/ ApplyFailure(w)
    <3>1. row'[g] = row[g]
      BY <1>1, <1>8, <2>3 DEF ConfirmOwnership, ApplySuccess, ApplyFailure
    <3>2. QED
      BY <1>3, <3>1
  <2>4. CASE UNCHANGED row
    BY <1>3, <2>4
  <2>5. QED
    BY <1>9, <2>1, <2>2, <2>3, <2>4
       DEF Execute, FindResult, WriteMarker, Send, AnswerImage, AnswerFailure, PersistReady,
           WriteDraft, AfterSuccess, AfterFenced, FindStagingOrphans, CleanStaging, CleanOutput
<1>10. ASSUME NEW w \in Workers, NEW h \in Generations, ClaimImport(w, h) PROVE StaysSettled(g)
  <2>1. h # g
    BY <1>10 DEF ClaimImport, Settled
  <2>2. row'[g] = row[g]
    BY <1>1, <1>10, <2>1 DEF ClaimImport
  <2>3. QED
    BY <1>3, <2>2
<1>11. ASSUME NEW w \in Workers, DiscardExpired(w) PROVE StaysSettled(g)
  <2>1. \/ row'[g] = row[g]
        \/ row'[g] = [row[g] EXCEPT !.discarded = TRUE, !.draft = NoDraft]
    BY <1>11 DEF DiscardExpired
  <2>2. QED
    BY <1>1, <1>3, <2>1, SettledFields DEF StaysSettled
<1>12. ASSUME NEW w \in Workers, RenewLease(w) PROVE StaysSettled(g)
  <2>1. row'[g] = row[g]
    BY <1>1, <1>8, <1>12 DEF RenewLease
  <2>2. QED
    BY <1>3, <2>1
<1>13. ASSUME NEW w \in Workers, Unexpected(w) \/ Crash(w) PROVE StaysSettled(g)
  BY <1>3, <1>13 DEF Unexpected, Crash
<1>14. QED
  BY <1>4, <1>5, <1>6, <1>7, <1>9, <1>10, <1>11, <1>12, <1>13 DEF Next

\* A result that arrives late brings nothing back: what was canceled, discarded or
\* deleted stays so, and a draft is the one of the row's last execution.
THEOREM LateResultsIgnored == Spec => LateResultIgnored
<1>1. ASSUME DraftInv, [Next]_vars, NEW g \in Generations
      PROVE  /\ row[g].status \in {"canceled", "deleted"}
                  => row'[g].status \in {row[g].status, "deleted"}
             /\ row[g].discarded => row'[g].draft = NoDraft
             /\ row'[g].draft # NoDraft => row'[g].draft = row'[g].generation
  <2>1. DraftsReferred' /\ OutcomesFinal'
    BY <1>1, DraftStep DEF DraftInv
  <2>2. Settled(g) => StaysSettled(g)
    BY <1>1, SettledStays
  <2>3. QED
    BY <1>1, <2>1, <2>2 DEF Settled, StaysSettled, DraftsReferred, OutcomesFinal
<1>2. DraftInv /\ [Next]_vars =>
        [\A g \in Generations :
           /\ row[g].status \in {"canceled", "deleted"} => row'[g].status \in {row[g].status, "deleted"}
           /\ row[g].discarded => row'[g].draft = NoDraft
           /\ row'[g].draft # NoDraft => row'[g].draft = row'[g].generation]_vars
  BY <1>1
<1>3. QED
  BY <1>2, DraftsInvariant, PTL DEF Spec, LateResultIgnored
=============================================================================
