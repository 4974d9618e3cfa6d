--------------------------- MODULE ImageCallProofs ---------------------------
(***************************************************************************)
(* Proof that ImageGeneration never repeats a paid call unasked and never  *)
(* pays for more calls than a generation has attempts, for any number of   *)
(* generations and any limits.                                             *)
(*                                                                         *)
(* The argument follows the evidence a call leaves.  A running generation  *)
(* either has an attempt left that nothing was sent for (Unasked), or the  *)
(* marker of its last execution or a stored result says that it was sent   *)
(* (Answerable); an execution reaches the call only in the first case, and *)
(* the marker it writes first makes the second one true.  It holds for one *)
(* worker, which is what serve.py starts: the check of the lease and the   *)
(* marker are two steps, and between them another worker could recover the *)
(* row.  One result that cannot be read is harmless, because the claim and *)
(* the execution both look for it; a second one is not (image_unreadable). *)
(*                                                                         *)
(* From the same invariant every row implements PaidImage: a call that is  *)
(* on its way is the one that ConfirmOwnership decided, and whoever fails, *)
(* delivers or retries a generation does so while none is (NextPromised).  *)
(***************************************************************************)
EXTENDS ImageResultProofs

\* serve.py starts exactly one image worker.
OneWorker == \A v, w \in Workers : v = w

\* The last execution was marked as submitted, or a result is stored.
Answerable(g) == row[g].generation \in staging[g].submitted \/ Staged(g)

\* The attempt the row is in has not been sent, and no call is owed for.
Unasked(g) == ~owed[g] /\ calls[g] < row[g].attempt

\* Attempts never exceed the cap, whatever a person retries.
AttemptsCapped ==
  \A g \in Generations : row[g].attempt <= HardMaxAttempts /\ row[g].max <= HardMaxAttempts

Accounted(g) ==
  /\ calls[g] <= row[g].attempt
  /\ row[g].status \in {"absent", "queued"} => ~owed[g]
  /\ row[g].status = "absent" => calls[g] = 0 /\ row[g].attempt = 0
  /\ row[g].status = "running" => Unasked(g) \/ Answerable(g)

\* What an execution knows of its generation at each point.
Informed(w) ==
  LET g == work[w].id IN
  /\ Open(w) => Owns(w) \/ row[g].status \in {"canceled", "deleted"}
  /\ work[w].at = "claimed" /\ Owns(w) /\ ~work[w].reuse =>
       Unasked(g) \/ (Staged(g) /\ readFaults >= MaxReadFaults)
  /\ work[w].at \in {"unsent", "confirmed", "submitted"} => Unasked(g)
  /\ work[w].at \in {"submitted", "calling", "answered"} /\ Owns(w) =>
       work[w].generation \in staging[g].submitted
  /\ work[w].at \in {"staged", "drafted"} /\ Owns(w) => Staged(g)
  /\ work[w].at = "failing" /\ Owns(w) /\ work[w].failure = "retryable" => ~owed[g]
  /\ work[w].at = "cleanStaging" => \A f \in work[w].doomed : row[f].status # "running"

CallInv ==
  /\ ResultInv
  /\ AttemptsCapped
  /\ \A g \in Generations : Accounted(g)
  /\ \A w \in Workers : Informed(w)

-----------------------------------------------------------------------------
(* What a step makes of a row, as far as calls are concerned *)

\* Nothing that matters changes; a row that is not running may change hands.
Alike(r, s) ==
  /\ s.status = r.status /\ s.attempt = r.attempt /\ s.max = r.max
  /\ r.status = "running" => s.generation = r.generation /\ s.owner = r.owner

\* A person ends the generation.
Ended(r, s) ==
  /\ s.attempt = r.attempt /\ s.max = r.max /\ s.status \in {"canceled", "deleted"}

\* An execution or a claim decides it.
Decided(r, s) ==
  s.attempt = r.attempt /\ s.max = r.max /\ s.status \in {"succeeded", "failed"}

\* It is queued, for the first time or once more.
Queued(r, s) ==
  /\ s.status = "queued" /\ s.attempt = r.attempt /\ s.max <= HardMaxAttempts
  /\ r.status \in {"absent", "failed", "running"}

LEMMA Copied ==
  ASSUME NEW r \in Row
  PROVE  /\ Unleased(r) \in Row
         /\ Unleased(r).status = r.status /\ Unleased(r).attempt = r.attempt
         /\ Unleased(r).max = r.max /\ Unleased(r).generation = r.generation
         /\ Unleased(r).autoImport = r.autoImport
         /\ Alike(r, r)
         /\ Alike(r, [r EXCEPT !.lease = "live"])
         /\ Alike(r, [r EXCEPT !.lease = "expired"])
         /\ Alike(r, [r EXCEPT !.expired = TRUE])
         /\ Alike(r, [r EXCEPT !.asset = FALSE])
         /\ Alike(r, [r EXCEPT !.discarded = TRUE, !.draft = NoDraft])
         /\ r.status # "running" =>
              \A w \in Workers : Alike(r, [r EXCEPT !.owner = w, !.lease = "live"])
         /\ r.status # "running" => Alike(r, Unleased(r))
  BY DEF Row, Unleased, Alike, NoDraft

LEMMA CanceledEnds ==
  ASSUME NEW r \in Row
  PROVE  Canceled(r) \in Row /\ Ended(r, Canceled(r))
<1> DEFINE u == Unleased(r)
           n == r.generation + 1
           s == [u EXCEPT !.status = "canceled", !.retryable = FALSE, !.generation = n]
<1>1. u \in Row /\ u.attempt = r.attempt /\ u.max = r.max
  BY Copied
<1>2. n \in Nat
  BY DEF Row
<1>3. Canceled(r) = s
  BY DEF Canceled
<1> HIDE DEF u, n
<1>4. s \in Row /\ s.status = "canceled" /\ s.attempt = u.attempt /\ s.max = u.max
  BY <1>1, <1>2 DEF Row
<1>5. QED
  BY <1>1, <1>3, <1>4 DEF Ended

\* A step that sends nothing and takes nothing up: what is owed stays as it is or is agreed
\* to, and the files of a running generation are not removed.
Calm(f) ==
  /\ calls'[f] = calls[f]
  /\ owed'[f] => owed[f]
  /\ \/ Alike(row[f], row'[f])
     \/ Ended(row[f], row'[f])
     \/ row[f].status \in {"absent", "failed"} /\ Queued(row[f], row'[f]) /\ ~owed'[f]
  /\ row'[f].status = "running" =>
       /\ staging[f].submitted \subseteq staging'[f].submitted
       /\ staging[f].ready \subseteq staging'[f].ready

\* No row changes, and files are at most added.
LEMMA SameCalm ==
  ASSUME TypeOK, UNCHANGED <<row, calls>>,
         \A f \in Generations :
           /\ owed'[f] => owed[f]
           /\ row[f].status = "running" =>
                /\ staging[f].submitted \subseteq staging'[f].submitted
                /\ staging[f].ready \subseteq staging'[f].ready
  PROVE  \A f \in Generations : Calm(f)
<1>1. \A f \in Generations : Alike(row[f], row[f])
  BY Types, Copied DEF LeasedRow
<1>2. QED
  BY <1>1 DEF Calm

\* One row changes, and its files may go unless it keeps running.
LEMMA OneCalm ==
  ASSUME TypeOK, NEW g \in Generations, NEW s, row' = [row EXCEPT ![g] = s],
         Alike(row[g], s) \/ Ended(row[g], s), UNCHANGED <<calls, owed>>,
         UNCHANGED staging \/ (StagingRemoved(g) /\ s.status # "running")
  PROVE  \A f \in Generations : Calm(f)
<1>1. row \in [Generations -> LeasedRow] /\ staging \in [Generations -> Files]
  BY Types
<1>2. Calm(g)
  BY <1>1 DEF Calm
<1>3. ASSUME NEW f \in Generations, f # g PROVE Calm(f)
  <2>1. row'[f] = row[f] /\ staging'[f] = staging[f]
    BY <1>1, <1>3 DEF StagingRemoved
  <2>2. Alike(row[f], row[f])
    BY <1>1, Copied DEF LeasedRow
  <2>3. QED
    BY <2>1, <2>2 DEF Calm
<1>4. QED
  BY <1>2, <1>3

LEMMA ImportCalm ==
  ASSUME TypeOK, NEW g \in Generations, Imported(g), UNCHANGED <<calls, owed>>
  PROVE  \A f \in Generations : Calm(f)
<1> DEFINE u == Unleased(row[g])
           s == [u EXCEPT !.asset = TRUE, !.draft = NoDraft]
<1>1. row[g] \in Row
  BY Types DEF LeasedRow
<1>2. u \in Row /\ u.status = row[g].status /\ u.attempt = row[g].attempt /\ u.max = row[g].max
  BY <1>1, Copied
<1>3. row' = [row EXCEPT ![g] = s] /\ row[g].status = "succeeded" /\ StagingRemoved(g)
  BY DEF Imported, Acceptable
<1> HIDE DEF u
<1>4. s.status = u.status /\ s.attempt = u.attempt /\ s.max = u.max
  BY <1>2 DEF Row, NoDraft
<1> HIDE DEF s
<1>5. Alike(row[g], s) /\ s.status # "running"
  BY <1>2, <1>3, <1>4 DEF Alike
<1>6. QED
  BY <1>3, <1>5, OneCalm

LEMMA RequestCalm ==
  ASSUME TypeOK, AttemptsCapped, NEW g \in Generations, Accounted(g), Request(g)
  PROVE  \A f \in Generations : Calm(f)
<1> DEFINE u == Unleased(row[g])
<1>1. row \in [Generations -> LeasedRow] /\ row[g] \in Row /\ owed \in [Generations -> BOOLEAN]
  BY Types DEF LeasedRow
<1>2. u \in Row /\ u.status = row[g].status /\ u.attempt = row[g].attempt /\ u.max = row[g].max
  BY <1>1, Copied
<1>3. ASSUME NEW s, row' = [row EXCEPT ![g] = s], Queued(row[g], s), row[g].status \in {"absent", "failed"},
             ~owed'[g], UNCHANGED <<calls, staging>>,
             \A f \in Generations : f # g => owed'[f] = owed[f]
      PROVE  \A f \in Generations : Calm(f)
  <2>1. Calm(g)
    BY <1>1, <1>3 DEF Calm, Queued
  <2>2. ASSUME NEW f \in Generations, f # g PROVE Calm(f)
    <3>1. row'[f] = row[f] /\ Alike(row[f], row[f])
      BY <1>1, <1>3, <2>2, Copied DEF LeasedRow
    <3>2. QED
      BY <1>3, <2>2, <3>1 DEF Calm
  <2>3. QED
    BY <2>1, <2>2
<1>4. ASSUME NEW auto \in BOOLEAN, Create(g, auto) PROVE \A f \in Generations : Calm(f)
  <2>1. /\ row' = [row EXCEPT ![g] = NewRow(auto)] /\ row[g].status = "absent"
        /\ UNCHANGED <<calls, owed, staging>>
    BY <1>4 DEF Create, history
  <2>2. /\ NewRow(auto).status = "queued" /\ NewRow(auto).attempt = 0
        /\ NewRow(auto).max = MaxAttempts
    BY DEF NewRow
  <2>3. row[g].attempt = 0 /\ ~owed[g]
    BY <2>1 DEF Accounted
  <2>4. Queued(row[g], NewRow(auto))
    BY <2>1, <2>2, <2>3, ImageAssumption DEF Queued
  <2>5. QED
    BY <1>3, <2>1, <2>3, <2>4
<1>5. CASE Retry(g)
  <2> DEFINE limit == IF row[g].max > row[g].attempt + 1 THEN row[g].max ELSE row[g].attempt + 1
             m == IF limit < HardMaxAttempts THEN limit ELSE HardMaxAttempts
             s == [u EXCEPT !.status = "queued", !.max = m]
  <2>1. m \in Nat /\ m <= HardMaxAttempts
    BY <1>1, ImageAssumption DEF Row
  <2>2. /\ row' = [row EXCEPT ![g] = s] /\ row[g].status = "failed"
        /\ owed' = [owed EXCEPT ![g] = FALSE] /\ UNCHANGED <<calls, staging>>
    BY <1>5 DEF Retry
  <2> HIDE DEF m, u
  <2>3. s.status = "queued" /\ s.max = m /\ s.attempt = u.attempt
    BY <1>2, <2>1 DEF Row
  <2> HIDE DEF s
  <2>4. Queued(row[g], s)
    BY <1>2, <2>1, <2>2, <2>3 DEF Queued
  <2>5. ~owed'[g] /\ \A f \in Generations : f # g => owed'[f] = owed[f]
    BY <1>1, <2>2
  <2>6. QED
    BY <1>3, <2>2, <2>4, <2>5
<1>6. CASE Cancel(g)
  <2>1. row' = [row EXCEPT ![g] = Canceled(row[g])] /\ StagingRemoved(g) /\ UNCHANGED <<calls, owed>>
    BY <1>6 DEF Cancel, history
  <2>2. Ended(row[g], Canceled(row[g]))
    BY <1>1, CanceledEnds
  <2>3. Canceled(row[g]).status # "running"
    BY <2>2 DEF Ended
  <2>4. QED
    BY <2>1, <2>2, <2>3, OneCalm
<1>7. CASE Discard(g)
  <2> DEFINE r == IF g \in Pending THEN Canceled(row[g]) ELSE row[g]
             s == [r EXCEPT !.discarded = TRUE, !.draft = NoDraft]
  <2>1. row' = [row EXCEPT ![g] = s] /\ StagingRemoved(g) /\ UNCHANGED <<calls, owed>>
    BY <1>7 DEF Discard, history
  <2>2. r \in Row /\ (r = row[g] \/ Ended(row[g], r)) /\ r.status # "running"
    <3>1. CASE g \in Pending
      <4>1. r = Canceled(row[g])
        BY <3>1
      <4>2. r \in Row /\ Ended(row[g], r)
        BY <1>1, <4>1, CanceledEnds
      <4>3. QED
        BY <4>2 DEF Ended
    <3>2. CASE g \notin Pending
      BY <1>1, <3>2 DEF Pending
    <3>3. QED
      BY <3>1, <3>2
  <2> HIDE DEF r
  <2>3. s.status = r.status /\ s.attempt = r.attempt /\ s.max = r.max
    BY <2>2 DEF Row, NoDraft
  <2> HIDE DEF s
  <2>4. (Alike(row[g], s) \/ Ended(row[g], s)) /\ s.status # "running"
    BY <2>2, <2>3 DEF Alike, Ended
  <2>5. QED
    BY <2>1, <2>4, OneCalm
<1>8. CASE Accept(g)
  BY <1>8, ImportCalm DEF Accept
<1>9. CASE DeleteAsset(g)
  <2> DEFINE s == [row[g] EXCEPT !.asset = FALSE]
  <2>1. row' = [row EXCEPT ![g] = s] /\ UNCHANGED <<calls, owed, staging>>
    BY <1>9 DEF DeleteAsset, history
  <2>2. Alike(row[g], s)
    BY <1>1, Copied
  <2> HIDE DEF s
  <2>3. QED
    BY <2>1, <2>2, OneCalm
<1>10. CASE DeleteProject(g)
  <2> DEFINE n == row[g].generation + 1
             s == [u EXCEPT !.status = "deleted", !.generation = n, !.draft = NoDraft,
                            !.asset = FALSE]
  <2>1. row' = [row EXCEPT ![g] = s] /\ StagingRemoved(g) /\ UNCHANGED <<calls, owed>>
    BY <1>10 DEF DeleteProject, history
  <2>2. n \in Nat
    BY <1>1 DEF Row
  <2> HIDE DEF u, n
  <2>3. s.status = "deleted" /\ s.attempt = u.attempt /\ s.max = u.max
    BY <1>2, <2>2 DEF Row, NoDraft
  <2> HIDE DEF s
  <2>4. Ended(row[g], s) /\ s.status # "running"
    BY <1>2, <2>3 DEF Ended
  <2>5. QED
    BY <2>1, <2>4, OneCalm
<1>11. QED
  BY <1>4, <1>5, <1>6, <1>7, <1>8, <1>9, <1>10 DEF Request

LEMMA WorkerCalm ==
  ASSUME CallInv, NEW w \in Workers,
         \/ \E bad \in BOOLEAN : FindResult(w, bad)
         \/ ConfirmOwnership(w) \/ WriteMarker(w) \/ AnswerImage(w) \/ PersistReady(w)
         \/ WriteDraft(w) \/ AfterSuccess(w) \/ AfterFenced(w) \/ AutoAccept(w) \/ DeferImport(w)
         \/ FindStagingOrphans(w) \/ CleanStaging(w) \/ CleanOutput(w)
  PROVE  \A f \in Generations : Calm(f)
<1> DEFINE g == work[w].id
           n == work[w].generation
<1>1. /\ TypeOK /\ row \in [Generations -> LeasedRow] /\ staging \in [Generations -> Files]
      /\ work \in [Workers -> Work] /\ NoFiles.submitted = {} /\ NoFiles.ready = {}
  BY Types DEF CallInv, ResultInv, DraftInv, NoFiles
<1>2. ASSUME work[w].at \in AttemptPoints \union {"importing"}
      PROVE  g \in Generations /\ row[g] \in Row /\ staging[g] \in Files
  BY <1>1, <1>2, WorkShape DEF LeasedRow, Attempt
<1>3. ASSUME UNCHANGED <<row, calls, owed, staging>> PROVE \A f \in Generations : Calm(f)
  BY <1>1, <1>3, SameCalm
<1>4. CASE ConfirmOwnership(w)
  <2>1. UNCHANGED <<calls, owed, staging>> /\ work[w].at = "unsent"
    BY <1>4 DEF ConfirmOwnership, history
  <2>2. CASE ~Owns(w)
    BY <1>3, <1>4, <2>1, <2>2 DEF ConfirmOwnership
  <2>3. CASE Owns(w)
    <3> DEFINE s == [row[g] EXCEPT !.lease = "live"]
    <3>1. row' = [row EXCEPT ![g] = s]
      BY <1>4, <2>3 DEF ConfirmOwnership
    <3>2. g \in Generations /\ Alike(row[g], s)
      BY <1>2, <2>1, Copied DEF AttemptPoints
    <3> HIDE DEF s, g
    <3>3. QED
      BY <1>1, <2>1, <3>1, <3>2, OneCalm
  <2>4. QED
    BY <2>2, <2>3
<1>5. CASE WriteMarker(w)
  <2> DEFINE e == [staging[g] EXCEPT !.submitted = @ \union {n}]
  <2>1. g \in Generations /\ staging[g] \in Files
    BY <1>2, <1>5 DEF WriteMarker, AttemptPoints
  <2>2. staging' = [staging EXCEPT ![g] = e] /\ UNCHANGED <<row, calls, owed>>
    BY <1>5 DEF WriteMarker, history
  <2>3. staging[g].submitted \subseteq e.submitted /\ staging[g].ready \subseteq e.ready
    BY <2>1 DEF Files
  <2> HIDE DEF e, g
  <2>4. QED
    BY <1>1, <2>2, <2>3, SameCalm
<1>6. CASE PersistReady(w)
  <2> DEFINE e == [staging[g] EXCEPT !.ready = @ \union {n}]
  <2>1. g \in Generations /\ staging[g] \in Files
    BY <1>2, <1>6 DEF PersistReady, AttemptPoints
  <2>2. staging' = [staging EXCEPT ![g] = e] /\ UNCHANGED <<row, calls, owed>>
    BY <1>6 DEF PersistReady, history
  <2>3. staging[g].submitted \subseteq e.submitted /\ staging[g].ready \subseteq e.ready
    BY <2>1 DEF Files
  <2> HIDE DEF e, g
  <2>4. QED
    BY <1>1, <2>2, <2>3, SameCalm
<1>7. CASE AfterSuccess(w)
  <2>1. staging' = [staging EXCEPT ![g] = NoFiles] /\ UNCHANGED <<row, calls, owed>>
        /\ work[w].at = "published"
    BY <1>7 DEF AfterSuccess, history
  <2>2. row[g].status \in {"succeeded", "deleted"}
    BY <2>1 DEF CallInv, ResultInv, PublishedSettled
  <2>3. QED
    BY <1>1, <2>1, <2>2, SameCalm
<1>8. CASE AfterFenced(w)
  <2>1. UNCHANGED <<row, calls, owed>> /\ work[w].at = "fenced"
    BY <1>8 DEF AfterFenced, history
  <2>2. CASE UNCHANGED staging
    BY <1>3, <2>1, <2>2
  <2>3. CASE ~UNCHANGED staging
    <3>1. staging' = [staging EXCEPT ![g] = NoFiles] /\ g \in Generations
      BY <1>2, <1>8, <2>1, <2>3 DEF AfterFenced, AttemptPoints
    <3>2. row[g].asset \/ row[g].discarded \/ row[g].status \in {"deleted", "succeeded", "canceled"}
      BY <1>8, <2>3 DEF AfterFenced
    <3>3. row[g].status # "running"
      BY <3>1, <3>2 DEF CallInv, ResultInv, DraftInv, Sound, OutcomesFinal, Pending
    <3>4. QED
      BY <1>1, <2>1, <3>1, <3>3, SameCalm
  <2>4. QED
    BY <2>2, <2>3
<1>9. CASE AutoAccept(w)
  BY <1>1, <1>9, WorkShape, ImportCalm DEF AutoAccept
<1>10. CASE DeferImport(w)
  <2> DEFINE s == Unleased(row[g])
  <2>1. /\ work[w].at = "importing" /\ UNCHANGED <<calls, owed, staging>>
        /\ \/ UNCHANGED row
           \/ row[g].status = "succeeded" /\ row' = [row EXCEPT ![g] = s]
    BY <1>10 DEF DeferImport, history
  <2>2. g \in Generations /\ (row[g].status # "running" => Alike(row[g], s))
    BY <1>2, <2>1, Copied
  <2> HIDE DEF s, g
  <2>3. QED
    BY <1>1, <1>3, <2>1, <2>2, OneCalm
<1>11. CASE CleanStaging(w)
  <2>1. /\ work[w].at = "cleanStaging" /\ UNCHANGED <<row, calls, owed>>
        /\ staging' = [f \in Generations |-> IF f \in work[w].doomed THEN NoFiles ELSE staging[f]]
    BY <1>11 DEF CleanStaging, history
  <2>2. \A f \in work[w].doomed : row[f].status # "running"
    BY <2>1 DEF CallInv, Informed
  <2>3. QED
    BY <1>1, <2>1, <2>2, SameCalm
<1>12. QED
  BY <1>3, <1>4, <1>5, <1>6, <1>7, <1>8, <1>9, <1>10, <1>11
     DEF FindResult, AnswerImage, WriteDraft, FindStagingOrphans, CleanOutput, history

LEMMA OtherCalm ==
  ASSUME CallInv,
         \/ \E g \in Generations : LeaseExpires(g) \/ RetentionEnds(g)
         \/ \E w \in Workers :
              \/ DiscardExpired(w) \/ RenewLease(w) \/ Unexpected(w) \/ Crash(w)
              \/ \E g \in Generations : ClaimImport(w, g)
         \/ UNCHANGED vars
  PROVE  \A f \in Generations : Calm(f)
<1>1. /\ TypeOK /\ row \in [Generations -> LeasedRow] /\ work \in [Workers -> Work]
  BY Types DEF CallInv, ResultInv, DraftInv
<1>2. ASSUME UNCHANGED <<row, calls, owed, staging>> PROVE \A f \in Generations : Calm(f)
  BY <1>1, <1>2, SameCalm
<1>3. ASSUME NEW g \in Generations, LeaseExpires(g) \/ RetentionEnds(g)
      PROVE  \A f \in Generations : Calm(f)
  <2> DEFINE s == [row[g] EXCEPT !.lease = "expired"]
             t == [row[g] EXCEPT !.expired = TRUE]
  <2>1. /\ row' = [row EXCEPT ![g] = s] \/ row' = [row EXCEPT ![g] = t]
        /\ UNCHANGED <<calls, owed, staging>>
    BY <1>3 DEF LeaseExpires, RetentionEnds, history
  <2>2. Alike(row[g], s) /\ Alike(row[g], t)
    BY <1>1, Copied DEF LeasedRow
  <2> HIDE DEF s, t
  <2>3. QED
    BY <1>1, <2>1, <2>2, OneCalm
<1>4. ASSUME NEW w \in Workers, RenewLease(w) PROVE \A f \in Generations : Calm(f)
  <2> DEFINE g == work[w].id
             s == [row[g] EXCEPT !.lease = "live"]
  <2>1. g \in Generations
    BY <1>1, <1>4, WorkShape DEF RenewLease, AttemptPoints, Attempt, FailingAttempt
  <2>2. row' = [row EXCEPT ![g] = s] /\ UNCHANGED <<calls, owed, staging>>
    BY <1>4 DEF RenewLease, history
  <2>3. Alike(row[g], s)
    BY <1>1, <2>1, Copied DEF LeasedRow
  <2> HIDE DEF s, g
  <2>4. QED
    BY <1>1, <2>1, <2>2, <2>3, OneCalm
<1>5. ASSUME NEW w \in Workers, NEW g \in Generations, ClaimImport(w, g)
      PROVE  \A f \in Generations : Calm(f)
  <2> DEFINE s == [row[g] EXCEPT !.owner = w, !.lease = "live"]
  <2>1. /\ row' = [row EXCEPT ![g] = s] /\ UNCHANGED <<calls, owed, staging>>
        /\ row[g].status # "running"
    BY <1>5 DEF ClaimImport, history
  <2>2. Alike(row[g], s)
    BY <1>1, <2>1, Copied DEF LeasedRow
  <2> HIDE DEF s
  <2>3. QED
    BY <1>1, <2>1, <2>2, OneCalm
<1>6. ASSUME NEW w \in Workers, DiscardExpired(w) PROVE \A f \in Generations : Calm(f)
  <2>1. UNCHANGED <<calls, owed, staging>>
    BY <1>6 DEF DiscardExpired, history
  <2> TAKE f \in Generations
  <2> DEFINE s == [row[f] EXCEPT !.discarded = TRUE, !.draft = NoDraft]
  <2>2. row'[f] = s \/ row'[f] = row[f]
    BY <1>6 DEF DiscardExpired
  <2>3. Alike(row[f], s) /\ Alike(row[f], row[f])
    BY <1>1, Copied DEF LeasedRow
  <2> HIDE DEF s
  <2>4. QED
    BY <2>1, <2>2, <2>3 DEF Calm
<1>7. QED
  BY <1>2, <1>3, <1>4, <1>5, <1>6 DEF Unexpected, Crash, vars, history

-----------------------------------------------------------------------------
(* What calm steps keep *)

LEMMA CalmAccounts ==
  ASSUME TypeOK, AttemptsCapped, NEW g \in Generations, Accounted(g), Calm(g)
  PROVE  Accounted(g)' /\ row'[g].attempt <= HardMaxAttempts /\ row'[g].max <= HardMaxAttempts
<1>1. row[g] \in Row /\ calls[g] \in Nat
  BY Types DEF LeasedRow
<1>2. row[g].attempt <= HardMaxAttempts /\ row[g].max <= HardMaxAttempts
  BY DEF AttemptsCapped
<1>3. CASE Ended(row[g], row'[g])
  BY <1>1, <1>2, <1>3 DEF Calm, Ended, Accounted
<1>4. CASE row[g].status \in {"absent", "failed"} /\ Queued(row[g], row'[g]) /\ ~owed'[g]
  BY <1>1, <1>2, <1>4 DEF Calm, Queued, Accounted
<1>5. CASE Alike(row[g], row'[g])
  <2>1. Unasked(g) => Unasked(g)'
    BY <1>5 DEF Calm, Alike, Unasked
  <2>2. row'[g].status = "running" /\ Answerable(g) => Answerable(g)'
    BY <1>5 DEF Calm, Alike, Answerable, Staged
  <2>3. QED
    BY <1>2, <1>5, <2>1, <2>2 DEF Calm, Alike, Accounted
<1>6. QED
  BY <1>3, <1>4, <1>5 DEF Calm

\* An execution that goes on, whatever happens around it.
LEMMA CalmClaim ==
  ASSUME TypeOK, NEW w \in Workers, Open(w), Informed(w),
         work'[w].id = work[w].id, work'[w].generation = work[w].generation,
         Calm(work[w].id)
  PROVE  /\ Owns(w)' \/ row'[work[w].id].status \in {"canceled", "deleted"}
         /\ Owns(w)' => /\ Owns(w)
                        /\ staging[work[w].id].submitted \subseteq staging'[work[w].id].submitted
                        /\ staging[work[w].id].ready \subseteq staging'[work[w].id].ready
         /\ Unasked(work[w].id) => Unasked(work[w].id)'
<1>1. Owns(w) \/ row[work[w].id].status \in {"canceled", "deleted"}
  BY DEF Informed
<1>2. Alike(row[work[w].id], row'[work[w].id]) \/ Ended(row[work[w].id], row'[work[w].id])
  BY <1>1 DEF Calm, Owns
<1>3. QED
  BY <1>1, <1>2 DEF Calm, Alike, Ended, Owns, Unasked

LEMMA RestInformed ==
  ASSUME CallInv, NEW w \in Workers, work'[w] = work[w], readFaults' = readFaults,
         \A f \in Generations : Calm(f)
  PROVE  Informed(w)'
<1> DEFINE g == work[w].id
<1>1. TypeOK /\ Informed(w) /\ work[w] \in Work /\ row \in [Generations -> LeasedRow]
  BY Types DEF CallInv, ResultInv, DraftInv
<1>2. CASE Open(w)
  <2>1. g \in Generations
    BY <1>1, <1>2, OpenTyped
  <2>2. /\ Owns(w)' \/ row'[g].status \in {"canceled", "deleted"}
        /\ Owns(w)' => /\ Owns(w)
                       /\ staging[g].submitted \subseteq staging'[g].submitted
                       /\ staging[g].ready \subseteq staging'[g].ready
        /\ Unasked(g) => Unasked(g)'
    BY <1>1, <1>2, <2>1, CalmClaim
  <2>3. (owed'[g] => owed[g]) /\ (Owns(w)' /\ Staged(g) => Staged(g)')
    BY <2>1, <2>2 DEF Calm, Staged
  <2>4. work[w].at # "cleanStaging"
    BY <1>2 DEF Open, OpenPoints
  <2>5. QED
    BY <1>1, <2>2, <2>3, <2>4 DEF Informed
<1>3. CASE ~Open(w)
  <2>1. ASSUME work[w].at = "cleanStaging", NEW f \in work[w].doomed
        PROVE  row'[f].status # "running"
    <3>1. f \in Generations /\ row[f].status # "running"
      BY <1>1, <2>1, WorkShape DEF Informed
    <3>2. QED
      BY <3>1 DEF Calm, Alike, Ended, Queued
  <2>2. Open(w)' = FALSE
    BY <1>3 DEF Open
  <2>3. work'[w].at \notin OpenPoints
    BY <2>2 DEF Open
  <2>4. QED
    BY <2>1, <2>2, <2>3 DEF Informed, OpenPoints
<1>4. QED
  BY <1>2, <1>3

\* Points of which nothing is asked.
LEMMA IdleInformed ==
  ASSUME NEW w \in Workers,
         work'[w].at \in {"idle", "importing", "published", "fenced", "findStaging", "cleanOutput"}
  PROVE  Informed(w)'
  BY DEF Informed, Open, OpenPoints

-----------------------------------------------------------------------------
(* What an execution knows after a step of its own *)

LEMMA StepInformed ==
  ASSUME CallInv, NEW w \in Workers, \A f \in Generations : Calm(f),
         \/ \E bad \in BOOLEAN : FindResult(w, bad)
         \/ ConfirmOwnership(w) \/ WriteMarker(w) \/ AnswerImage(w) \/ PersistReady(w)
         \/ WriteDraft(w)
  PROVE  Informed(w)'
<1> DEFINE g == work[w].id
           n == work[w].generation
<1>1. /\ TypeOK /\ row \in [Generations -> LeasedRow] /\ staging \in [Generations -> Files]
      /\ work \in [Workers -> Work] /\ Informed(w)
  BY Types DEF CallInv, ResultInv, DraftInv
<1>2. /\ work[w].at \in {"claimed", "unsent", "confirmed", "calling", "answered", "staged"}
      /\ work[w].at \in AttemptPoints /\ Open(w)
  BY DEF FindResult, ConfirmOwnership, WriteMarker, AnswerImage, PersistReady, WriteDraft,
         AttemptPoints, Open, OpenPoints
<1>3. g \in Generations /\ staging[g] \in Files
  BY <1>1, <1>2, OpenTyped
<1>4. CASE work' = [work EXCEPT ![w] = Idle]
  BY <1>1, <1>4, IdleInformed DEF Idle
<1>5. ASSUME NEW point \in {"unsent", "confirmed", "submitted", "answered", "staged", "drafted"},
             work' = Moved(w, point)
      PROVE  /\ work'[w].at = point /\ work'[w].id = g /\ work'[w].generation = n
             /\ Owns(w)' \/ row'[g].status \in {"canceled", "deleted"}
             /\ Owns(w)' => /\ Owns(w)
                            /\ staging[g].submitted \subseteq staging'[g].submitted
                            /\ staging[g].ready \subseteq staging'[g].ready
             /\ Unasked(g) => Unasked(g)'
  <2>1. work'[w].at = point /\ work'[w].id = g /\ work'[w].generation = n
    BY <1>1, <1>2, <1>5, MovedTyped DEF AttemptPoints
  <2>2. QED
    BY <1>1, <1>2, <1>3, <2>1, CalmClaim
<1>6. ASSUME NEW bad \in BOOLEAN, FindResult(w, bad) PROVE Informed(w)'
  <2>1. /\ UNCHANGED <<row, staging, owed, calls>> /\ work[w].at = "claimed"
        /\ bad => Staged(g) /\ readFaults < MaxReadFaults
    BY <1>6 DEF FindResult, history
  <2>2. CASE ~Owns(w)
    BY <1>4, <1>6, <2>2 DEF FindResult
  <2>3. CASE Owns(w) /\ Staged(g) /\ ~bad
    <3>1. work' = Moved(w, "staged")
      BY <1>6, <2>3 DEF FindResult
    <3>2. staging'[g].ready # {}
      BY <2>1, <2>3 DEF Staged
    <3>3. QED
      BY <1>5, <3>1, <3>2 DEF Informed, Staged
  <2>4. CASE Owns(w) /\ ~(Staged(g) /\ ~bad) /\ (work[w].reuse \/ n \in staging[g].submitted)
    <3>1. work' = Failing(w, "ambiguous")
      BY <1>6, <2>4 DEF FindResult
    <3>2. /\ work'[w].at = "failing" /\ work'[w].id = g /\ work'[w].generation = n
          /\ work'[w].failure = "ambiguous"
      BY <1>1, <1>2, <3>1, FailingTyped DEF Failing, Failures
    <3>3. Owns(w)'
      BY <2>1, <2>4, <3>2 DEF Owns
    <3>4. QED
      BY <3>2, <3>3 DEF Informed
  <2>5. CASE Owns(w) /\ ~(Staged(g) /\ ~bad) /\ ~(work[w].reuse \/ n \in staging[g].submitted)
    <3>1. work' = Moved(w, "unsent")
      BY <1>6, <2>5 DEF FindResult
    <3>2. Unasked(g) \/ (Staged(g) /\ readFaults >= MaxReadFaults)
      BY <1>1, <2>1, <2>5 DEF Informed
    <3>3. readFaults \in Nat /\ MaxReadFaults \in Nat
      BY <1>1, Types, ImageAssumption
    <3>4. Unasked(g)
      BY <2>1, <2>5, <3>2, <3>3
    <3>5. QED
      BY <1>5, <3>1, <3>4 DEF Informed
  <2>6. QED
    BY <2>2, <2>3, <2>4, <2>5
<1>7. CASE ConfirmOwnership(w)
  <2>1. work[w].at = "unsent" /\ (work' = Moved(w, "confirmed") \/ work' = [work EXCEPT ![w] = Idle])
    BY <1>7 DEF ConfirmOwnership
  <2>2. Unasked(g)
    BY <1>1, <2>1 DEF Informed
  <2>3. QED
    BY <1>4, <1>5, <2>1, <2>2 DEF Informed
<1>8. CASE WriteMarker(w)
  <2> DEFINE e == [staging[g] EXCEPT !.submitted = @ \union {n}]
  <2>1. work[w].at = "confirmed" /\ work' = Moved(w, "submitted")
        /\ staging' = [staging EXCEPT ![g] = e]
    BY <1>8 DEF WriteMarker
  <2>2. n \in e.submitted
    BY <1>3 DEF Files
  <2> HIDE DEF e
  <2>3. n \in staging'[g].submitted
    BY <1>1, <1>3, <2>1, <2>2
  <2>4. Unasked(g)
    BY <1>1, <2>1 DEF Informed
  <2>5. QED
    BY <1>5, <2>1, <2>3, <2>4 DEF Informed
<1>9. CASE AnswerImage(w)
  <2>1. work[w].at = "calling" /\ work' = Moved(w, "answered")
    BY <1>9 DEF AnswerImage
  <2>2. Owns(w) => n \in staging[g].submitted
    BY <1>1, <2>1 DEF Informed
  <2>3. QED
    BY <1>5, <2>1, <2>2 DEF Informed
<1>10. CASE PersistReady(w)
  <2> DEFINE e == [staging[g] EXCEPT !.ready = @ \union {n}]
  <2>1. work' = Moved(w, "staged") /\ staging' = [staging EXCEPT ![g] = e]
    BY <1>10 DEF PersistReady
  <2>2. n \in e.ready
    BY <1>3 DEF Files
  <2> HIDE DEF e
  <2>3. staging'[g].ready # {}
    BY <1>1, <1>3, <2>1, <2>2
  <2>4. QED
    BY <1>5, <2>1, <2>3 DEF Informed, Staged
<1>11. CASE WriteDraft(w)
  <2>1. work[w].at = "staged" /\ work' = Moved(w, "drafted") /\ UNCHANGED staging
    BY <1>11 DEF WriteDraft
  <2>2. Owns(w) => Staged(g)
    BY <1>1, <2>1 DEF Informed
  <2>3. QED
    BY <1>5, <2>1, <2>2 DEF Informed, Staged
<1>12. QED
  BY <1>6, <1>7, <1>8, <1>9, <1>10, <1>11

\* The request is sent: the attempt was not asked for before, and the marker tells of it.
LEMMA SendAccounted ==
  ASSUME CallInv, NEW w \in Workers, Send(w)
  PROVE  /\ \A g \in Generations : Accounted(g)'
         /\ Informed(w)'
         /\ UNCHANGED row
<1> DEFINE g == work[w].id
<1>1. /\ TypeOK /\ row \in [Generations -> LeasedRow] /\ work \in [Workers -> Work] /\ Informed(w)
      /\ calls \in [Generations -> Nat] /\ owed \in [Generations -> BOOLEAN]
  BY Types DEF CallInv, ResultInv, DraftInv
<1>2. /\ work[w].at = "submitted" /\ work' = Moved(w, "calling") /\ UNCHANGED <<row, staging>>
      /\ calls' = [calls EXCEPT ![g] = @ + 1] /\ owed' = [owed EXCEPT ![g] = TRUE]
  BY DEF Send
<1>3. work[w].at \in AttemptPoints /\ Open(w) /\ "calling" \in AttemptPoints
  BY <1>2 DEF AttemptPoints, Open, OpenPoints
<1>4. g \in Generations /\ row[g] \in Row
  BY <1>1, <1>3, OpenTyped DEF LeasedRow
<1>5. /\ Unasked(g) /\ (Owns(w) => work[w].generation \in staging[g].submitted)
      /\ Owns(w) \/ row[g].status \in {"canceled", "deleted"}
  BY <1>1, <1>2, <1>3 DEF Informed
<1>6. work'[w].at = "calling" /\ work'[w].id = g /\ work'[w].generation = work[w].generation
  BY <1>1, <1>2, <1>3, MovedTyped
<1>7. Owns(w)' <=> Owns(w)
  BY <1>2, <1>6 DEF Owns
<1>8. Informed(w)'
  BY <1>2, <1>5, <1>6, <1>7 DEF Informed
<1>9. ASSUME NEW f \in Generations, f # g PROVE Accounted(f)'
  <2>1. Accounted(f) /\ calls'[f] = calls[f] /\ owed'[f] = owed[f]
    BY <1>1, <1>2, <1>9 DEF CallInv
  <2>2. QED
    BY <1>2, <2>1 DEF Accounted, Unasked, Answerable, Staged
<1>10. ASSUME NEW f \in Generations, f = g PROVE Accounted(f)'
  <2>1. calls'[f] = calls[f] + 1 /\ calls[f] \in Nat /\ row[f].attempt \in Nat
    BY <1>1, <1>2, <1>4, <1>10 DEF Row
  <2>2. calls'[f] <= row[f].attempt
    BY <1>5, <1>10, <2>1 DEF Unasked
  <2>3. row[f].status = "running" => Answerable(f)'
    BY <1>2, <1>5, <1>10 DEF Owns, Answerable
  <2>4. row[g].status \notin {"absent", "queued"}
    BY <1>5 DEF Owns
  <2>5. QED
    BY <1>2, <1>10, <2>2, <2>3, <2>4 DEF Accounted
<1>11. QED
  BY <1>2, <1>8, <1>9, <1>10

LEMMA AnswerAccounted ==
  ASSUME CallInv, NEW w \in Workers, NEW failure \in Failures, AnswerFailure(w, failure)
  PROVE  /\ \A g \in Generations : Accounted(g)'
         /\ Informed(w)'
         /\ UNCHANGED row
<1> DEFINE g == work[w].id
<1>1. /\ TypeOK /\ row \in [Generations -> LeasedRow] /\ work \in [Workers -> Work] /\ Informed(w)
      /\ owed \in [Generations -> BOOLEAN]
  BY Types DEF CallInv, ResultInv, DraftInv
<1>2. /\ work[w].at = "calling" /\ work' = Failing(w, failure) /\ UNCHANGED <<row, staging, calls>>
      /\ owed' = [owed EXCEPT ![g] = failure # "retryable"]
  BY DEF AnswerFailure
<1>3. work[w].at \in AttemptPoints /\ Open(w)
  BY <1>2 DEF AttemptPoints, Open, OpenPoints
<1>4. g \in Generations
  BY <1>1, <1>3, OpenTyped
<1>5. /\ Owns(w) => work[w].generation \in staging[g].submitted
      /\ Owns(w) \/ row[g].status \in {"canceled", "deleted"}
  BY <1>1, <1>2, <1>3 DEF Informed
<1>6. /\ work'[w].at = "failing" /\ work'[w].id = g /\ work'[w].generation = work[w].generation
      /\ work'[w].failure = failure
  BY <1>1, <1>2, <1>3, FailingTyped DEF Failing
<1>7. Owns(w)' <=> Owns(w)
  BY <1>2, <1>6 DEF Owns
<1>8. owed'[g] <=> failure # "retryable"
  BY <1>1, <1>2, <1>4
<1>9. Informed(w)'
  BY <1>2, <1>5, <1>6, <1>7, <1>8 DEF Informed
<1>10. ASSUME NEW f \in Generations, f # g PROVE Accounted(f)'
  <2>1. Accounted(f) /\ owed'[f] = owed[f]
    BY <1>1, <1>2, <1>10 DEF CallInv
  <2>2. QED
    BY <1>2, <2>1 DEF Accounted, Unasked, Answerable, Staged
<1>11. ASSUME NEW f \in Generations, f = g PROVE Accounted(f)'
  <2>1. row[f].status = "running" => Answerable(f)'
    BY <1>2, <1>5, <1>11 DEF Owns, Answerable
  <2>2. row[f].status \notin {"absent", "queued"} /\ calls[f] <= row[f].attempt
    BY <1>5, <1>11 DEF Owns, CallInv, Accounted
  <2>3. QED
    BY <1>2, <2>1, <2>2 DEF Accounted
<1>12. QED
  BY <1>2, <1>9, <1>10, <1>11

\* An outcome is written to the row, or there is no row left to write it to.
LEMMA OutcomeAccounted ==
  ASSUME CallInv, NEW w \in Workers, ApplySuccess(w) \/ ApplyFailure(w)
  PROVE  /\ \A g \in Generations :
              /\ Accounted(g)'
              /\ row'[g].attempt <= HardMaxAttempts /\ row'[g].max <= HardMaxAttempts
         /\ Informed(w)'
<1> DEFINE g == work[w].id
           n == work[w].generation
           u == Unleased(row[g])
<1>1. /\ TypeOK /\ row \in [Generations -> LeasedRow] /\ work \in [Workers -> Work] /\ Informed(w)
      /\ staging \in [Generations -> Files] /\ AttemptsCapped /\ \A f \in Generations : Accounted(f)
  BY Types DEF CallInv, ResultInv, DraftInv
<1>2. Open(w) /\ work[w].at \in {"drafted", "failing"} /\ UNCHANGED <<calls, owed>>
  BY DEF Open, OpenPoints, ApplySuccess, ApplyFailure, history
<1>3. g \in Generations
  BY <1>1, <1>2, OpenTyped
<1>4. /\ row[g] \in Row /\ u \in Row /\ u.status = row[g].status
      /\ u.attempt = row[g].attempt /\ u.max = row[g].max
  BY <1>1, <1>3, Copied DEF LeasedRow
<1>5. Informed(w)'
  <2>1. work'[w].at \in {"published", "fenced", "idle"}
    <3>1. CASE ApplySuccess(w)
      <4>1. work' = Moved(w, "published") \/ work' = Moved(w, "fenced")
        BY <3>1 DEF ApplySuccess
      <4>2. work[w].at \in AttemptPoints
        BY <3>1 DEF ApplySuccess, AttemptPoints
      <4>3. QED
        BY <1>1, <4>1, <4>2, MovedTyped DEF AttemptPoints
    <3>2. CASE ApplyFailure(w)
      BY <1>1, <3>2 DEF ApplyFailure, Idle
    <3>3. QED
      BY <3>1, <3>2
  <2>2. QED
    BY <2>1, IdleInformed
<1>6. ASSUME \A f \in Generations : Calm(f)
      PROVE  \A f \in Generations :
               /\ Accounted(f)'
               /\ row'[f].attempt <= HardMaxAttempts /\ row'[f].max <= HardMaxAttempts
  BY <1>1, <1>6, CalmAccounts
<1>7. ASSUME ~Owns(w) PROVE \A f \in Generations : Calm(f)
  <2>1. row[g].status \in {"canceled", "deleted"} /\ UNCHANGED row
    BY <1>1, <1>2, <1>7 DEF Informed, ApplySuccess, ApplyFailure
  <2>2. \A f \in Generations : f # g => staging'[f] = staging[f]
    BY <1>1 DEF ApplySuccess, ApplyFailure
  <2>3. QED
    BY <1>1, <1>2, <2>1, <2>2, SameCalm
<1>8. ASSUME Owns(w), \A f \in Generations : f # g => row'[f] = row[f],
             row'[g].attempt = row[g].attempt, row'[g].max = row[g].max,
             \/ row'[g].status \in {"succeeded", "failed"}
             \/ row'[g].status = "queued" /\ ~owed[g]
      PROVE  \A f \in Generations :
               /\ Accounted(f)'
               /\ row'[f].attempt <= HardMaxAttempts /\ row'[f].max <= HardMaxAttempts
  <2>1. \A f \in Generations : f # g => staging'[f] = staging[f]
    BY <1>1 DEF ApplySuccess, ApplyFailure
  <2>2. ASSUME NEW f \in Generations, f # g
        PROVE  /\ Accounted(f)'
               /\ row'[f].attempt <= HardMaxAttempts /\ row'[f].max <= HardMaxAttempts
    <3>1. row'[f] = row[f] /\ staging'[f] = staging[f]
      BY <1>1, <1>8, <2>1, <2>2
    <3>2. Accounted(f) /\ row[f].attempt <= HardMaxAttempts /\ row[f].max <= HardMaxAttempts
      BY <1>1 DEF AttemptsCapped
    <3>3. QED
      BY <1>2, <3>1, <3>2 DEF Accounted, Unasked, Answerable, Staged
  <2>3. ASSUME NEW f \in Generations, f = g
        PROVE  /\ Accounted(f)'
               /\ row'[f].attempt <= HardMaxAttempts /\ row'[f].max <= HardMaxAttempts
    <3>1. calls[f] <= row[f].attempt
          /\ row[f].attempt <= HardMaxAttempts /\ row[f].max <= HardMaxAttempts
      BY <1>1, <1>8, <2>3 DEF Accounted, AttemptsCapped
    <3>2. QED
      BY <1>2, <1>8, <2>3, <3>1 DEF Accounted
  <2>4. QED
    BY <2>2, <2>3
<1>9. CASE ApplySuccess(w) /\ Owns(w)
  <2> DEFINE s == [u EXCEPT !.status = "succeeded", !.retryable = FALSE, !.draft = n,
                            !.expired = FALSE]
  <2>1. row' = [row EXCEPT ![g] = s]
    BY <1>9 DEF ApplySuccess
  <2> HIDE DEF u, n
  <2>2. s.status = "succeeded" /\ s.attempt = u.attempt /\ s.max = u.max
    BY <1>4 DEF Row, NoDraft
  <2> HIDE DEF s
  <2>3. row'[g] = s /\ \A f \in Generations : f # g => row'[f] = row[f]
    BY <1>1, <1>3, <2>1
  <2>4. QED
    BY <1>4, <1>5, <1>8, <1>9, <2>2, <2>3
<1>10. CASE ApplyFailure(w) /\ Owns(w)
  <2> DEFINE retryable == work[w].failure = "retryable"
             b == (retryable \/ Ambiguous(w)) /\ row[g].attempt < HardMaxAttempts
             q == [u EXCEPT !.status = "queued", !.retryable = TRUE]
             s == [u EXCEPT !.status = "failed", !.retryable = b]
             t == Failed(row[g], retryable, Ambiguous(w))
  <2>1. row' = [row EXCEPT ![g] = t] /\ work[w].at = "failing"
    BY <1>10 DEF ApplyFailure
  <2>2. (t = q /\ retryable) \/ t = s
    BY DEF Failed
  <2>3. b \in BOOLEAN /\ (retryable => ~owed[g])
    BY <1>1, <1>10, <2>1 DEF Informed
  <2> HIDE DEF u, b, t, retryable
  <2>4. /\ q.status = "queued" /\ q.attempt = u.attempt /\ q.max = u.max
        /\ s.status = "failed" /\ s.attempt = u.attempt /\ s.max = u.max
    BY <1>4, <2>3 DEF Row
  <2> HIDE DEF q, s
  <2>5. row'[g] = t /\ \A f \in Generations : f # g => row'[f] = row[f]
    BY <1>1, <1>3, <2>1
  <2>6. QED
    BY <1>4, <1>5, <1>8, <1>10, <2>2, <2>3, <2>4, <2>5
<1>11. QED
  BY <1>5, <1>6, <1>7, <1>9, <1>10

-----------------------------------------------------------------------------
(* Claims *)

LEMMA ClaimAccounted ==
  ASSUME CallInv, NEW w \in Workers, TakeWork(w), MaxReadFaults <= 1
  PROVE  /\ \A g \in Generations :
              /\ Accounted(g)'
              /\ row'[g].attempt <= HardMaxAttempts /\ row'[g].max <= HardMaxAttempts
         /\ Informed(w)'
<1>1. PICK passed, taken, bad \in SUBSET Generations : Claim(w, passed, taken, bad)
  BY DEF TakeWork
<1> DEFINE loaded == {g \in Candidates : Staged(g)} \ bad
           hopeless == Hopeless(loaded)
<1>2. /\ TypeOK /\ row \in [Generations -> LeasedRow] /\ work \in [Workers -> Work]
      /\ AttemptsCapped /\ \A f \in Generations : Accounted(f)
      /\ readFaults \in Nat /\ MaxReadFaults \in Nat /\ HardMaxAttempts \in Nat
      /\ calls \in [Generations -> Nat]
  BY Types, ImageAssumption DEF CallInv, ResultInv, DraftInv
<1>3. /\ passed \subseteq hopeless /\ taken \subseteq Candidates \ hopeless
      /\ Cardinality(taken) <= 1
      /\ bad \subseteq Candidates /\ \A f \in bad : Staged(f)
      /\ row' = [g \in Generations |-> CASE g \in passed -> Refused(row[g])
                                         [] g \in taken  -> Taken(w, g, loaded)
                                         [] OTHER        -> row[g]]
      /\ work' = [work EXCEPT ![w] =
                    IF taken = {} THEN Idle
                    ELSE LET g == CHOOSE g \in taken : TRUE
                         IN  [at |-> "claimed", id |-> g, reuse |-> g \in loaded,
                              generation |-> row[g].generation + 1]]
      /\ readFaults' = readFaults + Cardinality(bad)
      /\ UNCHANGED <<staging, calls, owed>>
  BY <1>1 DEF Claim, history
<1>4. /\ hopeless \subseteq Candidates
      /\ \A f \in Candidates \ hopeless :
           f \in loaded \/ (~SubmittedUnanswered(f)
                            /\ ~(row[f].status = "queued" /\ row[f].attempt >= row[f].max))
      /\ \A f \in Candidates : f \in loaded <=> Staged(f) /\ f \notin bad
      /\ loaded \subseteq Candidates
  BY DEF Hopeless
<1> HIDE DEF loaded, hopeless
<1>5. \A f \in bad : readFaults' >= MaxReadFaults
  <2> SUFFICES ASSUME bad # {} PROVE readFaults' >= MaxReadFaults
    OBVIOUS
  <2>1. IsFiniteSet(bad)
    BY <1>3, FS_Subset, ImageAssumption DEF Candidates
  <2>2. Cardinality(bad) \in Nat /\ Cardinality(bad) # 0
    BY <2>1, FS_CardinalityType, FS_EmptySet
  <2>3. QED
    BY <1>2, <1>3, <2>2
<1>6. ASSUME NEW g \in Candidates
      PROVE  /\ g \in Generations /\ row[g] \in Row /\ row[g].status \in {"queued", "running"}
             /\ row[g].generation \in Nat /\ row[g].attempt \in Nat /\ row[g].max \in Nat
             /\ calls[g] \in Nat
  BY <1>2 DEF Candidates, LeasedRow, Row
<1>7. ASSUME NEW g \in passed
      PROVE  /\ Accounted(g)'
             /\ row'[g].attempt <= HardMaxAttempts /\ row'[g].max <= HardMaxAttempts
  <2> DEFINE u == Unleased(row[g])
             n == IF row[g].status = "running" THEN row[g].generation + 1 ELSE row[g].generation
             b == row[g].attempt < HardMaxAttempts
             r == [u EXCEPT !.status = "failed", !.retryable = b, !.generation = n]
  <2>1. g \in Candidates /\ g \in Generations
    BY <1>3, <1>4, <1>6, <1>7
  <2>2. row'[g] = r
    BY <1>3, <1>7, <2>1 DEF Refused
  <2>3. u \in Row /\ u.attempt = row[g].attempt /\ u.max = row[g].max
    BY <1>6, <2>1, Copied
  <2>4. n \in Nat
    BY <1>6, <2>1
  <2> HIDE DEF u, n, b
  <2>5. r.status = "failed" /\ r.attempt = u.attempt /\ r.max = u.max
    BY <2>3, <2>4 DEF Row
  <2> HIDE DEF r
  <2>6. QED
    BY <1>2, <1>3, <2>1, <2>2, <2>3, <2>5 DEF Accounted, AttemptsCapped
<1>8. ASSUME NEW g \in taken
      PROVE  /\ row'[g].status = "running" /\ row'[g].owner = w
             /\ row'[g].generation = row[g].generation + 1
             /\ row'[g].max = row[g].max
             /\ row'[g].attempt = row[g].attempt + Spent(g, loaded)
             /\ Spent(g, loaded) \in {0, 1}
  <2> DEFINE n == row[g].generation + 1
             a == row[g].attempt + Spent(g, loaded)
             r == [row[g] EXCEPT !.status = "running", !.attempt = a, !.generation = n,
                                 !.owner = w, !.lease = "live", !.retryable = FALSE]
  <2>1. g \in Candidates /\ g \notin passed
    BY <1>3, <1>8
  <2>2. row'[g] = r
    BY <1>3, <1>6, <1>8, <2>1 DEF Taken
  <2>3. n \in Nat /\ a \in Nat /\ Spent(g, loaded) \in {0, 1}
    BY <1>6, <2>1 DEF Spent
  <2>4. row[g] \in Row
    BY <1>6, <2>1
  <2> HIDE DEF n, a
  <2>5. /\ r.status = "running" /\ r.generation = n /\ r.attempt = a /\ r.max = row[g].max
        /\ r.owner = w
    BY <2>4 DEF Row
  <2> HIDE DEF r
  <2>6. QED
    BY <2>2, <2>3, <2>5 DEF n, a
\* A row that is taken up without its result has an attempt that was not sent yet.
<1>9. ASSUME NEW g \in taken, g \notin loaded
      PROVE  Unasked(g)' \/ (Staged(g) /\ readFaults' >= MaxReadFaults)
  <2>1. g \in Candidates /\ ~SubmittedUnanswered(g)
        /\ ~(row[g].status = "queued" /\ row[g].attempt >= row[g].max)
    BY <1>3, <1>4, <1>9
  <2>2. CASE g \in bad
    BY <1>2, <1>3, <1>5, <2>2
  <2>3. CASE g \notin bad
    <3>1. ~Staged(g)
      BY <1>4, <1>9, <2>1, <2>3
    <3>2. CASE row[g].status = "queued"
      <4>1. ~owed[g] /\ calls[g] <= row[g].attempt /\ Spent(g, loaded) = 1
        BY <1>2, <1>6, <1>9, <2>1, <3>2 DEF Accounted, Spent
      <4>2. QED
        BY <1>3, <1>6, <1>8, <2>1, <4>1 DEF Unasked
    <3>3. CASE row[g].status = "running"
      <4>1. Unasked(g)
        BY <1>2, <1>6, <2>1, <3>1, <3>3 DEF Accounted, Answerable, SubmittedUnanswered
      <4>2. row'[g].attempt >= row[g].attempt
        BY <1>6, <1>8, <2>1
      <4>3. QED
        BY <1>3, <1>6, <1>8, <2>1, <4>1 DEF Unasked
    <3>4. QED
      BY <1>6, <2>1, <3>2, <3>3
  <2>4. QED
    BY <2>2, <2>3
<1>10. ASSUME NEW g \in taken
       PROVE  /\ Accounted(g)'
              /\ row'[g].attempt <= HardMaxAttempts /\ row'[g].max <= HardMaxAttempts
  <2>1. g \in Candidates /\ g \in Generations
    BY <1>3, <1>6, <1>10
  <2>2. row[g].attempt <= HardMaxAttempts /\ row[g].max <= HardMaxAttempts
        /\ calls[g] <= row[g].attempt
    BY <1>2, <2>1 DEF AttemptsCapped, Accounted
  <2>3. row'[g].attempt <= HardMaxAttempts
    <3>1. CASE Spent(g, loaded) = 0
      BY <1>6, <1>8, <2>1, <2>2, <3>1
    <3>2. CASE Spent(g, loaded) # 0
      <4>1. row[g].status = "queued" /\ g \notin loaded
        BY <3>2 DEF Spent
      <4>2. row[g].attempt < row[g].max
        BY <1>3, <1>4, <1>6, <1>10, <2>1, <4>1
      <4>3. QED
        BY <1>2, <1>6, <1>8, <2>1, <2>2, <4>2
    <3>3. QED
      BY <3>1, <3>2
  <2>4. calls[g] <= row'[g].attempt
    BY <1>6, <1>8, <2>1, <2>2
  <2>5. Unasked(g)' \/ Staged(g)
    BY <1>4, <1>9, <2>1
  <2>6. QED
    BY <1>3, <1>8, <2>2, <2>3, <2>4, <2>5 DEF Accounted, Answerable, Staged
<1>11. ASSUME NEW g \in Generations, g \notin passed, g \notin taken
       PROVE  /\ Accounted(g)'
              /\ row'[g].attempt <= HardMaxAttempts /\ row'[g].max <= HardMaxAttempts
  <2>1. row'[g] = row[g]
    BY <1>3, <1>11
  <2>2. QED
    BY <1>2, <1>3, <2>1 DEF Accounted, Unasked, Answerable, Staged, AttemptsCapped
<1>12. Informed(w)'
  <2>1. CASE taken = {}
    <3>1. work'[w].at = "idle"
      BY <1>2, <1>3, <2>1 DEF Idle
    <3>2. QED
      BY <3>1, IdleInformed
  <2>2. CASE taken # {}
    <3> DEFINE h == CHOOSE g \in taken : TRUE
               e == [at |-> "claimed", id |-> h, reuse |-> h \in loaded,
                     generation |-> row[h].generation + 1]
    <3>1. h \in taken
      BY <2>2
    <3>2. work' = [work EXCEPT ![w] = e]
      BY <1>3, <2>2
    <3>3. /\ e.at = "claimed" /\ e.id = h /\ e.generation = row[h].generation + 1
          /\ e.reuse = (h \in loaded)
      OBVIOUS
    <3> HIDE DEF e, h
    <3>4. work'[w] = e
      BY <1>2, <3>2
    <3>5. Owns(w)'
      BY <1>8, <3>1, <3>3, <3>4 DEF Owns
    <3>6. h \notin loaded => Unasked(h)' \/ (Staged(h) /\ readFaults' >= MaxReadFaults)
      BY <1>9, <3>1
    <3>7. QED
      BY <1>3, <3>3, <3>4, <3>5, <3>6 DEF Informed, Unasked, Staged
  <2>3. QED
    BY <2>1, <2>2
<1>13. QED
  BY <1>7, <1>10, <1>11, <1>12

-----------------------------------------------------------------------------
(* The invariant *)

LEMMA CallStep ==
  ASSUME CallInv, [Next]_vars, OneWorker, MaxReadFaults <= 1
  PROVE  CallInv'
<1>1. ResultInv'
  BY ResultStep DEF CallInv
<1>2. TypeOK /\ AttemptsCapped /\ work \in [Workers -> Work] /\ \A g \in Generations : Accounted(g)
  BY Types DEF CallInv, ResultInv, DraftInv
\* With one worker, what the step makes of it is all there is to show.
<1>3. ASSUME NEW w \in Workers, Informed(w)',
             \A g \in Generations :
               /\ Accounted(g)'
               /\ row'[g].attempt <= HardMaxAttempts /\ row'[g].max <= HardMaxAttempts
      PROVE  CallInv'
  <2>1. \A v \in Workers : Informed(v)'
    BY <1>3 DEF OneWorker
  <2>2. QED
    BY <1>1, <1>3, <2>1 DEF CallInv, AttemptsCapped
<1>4. ASSUME \A f \in Generations : Calm(f)
      PROVE  \A g \in Generations :
               /\ Accounted(g)'
               /\ row'[g].attempt <= HardMaxAttempts /\ row'[g].max <= HardMaxAttempts
  BY <1>2, <1>4, CalmAccounts
<1>5. ASSUME \A f \in Generations : Calm(f), UNCHANGED <<work, readFaults>> PROVE CallInv'
  <2>1. \A v \in Workers : Informed(v)'
    BY <1>5, RestInformed
  <2>2. QED
    BY <1>1, <1>4, <1>5, <2>1 DEF CallInv, AttemptsCapped
<1>6. ASSUME NEW g \in Generations, Request(g) PROVE CallInv'
  <2>1. UNCHANGED <<work, readFaults>>
    BY <1>6 DEF Request, Create, Retry, Cancel, Discard, Accept, DeleteAsset, DeleteProject, bounds
  <2>2. QED
    BY <1>2, <1>5, <1>6, <2>1, RequestCalm
<1>7. ASSUME NEW g \in Generations, LeaseExpires(g) \/ RetentionEnds(g) PROVE CallInv'
  <2>1. UNCHANGED <<work, readFaults>>
    BY <1>7 DEF LeaseExpires, RetentionEnds, bounds
  <2>2. QED
    BY <1>5, <1>7, <2>1, OtherCalm
<1>8. ASSUME NEW w \in Workers, RenewLease(w) PROVE CallInv'
  <2>1. UNCHANGED <<work, readFaults>>
    BY <1>8 DEF RenewLease, bounds
  <2>2. QED
    BY <1>5, <1>8, <2>1, OtherCalm
<1>9. ASSUME NEW w \in Workers,
             \/ DiscardExpired(w) \/ Crash(w)
             \/ \E g \in Generations : ClaimImport(w, g)
      PROVE  CallInv'
  <2>1. CASE DiscardExpired(w)
    <3>1. work'[w].at = "findStaging"
      BY <1>2, <2>1 DEF DiscardExpired
    <3>2. QED
      BY <1>3, <1>4, <2>1, <3>1, OtherCalm, IdleInformed
  <2>2. CASE Crash(w)
    <3>1. work'[w].at = "idle"
      BY <1>2, <2>2 DEF Crash, Idle
    <3>2. QED
      BY <1>3, <1>4, <2>2, <3>1, OtherCalm, IdleInformed
  <2>3. ASSUME NEW g \in Generations, ClaimImport(w, g) PROVE CallInv'
    <3>1. work'[w].at = "importing"
      BY <1>2, <2>3 DEF ClaimImport
    <3>2. QED
      BY <1>3, <1>4, <2>3, <3>1, OtherCalm, IdleInformed
  <2>4. QED
    BY <1>9, <2>1, <2>2, <2>3
<1>10. ASSUME NEW w \in Workers, Unexpected(w) PROVE CallInv'
  <2>1. \A f \in Generations : Calm(f)
    BY <1>10, OtherCalm
  <2>2. CASE work' = [work EXCEPT ![w] = Idle]
    <3>1. work'[w].at = "idle"
      BY <1>2, <2>2 DEF Idle
    <3>2. QED
      BY <1>3, <1>4, <2>1, <3>1, IdleInformed
  <2>3. CASE work' = Failing(w, "internal")
    <3>1. work[w].at \in AttemptPoints /\ Open(w) /\ "internal" \in Failures
      BY <1>10 DEF Unexpected, AttemptPoints, Open, OpenPoints, Failures
    <3>2. /\ work'[w].at = "failing" /\ work'[w].id = work[w].id
          /\ work'[w].generation = work[w].generation /\ work'[w].failure = "internal"
      BY <1>2, <2>3, <3>1, FailingTyped DEF Failing
    <3>3. Owns(w)' \/ row'[work[w].id].status \in {"canceled", "deleted"}
      BY <1>2, <2>1, <3>1, <3>2, OpenTyped, CalmClaim DEF CallInv
    <3>4. Informed(w)'
      BY <3>2, <3>3 DEF Informed
    <3>5. QED
      BY <1>3, <1>4, <2>1, <3>4
  <2>4. QED
    BY <1>10, <2>2, <2>3 DEF Unexpected
<1>11. ASSUME NEW w \in Workers,
              \/ AfterSuccess(w) \/ AfterFenced(w) \/ AutoAccept(w) \/ DeferImport(w)
              \/ CleanStaging(w) \/ CleanOutput(w)
       PROVE  CallInv'
  <2>1. work'[w].at \in {"idle", "importing", "cleanOutput"}
    BY <1>2, <1>11
       DEF AfterSuccess, AfterFenced, AutoAccept, DeferImport, CleanStaging, CleanOutput, Idle
  <2>2. QED
    BY <1>3, <1>4, <1>11, <2>1, WorkerCalm, IdleInformed
<1>12. ASSUME NEW w \in Workers, FindStagingOrphans(w) PROVE CallInv'
  <2> DEFINE doomed == {g \in Generations : staging[g] # NoFiles /\ Over(row[g])}
             e == [at |-> "cleanStaging", doomed |-> doomed]
  <2>1. work' = [work EXCEPT ![w] = e] /\ UNCHANGED row
    BY <1>12 DEF FindStagingOrphans
  <2>2. e.at = "cleanStaging" /\ e.doomed = doomed
    OBVIOUS
  <2>3. \A f \in doomed : row[f].status # "running"
    BY DEF Over, CallInv, ResultInv, DraftInv, Sound, OutcomesFinal, Pending
  <2> HIDE DEF e, doomed
  <2>4. work'[w] = e
    BY <1>2, <2>1
  <2>5. Informed(w)'
    BY <2>1, <2>2, <2>3, <2>4 DEF Informed, Open, OpenPoints
  <2>6. QED
    BY <1>3, <1>4, <1>12, <2>5, WorkerCalm
<1>13. ASSUME NEW w \in Workers,
              \/ \E bad \in BOOLEAN : FindResult(w, bad)
              \/ ConfirmOwnership(w) \/ WriteMarker(w) \/ AnswerImage(w) \/ PersistReady(w)
              \/ WriteDraft(w)
       PROVE  CallInv'
  <2>1. \A f \in Generations : Calm(f)
    BY <1>13, WorkerCalm
  <2>2. Informed(w)'
    BY <1>13, <2>1, StepInformed
  <2>3. QED
    BY <1>3, <1>4, <2>1, <2>2
<1>14. ASSUME NEW w \in Workers, Send(w) \/ \E failure \in Failures : AnswerFailure(w, failure)
       PROVE  CallInv'
  <2>1. Informed(w)' /\ UNCHANGED row /\ \A g \in Generations : Accounted(g)'
    BY <1>14, SendAccounted, AnswerAccounted
  <2>2. QED
    BY <1>2, <1>3, <2>1 DEF AttemptsCapped
<1>15. ASSUME NEW w \in Workers, ApplySuccess(w) \/ ApplyFailure(w) PROVE CallInv'
  BY <1>3, <1>15, OutcomeAccounted
<1>16. ASSUME NEW w \in Workers, TakeWork(w) PROVE CallInv'
  BY <1>3, <1>16, ClaimAccounted
<1>17. CASE UNCHANGED vars
  BY <1>5, <1>17, OtherCalm DEF vars, bounds
<1>18. QED
  BY <1>6, <1>7, <1>8, <1>9, <1>10, <1>11, <1>12, <1>13, <1>14, <1>15, <1>16, <1>17
     DEF Next, Execute

LEMMA CallInit == ASSUME Init PROVE CallInv
<1>1. ResultInv
  BY ResultInit
<1>2. \A g \in Generations :
        /\ row[g].status = "absent" /\ row[g].attempt = 0 /\ row[g].max = MaxAttempts
        /\ calls[g] = 0 /\ ~owed[g]
  <2> TAKE g \in Generations
  <2> DEFINE r == NewRow(FALSE)
             s == [r EXCEPT !.status = "absent"]
  <2>1. row[g] = s /\ calls[g] = 0 /\ ~owed[g]
    BY DEF Init
  <2>2. r.attempt = 0 /\ r.max = MaxAttempts /\ r \in Row
    BY NewRowTyped DEF NewRow, LeasedRow
  <2> HIDE DEF r
  <2>3. s.status = "absent" /\ s.attempt = 0 /\ s.max = MaxAttempts
    BY <2>2 DEF Row
  <2>4. QED
    BY <2>1, <2>3
<1>3. \A w \in Workers : work[w].at = "idle"
  BY DEF Init, Idle
<1>4. \A w \in Workers : Informed(w)
  BY <1>3 DEF Informed, Open, OpenPoints
<1>5. AttemptsCapped /\ \A g \in Generations : Accounted(g)
  BY <1>2, ImageAssumption DEF AttemptsCapped, Accounted
<1>6. QED
  BY <1>1, <1>4, <1>5 DEF CallInv

LEMMA CallsInvariant == ASSUME OneWorker, MaxReadFaults <= 1 PROVE Spec => []CallInv
<1>1. Init => CallInv
  BY CallInit
<1>2. CallInv /\ [Next]_vars => CallInv'
  BY CallStep
<1>3. QED
  BY <1>1, <1>2, PTL DEF Spec

\* Only a posted request is a call.
LEMMA CallsSent ==
  ASSUME [Next]_vars
  PROVE  UNCHANGED calls \/ \E w \in Workers : Send(w)
<1>1. ASSUME NEW g \in Generations, Request(g) \/ LeaseExpires(g) \/ RetentionEnds(g)
      PROVE  UNCHANGED calls
  BY <1>1 DEF Request, Create, Retry, Cancel, Discard, Accept, DeleteAsset, DeleteProject,
              LeaseExpires, RetentionEnds, history
<1>2. ASSUME NEW w \in Workers,
             \/ TakeWork(w) \/ DiscardExpired(w) \/ RenewLease(w) \/ Unexpected(w) \/ Crash(w)
             \/ \E g \in Generations : ClaimImport(w, g)
      PROVE  UNCHANGED calls
  BY <1>2 DEF TakeWork, Claim, DiscardExpired, RenewLease, Unexpected, Crash, ClaimImport, history
<1>3. ASSUME NEW w \in Workers, Execute(w) PROVE UNCHANGED calls \/ Send(w)
  BY <1>3
     DEF Execute, FindResult, ConfirmOwnership, WriteMarker, AnswerImage, AnswerFailure,
         PersistReady, WriteDraft, ApplySuccess, AfterSuccess, AfterFenced, ApplyFailure,
         AutoAccept, DeferImport, FindStagingOrphans, CleanStaging, CleanOutput, history
<1>4. CASE UNCHANGED vars
  BY <1>4 DEF vars
<1>5. QED
  BY <1>1, <1>2, <1>3, <1>4 DEF Next

\* With one worker, and at most one stored result that cannot be read, a generation never
\* costs more calls than attempts, and no more of these than the hard cap: image_worker.py
\* may crash, recover or be retried at any point.
THEOREM CallsStayWithinCap ==
  ASSUME OneWorker, MaxReadFaults <= 1
  PROVE  Spec => []CallsWithinCap
<1>1. CallInv => CallsWithinCap
  BY DEF CallInv, Accounted, AttemptsCapped, CallsWithinCap
<1>2. QED
  BY <1>1, CallsInvariant, PTL

\* Under the same conditions no call follows one that may have been charged, unless the
\* provider refused that one or a person retried the generation.
THEOREM NeverRepeatedSilently ==
  ASSUME OneWorker, MaxReadFaults <= 1
  PROVE  Spec => NoSilentRepeat
<1>1. ASSUME CallInv, [Next]_vars, NEW g \in Generations, calls'[g] > calls[g]
      PROVE  ~owed[g]
  <2>1. calls \in [Generations -> Nat]
    BY <1>1, Types DEF CallInv, ResultInv, DraftInv
  <2>2. ~UNCHANGED calls
    BY <1>1, <2>1
  <2>3. PICK w \in Workers : Send(w)
    BY <1>1, <2>2, CallsSent
  <2>4. work[w].id = g
    BY <1>1, <2>1, <2>3 DEF Send
  <2>5. QED
    BY <1>1, <2>3, <2>4 DEF Send, CallInv, Informed, Unasked
<1>2. CallInv /\ [Next]_vars => [\A g \in Generations : calls'[g] > calls[g] => ~owed[g]]_vars
  BY <1>1
<1>3. QED
  BY <1>2, CallsInvariant, PTL DEF Spec, NoSilentRepeat

-----------------------------------------------------------------------------
(* ImageGeneration implements PaidImage *)

\* A result was paid for, and a call that is on its way is owed for.
PaidPoints == {"calling", "answered", "staged", "drafted"}

CallsEvident ==
  /\ \A g \in Generations : Staged(g) => calls[g] > 0
  /\ \A w \in Workers :
       /\ work[w].at \in PaidPoints => calls[work[w].id] > 0
       /\ work[w].at = "calling" => owed[work[w].id]

PromiseInv == CallInv /\ CallsEvident

\* A worker comes to these points by a call, or by a result that is stored.
PaidBefore(w) ==
  /\ work'[w].at \in PaidPoints =>
       \/ work[w].at \in PaidPoints /\ work'[w].id = work[w].id
       \/ Staged(work'[w].id) /\ work'[w].id \in Generations
       \/ Send(w)
  /\ work'[w].at = "calling" => (work[w].at = "calling" /\ work'[w].id = work[w].id) \/ Send(w)

LEMMA SentOnce ==
  ASSUME TypeOK, NEW w \in Workers, Send(w)
  PROVE  /\ work[w].id \in Generations
         /\ work'[w].id = work[w].id /\ work'[w].at = "calling"
         /\ calls'[work[w].id] = calls[work[w].id] + 1 /\ owed'[work[w].id]
         /\ \A g \in Generations : g # work[w].id => calls'[g] = calls[g] /\ owed'[g] = owed[g]
<1>1. work[w].at \in AttemptPoints /\ Open(w) /\ work[w].id \in Generations
  BY OpenTyped DEF Send, AttemptPoints, Open, OpenPoints
<1>2. work' = Moved(w, "calling") /\ "calling" \in AttemptPoints
  BY DEF Send, AttemptPoints
<1>3. work'[w].id = work[w].id /\ work'[w].at = "calling"
  BY <1>1, <1>2, MovedTyped, Types
<1>4. QED
  BY <1>1, <1>3, Types DEF Send

LEMMA CallsGrow ==
  ASSUME TypeOK, [Next]_vars, NEW g \in Generations
  PROVE  calls[g] \in Nat /\ calls'[g] >= calls[g]
<1>1. calls[g] \in Nat
  BY Types
<1>2. CASE UNCHANGED calls
  BY <1>1, <1>2
<1>3. ASSUME NEW w \in Workers, Send(w) PROVE calls'[g] >= calls[g]
  BY <1>1, <1>3, SentOnce
<1>4. QED
  BY <1>1, <1>2, <1>3, CallsSent

LEMMA ExecutionPaid ==
  ASSUME TypeOK, NEW w \in Workers, Execute(w)
  PROVE  PaidBefore(w)
<1>1. work \in [Workers -> Work]
  BY Types
<1>2. ASSUME work'[w].at \notin PaidPoints PROVE PaidBefore(w)
  BY <1>2 DEF PaidBefore, PaidPoints
<1>3. ASSUME NEW bad \in BOOLEAN, FindResult(w, bad) PROVE PaidBefore(w)
  <2>1. work[w].at \in AttemptPoints /\ Open(w) /\ work[w].id \in Generations
    BY <1>3, OpenTyped DEF FindResult, AttemptPoints, Open, OpenPoints
  <2>2. CASE work' = [work EXCEPT ![w] = Idle]
    BY <1>1, <1>2, <2>2 DEF Idle, PaidPoints
  <2>3. CASE work' = Moved(w, "staged") /\ Staged(work[w].id)
    BY <1>1, <2>1, <2>3, MovedTyped DEF AttemptPoints, PaidBefore
  <2>4. CASE work' = Failing(w, "ambiguous")
    BY <1>1, <1>2, <2>1, <2>4, FailingTyped DEF Failures, PaidPoints
  <2>5. CASE work' = Moved(w, "unsent")
    BY <1>1, <1>2, <2>1, <2>5, MovedTyped DEF AttemptPoints, PaidPoints
  <2>6. QED
    BY <1>3, <2>2, <2>3, <2>4, <2>5 DEF FindResult
<1>4. ASSUME NEW from \in AttemptPoints, NEW to \in AttemptPoints,
             work[w].at = from, work' = Moved(w, to),
             to \in PaidPoints => from \in PaidPoints /\ to # "calling"
      PROVE  PaidBefore(w)
  BY <1>1, <1>4, MovedTyped DEF PaidBefore, PaidPoints
<1>5. CASE ConfirmOwnership(w)
  <2>1. CASE work' = [work EXCEPT ![w] = Idle]
    BY <1>1, <1>2, <2>1 DEF Idle, PaidPoints
  <2>2. CASE work' = Moved(w, "confirmed")
    BY <1>4, <1>5, <2>2 DEF ConfirmOwnership, AttemptPoints, PaidPoints
  <2>3. QED
    BY <1>5, <2>1, <2>2 DEF ConfirmOwnership
<1>6. CASE WriteMarker(w) \/ AnswerImage(w) \/ PersistReady(w) \/ WriteDraft(w) \/ ApplySuccess(w)
  BY <1>4, <1>6
     DEF WriteMarker, AnswerImage, PersistReady, WriteDraft, ApplySuccess, AttemptPoints, PaidPoints
<1>7. CASE Send(w)
  BY <1>7 DEF PaidBefore
<1>8. ASSUME NEW failure \in Failures, AnswerFailure(w, failure) PROVE PaidBefore(w)
  BY <1>1, <1>2, <1>8, FailingTyped DEF AnswerFailure, AttemptPoints, PaidPoints
<1>9. CASE \/ AfterSuccess(w) \/ AfterFenced(w) \/ ApplyFailure(w) \/ AutoAccept(w)
           \/ DeferImport(w) \/ FindStagingOrphans(w) \/ CleanStaging(w) \/ CleanOutput(w)
  <2>1. work'[w].at \in {"idle", "importing", "cleanStaging", "cleanOutput"}
    BY <1>1, <1>9
       DEF AfterSuccess, AfterFenced, ApplyFailure, AutoAccept, DeferImport, FindStagingOrphans,
           CleanStaging, CleanOutput, Idle
  <2>2. QED
    BY <1>2, <2>1 DEF PaidPoints
<1>10. QED
  BY <1>3, <1>5, <1>6, <1>7, <1>8, <1>9 DEF Execute

LEMMA StepPaid ==
  ASSUME TypeOK, OneWorker, [Next]_vars, NEW w \in Workers
  PROVE  PaidBefore(w)
<1>1. work \in [Workers -> Work]
  BY Types
<1>2. ASSUME work'[w] = work[w] PROVE PaidBefore(w)
  BY <1>2 DEF PaidBefore
<1>3. ASSUME work'[w].at \notin PaidPoints PROVE PaidBefore(w)
  BY <1>3 DEF PaidBefore, PaidPoints
<1>4. ASSUME NEW g \in Generations, Request(g) \/ LeaseExpires(g) \/ RetentionEnds(g)
      PROVE  PaidBefore(w)
  BY <1>2, <1>4 DEF Request, Create, Retry, Cancel, Discard, Accept, DeleteAsset, DeleteProject,
                    LeaseExpires, RetentionEnds
<1>5. CASE Execute(w)
  BY <1>5, ExecutionPaid
<1>6. CASE RenewLease(w) \/ UNCHANGED vars
  BY <1>2, <1>6 DEF RenewLease, vars
<1>7. CASE DiscardExpired(w) \/ Crash(w) \/ \E g \in Generations : ClaimImport(w, g)
  <2>1. CASE DiscardExpired(w)
    BY <1>1, <1>3, <2>1 DEF DiscardExpired, PaidPoints
  <2>2. CASE Crash(w)
    BY <1>1, <1>3, <2>2 DEF Crash, Idle, PaidPoints
  <2>3. ASSUME NEW g \in Generations, ClaimImport(w, g) PROVE PaidBefore(w)
    BY <1>1, <1>3, <2>3 DEF ClaimImport, PaidPoints
  <2>4. QED
    BY <1>7, <2>1, <2>2, <2>3
<1>8. CASE Unexpected(w)
  <2>1. work[w].at \in AttemptPoints
    BY <1>8 DEF Unexpected, AttemptPoints
  <2>2. work'[w].at \in {"idle", "failing"}
    BY <1>1, <1>8, <2>1, FailingTyped DEF Unexpected, Idle, Failures
  <2>3. QED
    BY <1>3, <2>2 DEF PaidPoints
<1>9. CASE TakeWork(w)
  <2>1. work'[w].at \in {"idle", "claimed"}
    BY <1>1, <1>9 DEF TakeWork, Claim, Idle
  <2>2. QED
    BY <1>3, <2>1 DEF PaidPoints
<1>10. \A v \in Workers : v = w
  BY DEF OneWorker
<1>11. QED
  BY <1>4, <1>5, <1>6, <1>7, <1>8, <1>9, <1>10 DEF Next

\* While a call is on its way nobody agrees to another one.
LEMMA OwedKept ==
  ASSUME CallInv, OneWorker, [Next]_vars, NEW w \in Workers,
         work[w].at = "calling", work'[w].at = "calling", owed[work[w].id]
  PROVE  owed'[work[w].id]
<1>1. work \in [Workers -> Work] /\ owed \in [Generations -> BOOLEAN] /\ Informed(w) /\ Open(w)
      /\ work[w].id \in Generations
  BY Types, OpenTyped DEF CallInv, ResultInv, DraftInv, Open, OpenPoints
<1>2. ASSUME UNCHANGED owed PROVE owed'[work[w].id]
  BY <1>2
<1>3. ASSUME NEW g \in Generations, Request(g) PROVE owed'[work[w].id]
  <2>1. CASE Retry(g)
    <3>1. row[g].status = "failed" /\ owed' = [owed EXCEPT ![g] = FALSE]
      BY <2>1 DEF Retry
    <3>2. work[w].id # g
      BY <1>1, <3>1 DEF Informed, Owns
    <3>3. QED
      BY <1>1, <3>1, <3>2
  <2>2. CASE ~Retry(g)
    BY <1>2, <1>3, <2>2
       DEF Request, Create, Cancel, Discard, Accept, DeleteAsset, DeleteProject, history
  <2>3. QED
    BY <2>1, <2>2
<1>4. ASSUME NEW g \in Generations, LeaseExpires(g) \/ RetentionEnds(g) PROVE owed'[work[w].id]
  BY <1>2, <1>4 DEF LeaseExpires, RetentionEnds, history
<1>5. CASE \/ RenewLease(w) \/ DiscardExpired(w) \/ Crash(w) \/ Unexpected(w) \/ TakeWork(w)
           \/ UNCHANGED vars \/ \E g \in Generations : ClaimImport(w, g)
  BY <1>2, <1>5
     DEF RenewLease, DiscardExpired, Crash, Unexpected, TakeWork, Claim, ClaimImport, vars, history
<1>6. CASE Execute(w)
  <2>1. ASSUME NEW failure \in Failures, AnswerFailure(w, failure) PROVE FALSE
    <3>1. work[w].at \in AttemptPoints
      BY <1>1, <2>1 DEF AnswerFailure, AttemptPoints
    <3>2. work'[w].at = "failing"
      BY <1>1, <2>1, <3>1, FailingTyped DEF AnswerFailure
    <3>3. QED
      BY <3>2
  <2>2. ~Send(w)
    BY DEF Send
  <2>3. UNCHANGED owed
    BY <1>6, <2>1, <2>2
       DEF Execute, FindResult, ConfirmOwnership, WriteMarker, AnswerImage,
           PersistReady, WriteDraft, ApplySuccess, AfterSuccess, AfterFenced, ApplyFailure,
           AutoAccept, DeferImport, FindStagingOrphans, CleanStaging, CleanOutput, history
  <2>4. QED
    BY <1>2, <2>3
<1>7. \A v \in Workers : v = w
  BY DEF OneWorker
<1>8. QED
  BY <1>3, <1>4, <1>5, <1>6, <1>7 DEF Next

LEMMA EvidentStep ==
  ASSUME PromiseInv, OneWorker, [Next]_vars
  PROVE  CallsEvident'
<1>1. CallInv /\ TypeOK /\ DraftInv /\ CallsEvident /\ work \in [Workers -> Work]
  BY Types DEF PromiseInv, CallInv, ResultInv, DraftInv
<1>2. \A g \in Generations : calls[g] \in Nat /\ calls[g] > 0 => calls'[g] > 0
  <2> TAKE g \in Generations
  <2>1. TypeOK' /\ calls[g] \in Nat /\ calls'[g] >= calls[g]
    BY <1>1, CallsGrow, TypeStep
  <2>2. calls'[g] \in Nat
    BY <2>1 DEF TypeOK
  <2>3. QED
    BY <2>1, <2>2
<1>3. ASSUME NEW g \in Generations, Staged(g)' PROVE calls'[g] > 0
  <2>1. CASE Staged(g)
    BY <1>1, <1>2, <2>1, Types DEF CallsEvident
  <2>2. CASE ~Staged(g)
    <3>1. ~NothingStored
      BY <1>3, <2>2 DEF NothingStored, Staged
    <3>2. PICK w \in Workers : PersistReady(w)
      BY <1>1, <3>1, NextStores
    <3>3. \A n \in staging'[g].ready : n \in staging[g].ready \/ g = work[w].id
      BY <1>1, <3>2, StoreEffect
    <3>4. g = work[w].id
      BY <1>3, <2>2, <3>3 DEF Staged
    <3>5. calls[g] > 0
      BY <1>1, <3>2, <3>4 DEF PersistReady, CallsEvident, PaidPoints
    <3>6. QED
      BY <1>1, <1>2, <3>5, Types
  <2>3. QED
    BY <2>1, <2>2
<1>4. ASSUME NEW w \in Workers, work'[w].at \in PaidPoints PROVE calls'[work'[w].id] > 0
  <2>1. CASE work[w].at \in PaidPoints /\ work'[w].id = work[w].id
    <3>1. work[w].id \in Generations
      BY <1>1, <2>1, OpenTyped DEF Open, OpenPoints, PaidPoints
    <3>2. QED
      BY <1>1, <1>2, <2>1, <3>1, Types DEF CallsEvident
  <2>2. CASE Staged(work'[w].id) /\ work'[w].id \in Generations
    BY <1>1, <1>2, <2>2, Types DEF CallsEvident
  <2>3. CASE Send(w)
    <3>1. work[w].id \in Generations /\ calls[work[w].id] \in Nat
      BY <1>1, <2>3, SentOnce, Types
    <3>2. QED
      BY <1>1, <2>3, <3>1, SentOnce
  <2>4. QED
    BY <1>1, <1>4, <2>1, <2>2, <2>3, StepPaid DEF PaidBefore
<1>5. ASSUME NEW w \in Workers, work'[w].at = "calling" PROVE owed'[work'[w].id]
  <2>1. CASE work[w].at = "calling" /\ work'[w].id = work[w].id
    BY <1>1, <1>5, <2>1, OwedKept DEF CallsEvident
  <2>2. CASE Send(w)
    BY <1>1, <2>2, SentOnce
  <2>3. QED
    BY <1>1, <1>5, <2>1, <2>2, StepPaid DEF PaidBefore
<1>6. QED
  BY <1>3, <1>4, <1>5 DEF CallsEvident

-----------------------------------------------------------------------------
(* What a step makes of a row, as far as its owner can tell *)

Steps(g) == [Promised(g)!Next]_(Promised(g)!vars)

\* The outcome changes the way it may change without a call being sent or waived.
Turns(g) ==
  LET old == Outcome(row[g])
      new == Outcome(row'[g])
  IN  \/ new = old /\ imports'[g] = imports[g]
      \/ old = "none" /\ new = "pending" /\ imports'[g] = imports[g]
      \/ old # "none" /\ new = "over" /\ imports'[g] = imports[g]
      \/ old = "ready" /\ new = "imported" /\ imports'[g] = imports[g] + 1

\* The same, for an execution that may also give up or deliver.
Ends(g) ==
  LET old == Outcome(row[g])
      new == Outcome(row'[g])
  IN  /\ imports'[g] = imports[g] /\ Account(g) # "sending"
      /\ old = "pending" /\ (new = "failed" \/ (new = "ready" /\ calls[g] > 0))

LEMMA TurnsStep ==
  ASSUME NEW g \in Generations, Turns(g), UNCHANGED <<calls[g], Account(g)>>
  PROVE  Steps(g)
<1> DEFINE old == Outcome(row[g])
           new == Outcome(row'[g])
<1>1. CASE new = old /\ imports'[g] = imports[g]
  BY <1>1 DEF Steps, Promised!vars
<1>2. CASE old = "none" /\ new = "pending" /\ imports'[g] = imports[g]
  BY <1>2 DEF Steps, Promised!Next, Promised!Request
<1>3. CASE old \notin {"none", "over"} /\ new = "over" /\ imports'[g] = imports[g]
  BY <1>3 DEF Steps, Promised!Next, Promised!Withdraw
<1>4. CASE old = "ready" /\ new = "imported" /\ imports'[g] = imports[g] + 1
  BY <1>4 DEF Steps, Promised!Next, Promised!Import
<1>5. QED
  BY <1>1, <1>2, <1>3, <1>4 DEF Turns

LEMMA EndsStep ==
  ASSUME NEW g \in Generations, Ends(g), UNCHANGED <<calls[g], Account(g)>>
  PROVE  Steps(g)
<1>1. CASE Outcome(row'[g]) = "failed"
  BY <1>1 DEF Ends, Steps, Promised!Next, Promised!GiveUp
<1>2. CASE Outcome(row'[g]) = "ready" /\ calls[g] > 0
  BY <1>2 DEF Ends, Steps, Promised!Next, Promised!Deliver
<1>3. QED
  BY <1>1, <1>2 DEF Ends

\* Nothing of a row that its owner could tell.
LEMMA OutcomesSame ==
  ASSUME NEW r \in Row
  PROVE  /\ Outcome(Unleased(r)) = Outcome(r)
         /\ Outcome([r EXCEPT !.lease = "live"]) = Outcome(r)
         /\ Outcome([r EXCEPT !.lease = "expired"]) = Outcome(r)
         /\ Outcome([r EXCEPT !.expired = TRUE]) = Outcome(r)
         /\ Outcome([r EXCEPT !.asset = FALSE]) = Outcome(r)
         /\ \A w : Outcome([r EXCEPT !.owner = w, !.lease = "live"]) = Outcome(r)
  BY DEF Row, Unleased, Outcome

LEMMA OutcomeCases ==
  ASSUME NEW r \in Row
  PROVE  /\ Outcome(r) \in {"none", "pending", "ready", "imported", "failed", "over"}
         /\ Outcome(r) = "none" <=> r.status = "absent"
         /\ Outcome(r) = "pending" <=> r.status \in {"queued", "running"}
         /\ r.status \in {"canceled", "deleted"} => Outcome(r) = "over"
         /\ r.discarded /\ r.status \notin {"absent", "queued", "running"} => Outcome(r) = "over"
         /\ r.status = "failed" /\ ~r.discarded => Outcome(r) = "failed"
         /\ r.status = "succeeded" /\ ~r.discarded =>
              Outcome(r) = IF r.draft # NoDraft THEN "ready" ELSE "imported"
  BY DEF Row, Outcome

\* One row changes.
LEMMA OneTurns ==
  ASSUME TypeOK, NEW g \in Generations, NEW s, row' = [row EXCEPT ![g] = s],
         \A f \in Generations : f # g => imports'[f] = imports[f],
         row'[g] = s => Turns(g)
  PROVE  \A f \in Generations : Turns(f)
<1>1. row \in [Generations -> LeasedRow]
  BY Types
<1>2. row'[g] = s /\ \A f \in Generations : f # g => row'[f] = row[f]
  BY <1>1
<1>3. QED
  BY <1>2 DEF Turns

LEMMA SameTurns ==
  ASSUME TypeOK, UNCHANGED <<row, imports>>
  PROVE  \A f \in Generations : Turns(f)
  BY DEF Turns

LEMMA LeaseTurns ==
  ASSUME TypeOK, NEW g \in Generations, UNCHANGED imports, NEW w,
         \/ row' = [row EXCEPT ![g] = Unleased(@)]
         \/ row' = [row EXCEPT ![g].lease = "live"]
         \/ row' = [row EXCEPT ![g].lease = "expired"]
         \/ row' = [row EXCEPT ![g].expired = TRUE]
         \/ row' = [row EXCEPT ![g].asset = FALSE]
         \/ row' = [row EXCEPT ![g].owner = w, ![g].lease = "live"]
  PROVE  \A f \in Generations : Turns(f)
<1>1. row \in [Generations -> LeasedRow] /\ row[g] \in Row
  BY Types DEF LeasedRow
<1>2. ASSUME NEW s, row' = [row EXCEPT ![g] = s], Outcome(s) = Outcome(row[g])
      PROVE  \A f \in Generations : Turns(f)
  BY <1>2, OneTurns DEF Turns
<1>3. QED
  BY <1>1, <1>2, OutcomesSame

LEMMA ImportTurns ==
  ASSUME DraftInv, NEW g \in Generations, Imported(g)
  PROVE  \A f \in Generations : Turns(f)
<1> DEFINE u == Unleased(row[g])
           s == [u EXCEPT !.asset = TRUE, !.draft = NoDraft]
<1>1. TypeOK /\ row[g] \in Row /\ u \in Row /\ row[g].draft \in Nat
  BY Types, Copied DEF DraftInv, LeasedRow, Row
<1>2. /\ row' = [row EXCEPT ![g] = s] /\ imports' = [imports EXCEPT ![g] = @ + 1]
      /\ row[g].status = "succeeded" /\ ~row[g].discarded /\ row[g].draft # NoDraft
  BY DEF Imported, Acceptable, DraftInv, WrittenDrafts
<1>3. u.status = row[g].status /\ u.discarded = row[g].discarded
  BY <1>1, RequestedRows
<1> HIDE DEF u
<1>4. s.status = u.status /\ s.discarded = u.discarded /\ s.draft = NoDraft
  BY <1>1 DEF Row, NoDraft
<1> HIDE DEF s
<1>5. Outcome(row[g]) = "ready" /\ Outcome(s) = "imported"
  BY <1>2, <1>3, <1>4 DEF Outcome
<1>6. imports'[g] = imports[g] + 1 /\ \A f \in Generations : f # g => imports'[f] = imports[f]
  BY <1>1, <1>2, Types
<1>7. QED
  BY <1>1, <1>2, <1>5, <1>6, OneTurns DEF Turns

LEMMA DiscardedOutcome ==
  ASSUME NEW r \in Row, r.status \notin {"absent", "queued", "running"}
  PROVE  Outcome([r EXCEPT !.discarded = TRUE, !.draft = NoDraft]) = "over"
<1> DEFINE s == [r EXCEPT !.discarded = TRUE, !.draft = NoDraft]
<1>1. s.status = r.status /\ s.discarded
  BY DEF Row, NoDraft
<1>2. QED
  BY <1>1 DEF Outcome

\* One row is withdrawn.
LEMMA OverTurns ==
  ASSUME TypeOK, NEW g \in Generations, NEW s, row' = [row EXCEPT ![g] = s], UNCHANGED imports,
         Outcome(row[g]) # "none", Outcome(s) = "over"
  PROVE  \A f \in Generations : Turns(f)
<1>1. row'[g] = s => Turns(g)
  BY DEF Turns
<1>2. QED
  BY <1>1, OneTurns

\* The requests but a retry, which also settles the account.
LEMMA RequestTurns ==
  ASSUME DraftInv, NEW g \in Generations, Request(g), ~Retry(g)
  PROVE  (\A f \in Generations : Turns(f)) /\ UNCHANGED <<work, calls, owed>>
<1> DEFINE u == Unleased(row[g])
<1>1. TypeOK /\ row[g] \in Row /\ u \in Row /\ u.status = row[g].status
  BY Types, Copied DEF DraftInv, LeasedRow
<1>2. UNCHANGED <<work, calls, owed>>
  BY DEF Request, Create, Cancel, Discard, Accept, DeleteAsset, DeleteProject, history
<1>3. ASSUME NEW auto \in BOOLEAN, Create(g, auto) PROVE \A f \in Generations : Turns(f)
  <2>1. row' = [row EXCEPT ![g] = NewRow(auto)] /\ row[g].status = "absent" /\ UNCHANGED imports
    BY <1>3 DEF Create, history
  <2>2. NewRow(auto).status = "queued"
    BY DEF NewRow
  <2>3. Outcome(row[g]) = "none" /\ Outcome(NewRow(auto)) = "pending"
    BY <2>1, <2>2 DEF Outcome
  <2>4. QED
    BY <1>1, <2>1, <2>3, OneTurns DEF Turns
<1>4. CASE Cancel(g)
  <2>1. row' = [row EXCEPT ![g] = Canceled(row[g])] /\ g \in Pending /\ UNCHANGED imports
    BY <1>4 DEF Cancel, history
  <2>2. Canceled(row[g]).status = "canceled" /\ row[g].status # "absent"
    BY <1>1, <2>1, RequestedRows DEF Pending
  <2>3. Outcome(row[g]) # "none" /\ Outcome(Canceled(row[g])) = "over"
    BY <1>1, <2>2, OutcomeCases DEF Outcome
  <2>4. QED
    BY <1>1, <1>2, <2>1, <2>3, OverTurns
<1>5. CASE Discard(g)
  <2> DEFINE r == IF g \in Pending THEN Canceled(row[g]) ELSE row[g]
             s == [r EXCEPT !.discarded = TRUE, !.draft = NoDraft]
  <2>1. row' = [row EXCEPT ![g] = s] /\ UNCHANGED imports /\ row[g].status # "absent"
    BY <1>5 DEF Discard, Discardable, history
  <2>2. r \in Row /\ r.status \notin {"absent", "queued", "running"}
    <3>1. CASE g \in Pending
      BY <1>1, <3>1, CanceledEnds, RequestedRows
    <3>2. CASE g \notin Pending
      BY <1>1, <2>1, <3>2 DEF Pending
    <3>3. QED
      BY <3>1, <3>2
  <2> HIDE DEF r
  <2>3. Outcome(row[g]) # "none" /\ Outcome(s) = "over"
    BY <1>1, <2>1, <2>2, OutcomeCases, DiscardedOutcome
  <2> HIDE DEF s
  <2>4. QED
    BY <1>1, <1>2, <2>1, <2>3, OverTurns
<1>6. CASE Accept(g)
  BY <1>2, <1>6, ImportTurns DEF Accept
<1>7. CASE DeleteAsset(g)
  BY <1>1, <1>2, <1>7, LeaseTurns DEF DeleteAsset, history
<1>8. CASE DeleteProject(g)
  <2> DEFINE n == row[g].generation + 1
             s == [u EXCEPT !.status = "deleted", !.generation = n, !.draft = NoDraft,
                            !.asset = FALSE]
  <2>1. row' = [row EXCEPT ![g] = s] /\ row[g].status # "absent" /\ UNCHANGED imports
    BY <1>8 DEF DeleteProject, history
  <2> HIDE DEF u, n
  <2>2. s.status = "deleted"
    BY <1>1 DEF Row, NoDraft
  <2> HIDE DEF s
  <2>3. Outcome(row[g]) # "none" /\ Outcome(s) = "over"
    BY <1>1, <2>1, <2>2, OutcomeCases DEF Outcome
  <2>4. QED
    BY <1>1, <1>2, <2>1, <2>3, OverTurns
<1>9. QED
  BY <1>2, <1>3, <1>4, <1>5, <1>6, <1>7, <1>8 DEF Request

LEMMA SweepTurns ==
  ASSUME DraftInv, NEW w \in Workers, DiscardExpired(w)
  PROVE  \A f \in Generations : Turns(f)
<1> TAKE f \in Generations
<1>1. row[f] \in Row
  BY Types DEF DraftInv, LeasedRow
<1>2. /\ UNCHANGED imports
      /\ row'[f] = IF Retired(f) THEN [row[f] EXCEPT !.discarded = TRUE, !.draft = NoDraft]
                   ELSE row[f]
  BY DEF DiscardExpired, history
<1>3. CASE Retired(f)
  <2>1. row[f].status \notin {"absent", "queued", "running"}
    BY <1>3 DEF Retired, Finished
  <2>2. QED
    BY <1>1, <1>2, <1>3, <2>1, OutcomeCases, DiscardedOutcome DEF Turns
<1>4. CASE ~Retired(f)
  BY <1>2, <1>4 DEF Turns
<1>5. QED
  BY <1>3, <1>4

-----------------------------------------------------------------------------
(* What a step makes of the account *)

SendPoints == {"confirmed", "submitted"}

\* With one worker, what it does is all there is to ask.
LEMMA AccountOf ==
  ASSUME OneWorker, NEW w \in Workers, NEW g \in Generations
  PROVE  /\ Account(g) = IF owed[g] THEN "owed"
                         ELSE IF work[w].at \in SendPoints /\ work[w].id = g THEN "sending"
                         ELSE "free"
         /\ Account(g)' = IF owed'[g] THEN "owed"
                          ELSE IF work'[w].at \in SendPoints /\ work'[w].id = g THEN "sending"
                          ELSE "free"
<1>1. AboutToSend(g) <=> work[w].at \in SendPoints /\ work[w].id = g
  BY DEF OneWorker, AboutToSend, SendPoints
<1>2. AboutToSend(g)' <=> work'[w].at \in SendPoints /\ work'[w].id = g
  BY DEF OneWorker, AboutToSend, SendPoints
<1>3. QED
  BY <1>1, <1>2 DEF Account

LEMMA QuietAccount ==
  ASSUME OneWorker, NEW w \in Workers, UNCHANGED owed,
         work[w].at \notin SendPoints, work'[w].at \notin SendPoints
  PROVE  \A g \in Generations : UNCHANGED Account(g) /\ Account(g) # "sending"
  BY AccountOf

LEMMA IdleAccount ==
  ASSUME UNCHANGED <<work, owed>>
  PROVE  \A g \in Generations : UNCHANGED Account(g)
  BY DEF Account, AboutToSend

\* A step that changes the outcomes only.
LEMMA TurnsPromised ==
  ASSUME \A g \in Generations : Turns(g) /\ UNCHANGED Account(g), UNCHANGED calls
  PROVE  \A g \in Generations : Steps(g)
  BY TurnsStep

-----------------------------------------------------------------------------
(* The steps *)

LEMMA RequestPromised ==
  ASSUME PromiseInv, OneWorker, NEW g \in Generations, Request(g)
  PROVE  \A f \in Generations : Steps(f)
<1>1. CallInv /\ DraftInv /\ TypeOK /\ row \in [Generations -> LeasedRow] /\ row[g] \in Row
      /\ owed \in [Generations -> BOOLEAN] /\ work \in [Workers -> Work]
  BY Types DEF PromiseInv, CallInv, ResultInv, DraftInv, LeasedRow
<1>2. CASE ~Retry(g)
  <2>1. (\A f \in Generations : Turns(f)) /\ UNCHANGED <<work, calls, owed>>
    BY <1>1, <1>2, RequestTurns
  <2>2. QED
    BY <2>1, IdleAccount, TurnsPromised
<1>3. CASE Retry(g)
  <2> DEFINE u == Unleased(row[g])
             limit == IF row[g].max > row[g].attempt + 1 THEN row[g].max ELSE row[g].attempt + 1
             m == IF limit < HardMaxAttempts THEN limit ELSE HardMaxAttempts
             s == [u EXCEPT !.status = "queued", !.max = m]
  <2>1. /\ row' = [row EXCEPT ![g] = s] /\ row[g].status = "failed" /\ ~row[g].discarded
        /\ owed' = [owed EXCEPT ![g] = FALSE] /\ UNCHANGED <<calls, imports, work>>
    BY <1>3 DEF Retry
  <2>2. u \in Row
    BY <1>1, Copied
  <2> HIDE DEF m, u
  <2>3. s.status = "queued"
    BY <2>2 DEF Row
  <2> HIDE DEF s
  <2>4. row'[g] = s /\ ~owed'[g] /\ Outcome(row[g]) = "failed" /\ Outcome(s) = "pending"
    BY <1>1, <2>1, <2>3 DEF Outcome
  <2>5. ~AboutToSend(g)
    <3>1. ASSUME NEW w \in Workers, work[w].at \in SendPoints, work[w].id = g PROVE FALSE
      <4>1. Informed(w) /\ Open(w)
        BY <1>1, <3>1 DEF CallInv, Open, OpenPoints, SendPoints
      <4>2. QED
        BY <2>1, <3>1, <4>1 DEF Informed, Owns
    <3>2. QED
      BY <3>1 DEF AboutToSend, SendPoints
  <2>6. Account(g)' = "free"
    BY <2>1, <2>4, <2>5 DEF Account, AboutToSend
  <2>7. Steps(g)
    BY <2>1, <2>4, <2>6 DEF Steps, Promised!Next, Promised!Retry
  <2>8. ASSUME NEW f \in Generations, f # g PROVE Steps(f)
    <3>1. row'[f] = row[f] /\ owed'[f] = owed[f]
      BY <1>1, <2>1, <2>8
    <3>2. Turns(f) /\ UNCHANGED <<calls[f], Account(f)>>
      BY <2>1, <3>1 DEF Turns, Account, AboutToSend
    <3>3. QED
      BY <3>2, TurnsStep
  <2>9. QED
    BY <2>7, <2>8
<1>4. QED
  BY <1>2, <1>3

\* The steps that no execution takes part in.
LEMMA OtherPromised ==
  ASSUME PromiseInv, OneWorker,
         \/ \E g \in Generations : LeaseExpires(g) \/ RetentionEnds(g)
         \/ \E w \in Workers :
              \/ DiscardExpired(w) \/ RenewLease(w)
              \/ \E g \in Generations : ClaimImport(w, g)
         \/ UNCHANGED vars
  PROVE  \A f \in Generations : Steps(f)
<1>1. CallInv /\ DraftInv /\ TypeOK /\ work \in [Workers -> Work]
  BY Types DEF PromiseInv, CallInv, ResultInv, DraftInv
<1>2. ASSUME NEW g \in Generations, LeaseExpires(g) \/ RetentionEnds(g)
      PROVE  \A f \in Generations : Steps(f)
  <2>1. UNCHANGED <<work, owed, calls, imports>>
    BY <1>2 DEF LeaseExpires, RetentionEnds, history
  <2>2. \A f \in Generations : Turns(f)
    BY <1>1, <1>2, <2>1, LeaseTurns DEF LeaseExpires, RetentionEnds
  <2>3. QED
    BY <2>1, <2>2, IdleAccount, TurnsPromised
<1>3. ASSUME NEW w \in Workers, RenewLease(w) PROVE \A f \in Generations : Steps(f)
  <2>1. UNCHANGED <<work, owed, calls, imports>> /\ row' = [row EXCEPT ![work[w].id].lease = "live"]
    BY <1>3 DEF RenewLease, history
  <2>2. work[w].id \in Generations
    BY <1>1, <1>3, WorkShape DEF RenewLease, AttemptPoints, Attempt, FailingAttempt
  <2>3. \A f \in Generations : Turns(f)
    BY <1>1, <2>1, <2>2, LeaseTurns
  <2>4. QED
    BY <2>1, <2>3, IdleAccount, TurnsPromised
<1>4. ASSUME NEW w \in Workers, DiscardExpired(w) PROVE \A f \in Generations : Steps(f)
  <2>1. UNCHANGED <<owed, calls>> /\ work[w] = Idle
    BY <1>4 DEF DiscardExpired, history
  <2>2. work'[w].at = "findStaging"
    BY <1>1, <1>4 DEF DiscardExpired
  <2>3. QED
    BY <1>1, <1>4, <2>1, <2>2, SweepTurns, QuietAccount, TurnsPromised DEF SendPoints, Idle
<1>5. ASSUME NEW w \in Workers, NEW g \in Generations, ClaimImport(w, g)
      PROVE  \A f \in Generations : Steps(f)
  <2>1. /\ UNCHANGED <<owed, calls, imports>> /\ work[w].at = "idle" /\ work'[w].at = "importing"
        /\ row' = [row EXCEPT ![g].owner = w, ![g].lease = "live"]
    BY <1>1, <1>5 DEF ClaimImport, history, Idle
  <2>2. \A f \in Generations : Turns(f)
    BY <1>1, <2>1, LeaseTurns
  <2>3. QED
    BY <2>1, <2>2, QuietAccount, TurnsPromised DEF SendPoints
<1>6. CASE UNCHANGED vars
  BY <1>1, <1>6, SameTurns, IdleAccount, TurnsPromised DEF vars
<1>7. QED
  BY <1>2, <1>3, <1>4, <1>5, <1>6

\* A death, or an exception, on the way to the call.
LEMMA CrashPromised ==
  ASSUME PromiseInv, OneWorker, NEW w \in Workers, Crash(w) \/ Unexpected(w)
  PROVE  \A f \in Generations : Steps(f)
<1>1. CallInv /\ TypeOK /\ work \in [Workers -> Work] /\ Informed(w)
  BY Types DEF PromiseInv, CallInv, ResultInv, DraftInv
<1>2. UNCHANGED <<row, calls, owed, imports>>
  BY DEF Crash, Unexpected, history
<1>3. work'[w].at \in {"idle", "failing"}
  <2>1. CASE Crash(w)
    BY <1>1, <2>1 DEF Crash, Idle
  <2>2. CASE Unexpected(w)
    <3>1. work[w].at \in AttemptPoints
      BY <2>2 DEF Unexpected, AttemptPoints
    <3>2. QED
      BY <1>1, <2>2, <3>1, FailingTyped DEF Unexpected, Idle, Failures
  <2>3. QED
    BY <2>1, <2>2
<1>4. TAKE f \in Generations
<1>5. CASE work[w].at \in SendPoints /\ work[w].id = f
  <2>1. ~owed[f]
    BY <1>1, <1>5 DEF Informed, Unasked, SendPoints
  <2>2. Account(f) = "sending" /\ Account(f)' = "free"
    BY <1>2, <1>3, <1>5, <2>1, AccountOf DEF SendPoints
  <2>3. QED
    BY <1>2, <2>2 DEF Steps, Promised!Next, Promised!Waive
<1>6. CASE ~(work[w].at \in SendPoints /\ work[w].id = f)
  <2>1. UNCHANGED Account(f)
    BY <1>2, <1>3, <1>6, AccountOf DEF SendPoints
  <2>2. QED
    BY <1>1, <1>2, <2>1, SameTurns, TurnsStep
<1>7. QED
  BY <1>5, <1>6

\* The steps of an execution that neither touch the account nor decide the row.
LEMMA ExecutionPromised ==
  ASSUME PromiseInv, OneWorker, NEW w \in Workers,
         \/ \E bad \in BOOLEAN : FindResult(w, bad)
         \/ WriteMarker(w) \/ AnswerImage(w) \/ PersistReady(w) \/ WriteDraft(w)
         \/ AfterSuccess(w) \/ AfterFenced(w) \/ AutoAccept(w) \/ DeferImport(w)
         \/ FindStagingOrphans(w) \/ CleanStaging(w) \/ CleanOutput(w)
  PROVE  \A f \in Generations : Steps(f)
<1>1. CallInv /\ DraftInv /\ TypeOK /\ work \in [Workers -> Work]
  BY Types DEF PromiseInv, CallInv, ResultInv, DraftInv
<1>2. UNCHANGED <<calls, owed>>
  BY DEF FindResult, WriteMarker, AnswerImage, PersistReady, WriteDraft, AfterSuccess, AfterFenced,
         AutoAccept, DeferImport, FindStagingOrphans, CleanStaging, CleanOutput, history
<1>3. \A f \in Generations : Turns(f)
  <2>1. CASE AutoAccept(w)
    <3>1. work[w].id \in Generations
      BY <1>1, <2>1, WorkShape DEF AutoAccept
    <3>2. QED
      BY <1>1, <2>1, <3>1, ImportTurns DEF AutoAccept
  <2>2. CASE DeferImport(w)
    <3>1. work[w].id \in Generations
      BY <1>1, <2>2, WorkShape DEF DeferImport
    <3>2. UNCHANGED imports /\ (UNCHANGED row \/ row' = [row EXCEPT ![work[w].id] = Unleased(@)])
      BY <2>2 DEF DeferImport, history
    <3>3. QED
      BY <1>1, <3>1, <3>2, LeaseTurns, SameTurns
  <2>3. CASE ~AutoAccept(w) /\ ~DeferImport(w)
    <3>1. UNCHANGED <<row, imports>>
      BY <2>3 DEF FindResult, WriteMarker, AnswerImage, PersistReady, WriteDraft, AfterSuccess,
                  AfterFenced, FindStagingOrphans, CleanStaging, CleanOutput, history
    <3>2. QED
      BY <1>1, <3>1, SameTurns
  <2>4. QED
    BY <2>1, <2>2, <2>3
<1>4. \A f \in Generations : UNCHANGED Account(f)
  <2>1. CASE WriteMarker(w)
    <3>1. work[w].at = "confirmed" /\ work' = Moved(w, "submitted") /\ "confirmed" \in AttemptPoints
          /\ "submitted" \in AttemptPoints
      BY <2>1 DEF WriteMarker, AttemptPoints
    <3>2. work'[w].at = "submitted" /\ work'[w].id = work[w].id
      BY <1>1, <3>1, MovedTyped
    <3>3. QED
      BY <1>2, <3>1, <3>2, AccountOf DEF SendPoints
  <2>2. ASSUME NEW from \in AttemptPoints \ SendPoints, NEW to \in AttemptPoints \ SendPoints,
               work[w].at = from, work' = Moved(w, to)
        PROVE  \A f \in Generations : UNCHANGED Account(f)
    BY <1>1, <1>2, <2>2, MovedTyped, QuietAccount
  <2>3. CASE AnswerImage(w) \/ PersistReady(w) \/ WriteDraft(w)
    BY <2>2, <2>3 DEF AnswerImage, PersistReady, WriteDraft, AttemptPoints, SendPoints
  <2>4. ASSUME NEW bad \in BOOLEAN, FindResult(w, bad)
        PROVE  \A f \in Generations : UNCHANGED Account(f)
    <3>1. work[w].at = "claimed" /\ "claimed" \in AttemptPoints
      BY <2>4 DEF FindResult, AttemptPoints
    <3>2. CASE work' = [work EXCEPT ![w] = Idle]
      BY <1>1, <1>2, <3>1, <3>2, QuietAccount DEF Idle, SendPoints
    <3>3. CASE work' = Moved(w, "staged") \/ work' = Moved(w, "unsent")
      BY <2>2, <3>1, <3>3 DEF AttemptPoints, SendPoints
    <3>4. CASE work' = Failing(w, "ambiguous")
      BY <1>1, <1>2, <3>1, <3>4, FailingTyped, QuietAccount DEF Failures, SendPoints
    <3>5. QED
      BY <2>4, <3>2, <3>3, <3>4 DEF FindResult
  <2>5. CASE \/ AfterSuccess(w) \/ AfterFenced(w) \/ AutoAccept(w) \/ DeferImport(w)
             \/ FindStagingOrphans(w) \/ CleanStaging(w) \/ CleanOutput(w)
    <3>1. work[w].at \in {"published", "fenced", "importing", "findStaging", "cleanStaging", "cleanOutput"}
      BY <2>5 DEF AfterSuccess, AfterFenced, AutoAccept, DeferImport, FindStagingOrphans,
                  CleanStaging, CleanOutput
    <3>2. work'[w].at \in {"idle", "importing", "cleanStaging", "cleanOutput"}
      BY <1>1, <2>5 DEF AfterSuccess, AfterFenced, AutoAccept, DeferImport, FindStagingOrphans,
                        CleanStaging, CleanOutput, Idle
    <3>3. QED
      BY <1>2, <3>1, <3>2, QuietAccount DEF SendPoints
  <2>6. QED
    BY <2>1, <2>3, <2>4, <2>5
<1>5. QED
  BY <1>2, <1>3, <1>4, TurnsPromised

\* The check of the ownership is the decision to call.
LEMMA DecisionPromised ==
  ASSUME PromiseInv, OneWorker, NEW w \in Workers, ConfirmOwnership(w)
  PROVE  \A f \in Generations : Steps(f)
<1>1. /\ CallInv /\ DraftInv /\ TypeOK /\ work \in [Workers -> Work] /\ Informed(w) /\ Open(w)
      /\ row \in [Generations -> LeasedRow] /\ calls \in [Generations -> Nat]
  BY Types DEF PromiseInv, CallInv, ResultInv, DraftInv, ConfirmOwnership, Open, OpenPoints
<1> PICK g \in Generations : g = work[w].id
  BY <1>1, OpenTyped
<1>2. work[w].at = "unsent" /\ UNCHANGED <<calls, owed, imports>>
      /\ "unsent" \in AttemptPoints /\ "confirmed" \in AttemptPoints
  BY DEF ConfirmOwnership, history, AttemptPoints
<1>3. \A f \in Generations : Turns(f)
  BY <1>1, <1>2, LeaseTurns, SameTurns DEF ConfirmOwnership
<1>4. CASE ~Owns(w)
  <2>1. work'[w].at = "idle"
    BY <1>1, <1>4 DEF ConfirmOwnership, Idle
  <2>2. QED
    BY <1>2, <1>3, <2>1, QuietAccount, TurnsPromised DEF SendPoints
<1>5. CASE Owns(w)
  <2>1. work'[w].at = "confirmed" /\ work'[w].id = g
    BY <1>1, <1>2, <1>5, MovedTyped DEF ConfirmOwnership
  <2>2. ~owed[g] /\ calls[g] < row[g].attempt /\ row[g].attempt <= HardMaxAttempts
        /\ row[g].status = "running" /\ row[g].attempt \in Nat
    BY <1>1, <1>2, <1>5 DEF Informed, Unasked, CallInv, AttemptsCapped, Owns, LeasedRow, Row
  <2>3. Account(g) = "free" /\ Account(g)' = "sending"
    BY <1>2, <2>1, <2>2, AccountOf DEF SendPoints
  <2>4. calls[g] < HardMaxAttempts
    BY <1>1, <1>2, <2>2, ImageAssumption
  <2>5. Outcome(row[g]) = "pending" /\ Outcome(row'[g]) = "pending" /\ UNCHANGED imports[g]
    <3>1. Outcome(row[g]) = "pending"
      BY <2>2 DEF Outcome
    <3>2. row[g] \in Row /\ row'[g] = [row[g] EXCEPT !.lease = "live"]
      BY <1>1, <1>5 DEF ConfirmOwnership, LeasedRow
    <3>3. QED
      BY <1>2, <3>1, <3>2, OutcomesSame
  <2>6. Steps(g)
    BY <1>2, <2>3, <2>4, <2>5 DEF Steps, Promised!Next, Promised!Decide
  <2>7. ASSUME NEW f \in Generations, f # g PROVE Steps(f)
    <3>1. UNCHANGED Account(f)
      BY <1>2, <2>1, <2>7, AccountOf
    <3>2. QED
      BY <1>2, <1>3, <3>1, TurnsStep
  <2>8. QED
    BY <2>6, <2>7
<1>6. QED
  BY <1>4, <1>5

LEMMA SendPromised ==
  ASSUME PromiseInv, OneWorker, NEW w \in Workers, Send(w)
  PROVE  \A f \in Generations : Steps(f)
<1>1. CallInv /\ TypeOK /\ Informed(w) /\ UNCHANGED <<row, imports>> /\ work[w].at = "submitted"
  BY DEF PromiseInv, CallInv, ResultInv, DraftInv, Send
<1> PICK g \in Generations : g = work[w].id
  BY <1>1, SentOnce
<1>2. ~owed[g]
  BY <1>1 DEF Informed, Unasked
<1>3. Account(g) = "sending" /\ Account(g)' = "owed" /\ calls'[g] = calls[g] + 1
  BY <1>1, <1>2, SentOnce, AccountOf DEF SendPoints
<1>4. Steps(g)
  BY <1>1, <1>3 DEF Steps, Promised!Next, Promised!Send
<1>5. ASSUME NEW f \in Generations, f # g PROVE Steps(f)
  <2>1. UNCHANGED <<calls[f], Account(f)>>
    BY <1>1, <1>5, SentOnce, AccountOf DEF SendPoints
  <2>2. QED
    BY <1>1, <2>1, SameTurns, TurnsStep
<1>6. QED
  BY <1>4, <1>5

LEMMA AnswerPromised ==
  ASSUME PromiseInv, OneWorker, NEW w \in Workers, NEW failure \in Failures,
         AnswerFailure(w, failure)
  PROVE  \A f \in Generations : Steps(f)
<1>1. /\ CallInv /\ TypeOK /\ work \in [Workers -> Work] /\ owed \in [Generations -> BOOLEAN]
      /\ work[w].at = "calling" /\ UNCHANGED <<row, calls, imports>> /\ Open(w)
      /\ owed' = [owed EXCEPT ![work[w].id] = failure # "retryable"]
      /\ "calling" \in AttemptPoints
  BY Types DEF PromiseInv, CallInv, ResultInv, DraftInv, AnswerFailure, Open, OpenPoints,
               AttemptPoints
<1> PICK g \in Generations : g = work[w].id
  BY <1>1, OpenTyped
<1>2. work'[w].at = "failing" /\ owed[g]
  BY <1>1, FailingTyped, OpenTyped DEF AnswerFailure, PromiseInv, CallsEvident
<1>3. Account(g) = "owed" /\ Account(g)' = IF failure = "retryable" THEN "free" ELSE "owed"
  BY <1>1, <1>2, AccountOf DEF SendPoints
<1>4. Steps(g)
  <2>1. CASE failure = "retryable"
    BY <1>1, <1>3, <2>1 DEF Steps, Promised!Next, Promised!Waive
  <2>2. CASE failure # "retryable"
    BY <1>1, <1>2, <1>3, <2>2, SameTurns, TurnsStep
  <2>3. QED
    BY <2>1, <2>2
<1>5. ASSUME NEW f \in Generations, f # g PROVE Steps(f)
  <2>1. UNCHANGED Account(f)
    BY <1>1, <1>2, <1>5, AccountOf DEF SendPoints
  <2>2. QED
    BY <1>1, <2>1, SameTurns, TurnsStep
<1>6. QED
  BY <1>4, <1>5

LEMMA OutcomePromised ==
  ASSUME PromiseInv, OneWorker, NEW w \in Workers, ApplySuccess(w) \/ ApplyFailure(w)
  PROVE  \A f \in Generations : Steps(f)
<1>1. /\ CallInv /\ DraftInv /\ TypeOK /\ CallsEvident /\ work \in [Workers -> Work]
      /\ row \in [Generations -> LeasedRow] /\ Informed(w)
  BY Types DEF PromiseInv, CallInv, ResultInv, DraftInv
<1>2. Open(w) /\ work[w].at \in {"drafted", "failing"} /\ UNCHANGED <<calls, owed, imports>>
  BY DEF Open, OpenPoints, ApplySuccess, ApplyFailure, history
<1> PICK g \in Generations : g = work[w].id
  BY <1>1, <1>2, OpenTyped
<1> DEFINE n == work[w].generation
           u == Unleased(row[g])
<1>3. /\ row[g] \in Row /\ u \in Row /\ u.status = row[g].status
      /\ u.discarded = row[g].discarded /\ u.draft = row[g].draft /\ n \in Nat
  BY <1>1, <1>2, OpenTyped, RequestedRows DEF LeasedRow
<1>4. work'[w].at \in {"published", "fenced", "idle"}
  <2>1. CASE ApplySuccess(w)
    <3>1. work[w].at \in AttemptPoints /\ (work' = Moved(w, "published") \/ work' = Moved(w, "fenced"))
      BY <2>1 DEF ApplySuccess, AttemptPoints
    <3>2. QED
      BY <1>1, <3>1, MovedTyped DEF AttemptPoints
  <2>2. CASE ApplyFailure(w)
    BY <1>1, <2>2 DEF ApplyFailure, Idle
  <2>3. QED
    BY <2>1, <2>2
<1>5. \A f \in Generations : UNCHANGED Account(f) /\ Account(f) # "sending"
  BY <1>2, <1>4, QuietAccount DEF SendPoints
<1>6. CASE ~Owns(w)
  <2>1. UNCHANGED row
    BY <1>6 DEF ApplySuccess, ApplyFailure
  <2>2. QED
    BY <1>1, <1>2, <1>5, <2>1, SameTurns, TurnsPromised
\* A row that its execution decides.
<1>7. ASSUME Owns(w), NEW s, row' = [row EXCEPT ![g] = s],
             \/ Outcome(s) = "pending"
             \/ Outcome(s) = "failed"
             \/ Outcome(s) = "ready" /\ calls[g] > 0
      PROVE  \A f \in Generations : Steps(f)
  <2>1. Outcome(row[g]) = "pending"
    BY <1>7 DEF Owns, Outcome
  <2>2. row'[g] = s /\ \A f \in Generations : f # g => row'[f] = row[f]
    BY <1>1, <1>7
  <2>3. Turns(g) \/ Ends(g)
    BY <1>2, <1>5, <1>7, <2>1, <2>2 DEF Turns, Ends
  <2>4. ASSUME NEW f \in Generations, f # g PROVE Turns(f)
    BY <1>2, <2>2, <2>4 DEF Turns
  <2>5. QED
    BY <1>2, <1>5, <2>3, <2>4, TurnsStep, EndsStep
<1>8. Owns(w) => ~u.discarded
  BY <1>1, <1>3 DEF DraftInv, OutcomesFinal, Owns, Pending
<1>9. CASE ApplySuccess(w) /\ Owns(w)
  <2> DEFINE s == [u EXCEPT !.status = "succeeded", !.retryable = FALSE, !.draft = n,
                            !.expired = FALSE]
  <2>1. row' = [row EXCEPT ![g] = s] /\ calls[g] > 0
    BY <1>1, <1>9 DEF ApplySuccess, CallsEvident, PaidPoints
  <2>2. n # NoDraft
    BY <1>1, <1>9 DEF ApplySuccess, DraftInv, WrittenDrafts
  <2> HIDE DEF u, n
  <2>3. s.status = "succeeded" /\ s.discarded = u.discarded /\ s.draft = n
    BY <1>3 DEF Row, NoDraft
  <2> HIDE DEF s
  <2>4. Outcome(s) = "ready"
    BY <1>8, <1>9, <2>2, <2>3 DEF Outcome
  <2>5. QED
    BY <1>7, <1>9, <2>1, <2>4
<1>10. CASE ApplyFailure(w) /\ Owns(w)
  <2> DEFINE retryable == work[w].failure = "retryable"
             b == (retryable \/ Ambiguous(w)) /\ row[g].attempt < HardMaxAttempts
             q == [u EXCEPT !.status = "queued", !.retryable = TRUE]
             s == [u EXCEPT !.status = "failed", !.retryable = b]
             t == Failed(row[g], retryable, Ambiguous(w))
  <2>1. row' = [row EXCEPT ![g] = t]
    BY <1>10 DEF ApplyFailure
  <2>2. t = q \/ t = s
    BY DEF Failed
  <2>3. b \in BOOLEAN
    OBVIOUS
  <2> HIDE DEF u, b, t, retryable
  <2>4. q.status = "queued" /\ s.status = "failed" /\ s.discarded = u.discarded
    BY <1>3, <2>3 DEF Row
  <2> HIDE DEF q, s
  <2>5. Outcome(q) = "pending" /\ Outcome(s) = "failed"
    BY <1>8, <1>10, <2>4 DEF Outcome
  <2>6. QED
    BY <1>7, <1>10, <2>1, <2>2, <2>5
<1>11. QED
  BY <1>6, <1>9, <1>10

LEMMA ClaimPromised ==
  ASSUME PromiseInv, OneWorker, NEW w \in Workers, TakeWork(w)
  PROVE  \A f \in Generations : Steps(f)
<1>1. PICK passed, taken, bad \in SUBSET Generations : Claim(w, passed, taken, bad)
  BY DEF TakeWork
<1> DEFINE loaded == {g \in Candidates : Staged(g)} \ bad
<1>2. /\ DraftInv /\ row \in [Generations -> LeasedRow] /\ work \in [Workers -> Work]
  BY Types DEF PromiseInv, CallInv, ResultInv, DraftInv
<1>3. /\ passed \subseteq Candidates /\ taken \subseteq Candidates \ passed
      /\ row' = [g \in Generations |-> CASE g \in passed -> Refused(row[g])
                                         [] g \in taken  -> Taken(w, g, loaded)
                                         [] OTHER        -> row[g]]
      /\ UNCHANGED <<calls, owed, imports>> /\ work[w] = Idle
  BY <1>1 DEF Claim, Hopeless, history
<1>4. work'[w].at \in {"idle", "claimed"}
  BY <1>1, <1>2 DEF Claim, Idle
<1> HIDE DEF loaded
<1>5. \A f \in Generations : UNCHANGED Account(f) /\ Account(f) # "sending"
  BY <1>3, <1>4, QuietAccount DEF SendPoints, Idle
<1> TAKE g \in Generations
<1>6. row[g] \in Row
  BY <1>2 DEF LeasedRow
<1>7. g \in Candidates => Outcome(row[g]) = "pending" /\ ~row[g].discarded
  BY <1>6 DEF Candidates, Outcome
<1>8. CASE g \in passed
  <2> DEFINE u == Unleased(row[g])
             n == IF row[g].status = "running" THEN row[g].generation + 1 ELSE row[g].generation
             b == row[g].attempt < HardMaxAttempts
             r == [u EXCEPT !.status = "failed", !.retryable = b, !.generation = n]
  <2>1. row'[g] = r
    BY <1>3, <1>8 DEF Refused
  <2>2. u \in Row /\ u.discarded = row[g].discarded
    BY <1>6, RequestedRows
  <2> HIDE DEF u, n, b
  <2>3. r.status = "failed" /\ r.discarded = u.discarded
    BY <2>2 DEF Row
  <2> HIDE DEF r
  <2>4. Outcome(row[g]) = "pending" /\ Outcome(row'[g]) = "failed"
    BY <1>3, <1>7, <1>8, <2>1, <2>2, <2>3 DEF Outcome
  <2>5. QED
    BY <1>3, <1>5, <2>4, EndsStep DEF Ends
<1>9. CASE g \in taken
  <2>1. row'[g] = Taken(w, g, loaded)
    BY <1>3, <1>9
  <2>2. Taken(w, g, loaded).status = "running"
    BY <1>6 DEF Taken, Row
  <2>3. Outcome(row[g]) = "pending" /\ Outcome(row'[g]) = "pending"
    BY <1>3, <1>7, <1>9, <2>1, <2>2 DEF Outcome
  <2>4. QED
    BY <1>3, <1>5, <2>3, TurnsStep DEF Turns
<1>10. CASE g \notin passed /\ g \notin taken
  <2>1. row'[g] = row[g]
    BY <1>3, <1>10
  <2>2. QED
    BY <1>3, <1>5, <2>1, TurnsStep DEF Turns
<1>11. QED
  BY <1>8, <1>9, <1>10

LEMMA NextPromised ==
  ASSUME PromiseInv, OneWorker, [Next]_vars
  PROVE  \A f \in Generations : Steps(f)
<1>1. ASSUME NEW w \in Workers, Execute(w) PROVE \A f \in Generations : Steps(f)
  <2>1. CASE ConfirmOwnership(w) \/ Send(w) \/ ApplySuccess(w) \/ ApplyFailure(w)
             \/ \E failure \in Failures : AnswerFailure(w, failure)
    BY <2>1, DecisionPromised, SendPromised, AnswerPromised, OutcomePromised
  <2>2. CASE \/ \E bad \in BOOLEAN : FindResult(w, bad)
             \/ WriteMarker(w) \/ AnswerImage(w) \/ PersistReady(w) \/ WriteDraft(w)
             \/ AfterSuccess(w) \/ AfterFenced(w) \/ AutoAccept(w) \/ DeferImport(w)
             \/ FindStagingOrphans(w) \/ CleanStaging(w) \/ CleanOutput(w)
    BY <2>2, ExecutionPromised
  <2>3. QED
    BY <1>1, <2>1, <2>2 DEF Execute
<1>2. QED
  BY <1>1, RequestPromised, OtherPromised, CrashPromised, ClaimPromised DEF Next

LEMMA PromiseInit ==
  ASSUME Init, OneWorker
  PROVE  PromiseInv /\ \A g \in Generations : Promised(g)!Init
<1>1. CallInv
  BY CallInit
<1>2. \A w \in Workers : work[w].at = "idle"
  BY DEF Init, Idle
<1>3. CallsEvident
  BY <1>2 DEF Init, CallsEvident, Staged, NoFiles, PaidPoints
<1>4. ASSUME NEW g \in Generations PROVE Promised(g)!Init
  <2>1. row[g].status = "absent"
    BY NewRowTyped DEF Init, NewRow
  <2>2. Outcome(row[g]) = "none"
    BY <2>1 DEF Outcome
  <2>3. Account(g) = "free" /\ calls[g] = 0 /\ imports[g] = 0
    BY <1>2 DEF Init, Account, AboutToSend
  <2>4. QED
    BY <2>2, <2>3 DEF Promised!Init
<1>5. QED
  BY <1>1, <1>3, <1>4 DEF PromiseInv

\* With one worker, and at most one stored result that cannot be read, every row of
\* image_generations implements PaidImage: a call is decided by the last check of the
\* ownership, sent at most once for it, and waived only by a death before it or a refusal.
THEOREM Refinement ==
  ASSUME OneWorker, MaxReadFaults <= 1
  PROVE  Spec => ImplementsPaidImage
<1>1. Init => PromiseInv /\ \A g \in Generations : Promised(g)!Init
  BY PromiseInit
<1>2. PromiseInv /\ [Next]_vars => PromiseInv'
  BY CallStep, EvidentStep DEF PromiseInv
<1>3. PromiseInv /\ [Next]_vars => [\A g \in Generations : [Promised(g)!Next]_(Promised(g)!vars)]_vars
  BY NextPromised DEF Steps
<1>4. QED
  BY <1>1, <1>2, <1>3, PTL DEF Spec, ImplementsPaidImage
=============================================================================
