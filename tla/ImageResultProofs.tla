-------------------------- MODULE ImageResultProofs --------------------------
(***************************************************************************)
(* Proof that ImageGeneration keeps a paid result as long as it can be     *)
(* needed, for any number of generations and workers.                      *)
(*                                                                         *)
(* A staging directory is deleted by requests and executions that settle   *)
(* the row in the same step, by the failure of an execution whose own      *)
(* result was never stored (Unpaid), and by a sweep that read the rows     *)
(* some time ago: what made a row's staging superfluous then still does    *)
(* (SweepsDoomed), because no step takes it back (NoWorse).                *)
(***************************************************************************)
EXTENDS ImageGenerationProofs

\* Nothing can need the staging directory of a row again.
Gone(r) ==
  \/ r.expired \/ r.discarded
  \/ r.status \in {"succeeded", "canceled", "deleted"}
  \/ r.status = "failed" /\ ~r.retryable

\* Only a succeeded generation has an asset, and a row that does not exist no history.
Sound(r) ==
  /\ r.asset => r.status = "succeeded"
  /\ r.status = "absent" => ~r.expired /\ ~r.discarded

\* What a step may make of a row.
NoWorse(r, s) ==
  /\ s.generation >= r.generation
  /\ Gone(r) => Gone(s)
  /\ r.status \in {"succeeded", "deleted"} => s.status \in {"succeeded", "deleted"}
  /\ Sound(s)

ReadyPast ==
  \A g \in Generations : \A n \in staging[g].ready : n <= row[g].generation

\* Executions that have stored no result, and fail without having been answered with one.
UnpaidPoints == {"claimed", "unsent", "confirmed", "submitted", "calling", "answered"}
Unpaid(w) ==
  \/ work[w].at \in UnpaidPoints
  \/ work[w].at = "failing" /\ work[w].failure \in {"retryable", "permanent"}

UnpaidStoredNothing ==
  \A w \in Workers : Unpaid(w) => work[w].generation \notin staging[work[w].id].ready

PublishedSettled ==
  \A w \in Workers :
    work[w].at = "published" => row[work[w].id].status \in {"succeeded", "deleted"}

SweepsDoomed ==
  \A w \in Workers : work[w].at = "cleanStaging" => \A g \in work[w].doomed : Gone(row[g])

ResultInv ==
  /\ DraftInv
  /\ \A g \in Generations : Sound(row[g])
  /\ ReadyPast
  /\ UnpaidStoredNothing
  /\ PublishedSettled
  /\ SweepsDoomed

-----------------------------------------------------------------------------
(* What a step makes of a row *)

\* Everything but the lease and the draft is as before.
SameFate(r, s) ==
  /\ s.status = r.status /\ s.generation = r.generation /\ s.retryable = r.retryable
  /\ s.asset = r.asset /\ s.discarded = r.discarded /\ s.expired = r.expired

LEMMA SameFateNoWorse ==
  ASSUME NEW r \in Row, NEW s, Sound(r), SameFate(r, s)
  PROVE  NoWorse(r, s)
<1>1. r.generation \in Nat
  BY DEF Row
<1>2. QED
  BY <1>1 DEF SameFate, NoWorse, Sound, Gone

LEMMA LeaseFates ==
  ASSUME NEW r \in Row, NEW w
  PROVE  /\ Unleased(r) \in Row /\ SameFate(r, Unleased(r))
         /\ SameFate(r, [r EXCEPT !.lease = "live"])
         /\ SameFate(r, [r EXCEPT !.lease = "expired"])
         /\ SameFate(r, [r EXCEPT !.owner = w, !.lease = "live"])
  BY DEF Row, SameFate, Unleased

\* A row that changes and the others that do not.
LEMMA OneNoWorse ==
  ASSUME TypeOK, \A g \in Generations : Sound(row[g]), NEW g \in Generations, NEW s,
         row' = [row EXCEPT ![g] = s], NoWorse(row[g], s)
  PROVE  \A f \in Generations : NoWorse(row[f], row'[f])
<1>1. ASSUME NEW f \in Generations, f # g PROVE NoWorse(row[f], row'[f])
  <2>1. row[f] \in Row /\ row'[f] = row[f]
    BY <1>1, Types DEF LeasedRow
  <2>2. QED
    BY <2>1, SameFateNoWorse DEF SameFate
<1>2. row'[g] = s
  BY Types
<1>3. QED
  BY <1>1, <1>2

\* Sound rows are no worse when nothing happens to them.
LEMMA SameNoWorse ==
  ASSUME TypeOK, \A g \in Generations : Sound(row[g]), NEW g \in Generations, row'[g] = row[g]
  PROVE  NoWorse(row[g], row'[g])
<1>1. row[g] \in Row
  BY Types DEF LeasedRow
<1>2. QED
  BY <1>1, SameFateNoWorse DEF SameFate

LEMMA CanceledFate ==
  ASSUME NEW r \in Row, Sound(r), r.status \in {"queued", "running"}
  PROVE  Canceled(r) \in Row /\ NoWorse(r, Canceled(r)) /\ Canceled(r).status = "canceled"
<1> DEFINE u == Unleased(r)
           n == r.generation + 1
           s == [u EXCEPT !.status = "canceled", !.retryable = FALSE, !.generation = n]
<1>0. u \in Row /\ SameFate(r, u)
  BY LeaseFates
<1>1. u \in Row /\ SameFate(r, u) /\ n \in Nat /\ n >= r.generation
  BY <1>0 DEF Row
<1>2. Canceled(r) = s
  BY DEF Canceled
<1> HIDE DEF u, n
<1>3. s \in Row /\ s.status = "canceled" /\ s.generation = n /\ s.asset = u.asset
  BY <1>1 DEF Row, NoDraft
<1>4. QED
  BY <1>1, <1>2, <1>3 DEF NoWorse, Gone, Sound, SameFate

LEMMA ImportNoWorse ==
  ASSUME TypeOK, \A f \in Generations : Sound(row[f]), NEW g \in Generations, Imported(g)
  PROVE  \A f \in Generations : NoWorse(row[f], row'[f])
<1> DEFINE u == Unleased(row[g])
           s == [u EXCEPT !.asset = TRUE, !.draft = NoDraft]
<1>1. row[g] \in Row /\ Sound(row[g]) /\ u \in Row /\ SameFate(row[g], u)
      /\ row[g].generation \in Nat
  BY Types, LeaseFates DEF LeasedRow, Row
<1>2. row' = [row EXCEPT ![g] = s] /\ row[g].status = "succeeded"
  BY DEF Imported, Acceptable
<1> HIDE DEF u
<1>3. s.status = u.status /\ s.generation = u.generation
  BY <1>1 DEF Row, NoDraft
<1> HIDE DEF s
<1>4. NoWorse(row[g], s)
  BY <1>1, <1>2, <1>3 DEF NoWorse, Gone, Sound, SameFate
<1>5. QED
  BY <1>2, <1>4, OneNoWorse

LEMMA RequestNoWorse ==
  ASSUME ResultInv, NEW g \in Generations, Request(g)
  PROVE  \A f \in Generations : NoWorse(row[f], row'[f])
<1> DEFINE u == Unleased(row[g])
           n == row[g].generation + 1
<1>0. /\ TypeOK /\ \A f \in Generations : Sound(row[f])
      /\ row[g] \in LeasedRow /\ row[g] \in Row /\ Sound(row[g])
  BY Types DEF ResultInv, DraftInv, LeasedRow
<1>1. /\ TypeOK /\ \A f \in Generations : Sound(row[f])
      /\ row[g] \in LeasedRow /\ row[g] \in Row /\ Sound(row[g])
      /\ u \in Row /\ SameFate(row[g], u)
      /\ n \in Nat /\ n >= row[g].generation /\ row[g].generation \in Nat
  <2>1. u \in Row /\ SameFate(row[g], u)
    BY <1>0, LeaseFates
  <2>2. n \in Nat /\ n >= row[g].generation /\ row[g].generation \in Nat
    BY <1>0 DEF Row
  <2>3. QED
    BY <1>0, <2>1, <2>2
<1>2. ASSUME NEW auto \in BOOLEAN, Create(g, auto)
      PROVE  \A f \in Generations : NoWorse(row[f], row'[f])
  <2>1. /\ NewRow(auto).status = "queued" /\ NewRow(auto).generation = 0
        /\ ~NewRow(auto).asset /\ ~NewRow(auto).expired
    BY DEF NewRow
  <2>2. row[g].status = "absent" /\ row' = [row EXCEPT ![g] = NewRow(auto)]
    BY <1>2 DEF Create
  <2>3. row[g].generation = 0
    BY <2>2 DEF ResultInv, DraftInv, OutcomesFinal
  <2>4. NoWorse(row[g], NewRow(auto))
    BY <1>1, <2>1, <2>2, <2>3 DEF NoWorse, Gone, Sound
  <2>5. QED
    BY <1>1, <2>2, <2>4, OneNoWorse
<1>3. CASE Retry(g)
  <2> DEFINE limit == IF row[g].max > row[g].attempt + 1 THEN row[g].max ELSE row[g].attempt + 1
             m == IF limit < HardMaxAttempts THEN limit ELSE HardMaxAttempts
             s == [u EXCEPT !.status = "queued", !.max = m]
  <2>1. m \in Nat
    BY <1>1, ImageAssumption DEF Row
  <2>2. /\ row' = [row EXCEPT ![g] = s]
        /\ row[g].status = "failed" /\ ~row[g].discarded /\ row[g].retryable
    BY <1>3 DEF Retry
  <2> HIDE DEF m, u
  <2>3. /\ s.status = "queued" /\ s.generation = u.generation /\ s.expired = u.expired
        /\ s.asset = u.asset
    BY <1>1, <2>1 DEF Row, NoDraft
  <2> HIDE DEF s
  <2>4. NoWorse(row[g], s)
    BY <1>1, <2>2, <2>3 DEF NoWorse, Gone, Sound, SameFate
  <2>5. QED
    BY <1>1, <2>2, <2>4, OneNoWorse
<1>4. CASE Cancel(g)
  <2>1. row' = [row EXCEPT ![g] = Canceled(@)] /\ row[g].status \in {"queued", "running"}
    BY <1>4 DEF Cancel, Pending
  <2>2. QED
    BY <1>1, <2>1, CanceledFate, OneNoWorse
<1>5. CASE Discard(g)
  <2> DEFINE r == IF g \in Pending THEN Canceled(row[g]) ELSE row[g]
             s == [r EXCEPT !.discarded = TRUE, !.draft = NoDraft]
  <2>1. row' = [row EXCEPT ![g] = s] /\ Discardable(g)
    BY <1>5 DEF Discard
  <2>2. ASSUME g \in Pending
        PROVE  r \in Row /\ NoWorse(row[g], r) /\ row[g].status # "absent" /\ r.status # "absent"
    <3>1. row[g].status \in {"queued", "running"}
      BY <2>2 DEF Pending
    <3>2. r \in Row /\ NoWorse(row[g], r)
      BY <1>1, <2>2, <3>1, CanceledFate
    <3>3. row[g].status # "absent" /\ r.status = "canceled"
      BY <1>1, <2>2, <3>1, CanceledFate
    <3>4. QED
      BY <3>2, <3>3
  <2>3. ASSUME g \notin Pending
        PROVE  r \in Row /\ NoWorse(row[g], r) /\ row[g].status # "absent" /\ r.status # "absent"
    <3>1. r = row[g]
      BY <2>3
    <3>2. NoWorse(row[g], row[g])
      BY <1>1, SameFateNoWorse DEF SameFate
    <3>3. QED
      BY <1>1, <2>1, <3>1, <3>2 DEF Discardable
  <2>4. r \in Row /\ NoWorse(row[g], r) /\ row[g].status # "absent" /\ r.status # "absent"
    BY <2>2, <2>3
  <2> HIDE DEF r
  <2>6. /\ s.status = r.status /\ s.generation = r.generation /\ s.asset = r.asset
        /\ s.discarded
    BY <1>1, <2>4 DEF Row, NoDraft
  <2> HIDE DEF s
  <2>7. NoWorse(row[g], s)
    BY <2>4, <2>6 DEF NoWorse, Gone, Sound
  <2>8. QED
    BY <1>1, <2>1, <2>7, OneNoWorse
<1>6. CASE Imported(g)
  BY <1>1, <1>6, ImportNoWorse
<1>7. CASE DeleteAsset(g)
  <2> DEFINE s == [row[g] EXCEPT !.asset = FALSE]
  <2>1. row' = [row EXCEPT ![g] = s] /\ row[g].asset
    BY <1>7 DEF DeleteAsset
  <2>2. /\ s.status = row[g].status /\ s.generation = row[g].generation
        /\ s.retryable = row[g].retryable
        /\ s.discarded = row[g].discarded /\ s.expired = row[g].expired
    BY <1>1 DEF Row, NoDraft
  <2> HIDE DEF s
  <2>3. NoWorse(row[g], s)
    BY <1>1, <2>1, <2>2 DEF NoWorse, Gone, Sound
  <2>4. QED
    BY <1>1, <2>1, <2>3, OneNoWorse
<1>8. CASE DeleteProject(g)
  <2> DEFINE s == [u EXCEPT !.status = "deleted", !.generation = n, !.draft = NoDraft,
                            !.asset = FALSE]
  <2>1. row' = [row EXCEPT ![g] = s]
    BY <1>8 DEF DeleteProject
  <2> HIDE DEF u, n
  <2>2. s.status = "deleted" /\ s.generation = n /\ ~s.asset
    BY <1>1 DEF Row, NoDraft
  <2> HIDE DEF s
  <2>3. NoWorse(row[g], s)
    BY <1>1, <2>2 DEF NoWorse, Gone, Sound
  <2>4. QED
    BY <1>1, <2>1, <2>3, OneNoWorse
<1>9. QED
  BY <1>2, <1>3, <1>4, <1>5, <1>6, <1>7, <1>8 DEF Request, Accept

\* A lease is all that changes in one row.
LEMMA LeaseNoWorse ==
  ASSUME TypeOK, \A f \in Generations : Sound(row[f]), NEW g \in Generations, NEW w,
         \/ row' = [row EXCEPT ![g] = Unleased(@)]
         \/ row' = [row EXCEPT ![g].lease = "live"]
         \/ row' = [row EXCEPT ![g].lease = "expired"]
         \/ row' = [row EXCEPT ![g].owner = w, ![g].lease = "live"]
  PROVE  \A f \in Generations : NoWorse(row[f], row'[f])
<1>1. row[g] \in Row /\ Sound(row[g])
  BY Types DEF LeasedRow
<1>2. PICK s : row' = [row EXCEPT ![g] = s] /\ SameFate(row[g], s)
  <2>1. CASE row' = [row EXCEPT ![g] = Unleased(@)]
    BY <1>1, <2>1, LeaseFates
  <2>2. CASE row' = [row EXCEPT ![g].lease = "live"]
    BY <1>1, <2>2, LeaseFates
  <2>3. CASE row' = [row EXCEPT ![g].lease = "expired"]
    BY <1>1, <2>3, LeaseFates
  <2>4. CASE row' = [row EXCEPT ![g].owner = w, ![g].lease = "live"]
    <3>1. row' = [row EXCEPT ![g] = [row[g] EXCEPT !.owner = w, !.lease = "live"]]
      BY <2>4, Types
    <3>2. QED
      BY <1>1, <3>1, LeaseFates
  <2>5. QED
    BY <2>1, <2>2, <2>3, <2>4
<1>3. QED
  BY <1>1, <1>2, SameFateNoWorse, OneNoWorse

LEMMA ExecuteNoWorse ==
  ASSUME ResultInv, NEW w \in Workers, Execute(w)
  PROVE  \A f \in Generations : NoWorse(row[f], row'[f])
<1> DEFINE g == work[w].id
           u == Unleased(row[g])
<1>1. /\ TypeOK /\ \A f \in Generations : Sound(row[f])
      /\ work[w] \in Work
  BY Types DEF ResultInv, DraftInv
<1>2. ASSUME work[w].at \in AttemptPoints \union {"failing"}
      PROVE  /\ g \in Generations /\ row[g] \in Row /\ Sound(row[g]) /\ work[w].generation \in Nat
             /\ u \in Row /\ SameFate(row[g], u) /\ row[g].generation \in Nat
  <2>1. g \in Generations /\ work[w].generation \in Nat
    BY <1>1, <1>2, WorkShape DEF Attempt, FailingAttempt
  <2>2. row[g] \in Row /\ Sound(row[g])
    BY <1>1, <2>1, Types DEF LeasedRow
  <2>3. QED
    BY <2>1, <2>2, LeaseFates DEF Row
<1>3. CASE UNCHANGED row
  BY <1>1, <1>3, SameNoWorse
<1>4. CASE ConfirmOwnership(w)
  <2>1. g \in Generations
    BY <1>2, <1>4 DEF ConfirmOwnership, AttemptPoints
  <2>2. row' = [row EXCEPT ![g].lease = "live"] \/ row' = row
    BY <1>4 DEF ConfirmOwnership
  <2>3. QED
    BY <1>1, <1>3, <2>1, <2>2, LeaseNoWorse
<1>5. ASSUME ApplySuccess(w), Owns(w)
      PROVE  \A f \in Generations : NoWorse(row[f], row'[f])
  <2> DEFINE m == work[w].generation
             s == [u EXCEPT !.status = "succeeded", !.retryable = FALSE, !.draft = m,
                            !.expired = FALSE]
  <2>1. work[w].at \in AttemptPoints
    BY <1>5 DEF ApplySuccess, AttemptPoints
  <2>2. row' = [row EXCEPT ![g] = s] /\ row[g].status = "running"
    BY <1>5 DEF ApplySuccess, Owns
  <2> HIDE DEF u, m
  <2>3. s.status = "succeeded" /\ s.generation = u.generation
    BY <1>2, <2>1 DEF Row, NoDraft
  <2> HIDE DEF s, g
  <2>4. NoWorse(row[g], s)
    BY <1>2, <2>1, <2>2, <2>3 DEF NoWorse, Gone, Sound, SameFate
  <2>5. QED
    BY <1>1, <1>2, <2>1, <2>2, <2>4, OneNoWorse
<1>6. ASSUME ApplyFailure(w), Owns(w)
      PROVE  \A f \in Generations : NoWorse(row[f], row'[f])
  <2> DEFINE b == (work[w].failure = "retryable" \/ Ambiguous(w))
                    /\ row[g].attempt < HardMaxAttempts
             q == [u EXCEPT !.status = "queued", !.retryable = TRUE]
             s == [u EXCEPT !.status = "failed", !.retryable = b]
             t == Failed(row[g], work[w].failure = "retryable", Ambiguous(w))
  <2>1. work[w].at = "failing" /\ row[g].status = "running"
    BY <1>6 DEF ApplyFailure, Owns
  <2>2. row' = [row EXCEPT ![g] = t]
    BY <1>6 DEF ApplyFailure
  <2>3. t = q \/ t = s
    BY DEF Failed
  <2>4. b \in BOOLEAN
    OBVIOUS
  <2> HIDE DEF u, b, t
  <2>5. /\ q.status = "queued" /\ q.generation = u.generation /\ q.asset = u.asset
        /\ q.expired = u.expired /\ q.discarded = u.discarded
    BY <1>2, <2>1 DEF Row
  <2>6. /\ s.status = "failed" /\ s.generation = u.generation /\ s.asset = u.asset
        /\ s.expired = u.expired /\ s.discarded = u.discarded
    BY <1>2, <2>1, <2>4 DEF Row
  <2> HIDE DEF s, q, g
  <2>7. NoWorse(row[g], t)
    BY <1>2, <2>1, <2>3, <2>5, <2>6 DEF NoWorse, Gone, Sound, SameFate
  <2>8. QED
    BY <1>1, <1>2, <2>1, <2>2, <2>7, OneNoWorse
<1>7. CASE AutoAccept(w)
  BY <1>1, <1>7, WorkShape, ImportNoWorse DEF AutoAccept
<1>8. CASE DeferImport(w)
  <2>1. g \in Generations /\ (row' = [row EXCEPT ![g] = Unleased(@)] \/ row' = row)
    BY <1>1, <1>8, WorkShape DEF DeferImport
  <2>2. QED
    BY <1>1, <1>3, <2>1, LeaseNoWorse
<1>9. \/ UNCHANGED row
      \/ ConfirmOwnership(w)
      \/ ApplySuccess(w) /\ Owns(w)
      \/ ApplyFailure(w) /\ Owns(w)
      \/ AutoAccept(w) \/ DeferImport(w)
  BY DEF Execute, FindResult, WriteMarker, Send, AnswerImage, AnswerFailure, PersistReady,
         WriteDraft, ApplySuccess, AfterSuccess, AfterFenced, ApplyFailure, FindStagingOrphans,
         CleanStaging, CleanOutput
<1>10. QED
  BY <1>3, <1>4, <1>5, <1>6, <1>7, <1>8, <1>9

LEMMA ClaimNoWorse ==
  ASSUME ResultInv, NEW w \in Workers, TakeWork(w)
  PROVE  \A f \in Generations : NoWorse(row[f], row'[f])
<1>1. PICK passed, taken, bad \in SUBSET Generations : Claim(w, passed, taken, bad)
  BY DEF TakeWork
<1> DEFINE loaded == {g \in Candidates : Staged(g)} \ bad
           hopeless == Hopeless(loaded)
<1>2. /\ TypeOK /\ row \in [Generations -> LeasedRow]
      /\ \A g \in Generations : Sound(row[g])
  BY Types DEF ResultInv, DraftInv
<1>3. /\ passed \subseteq hopeless /\ taken \subseteq Candidates \ hopeless /\ hopeless \subseteq Candidates
      /\ row' = [g \in Generations |-> CASE g \in passed -> Refused(row[g])
                                         [] g \in taken  -> Taken(w, g, loaded)
                                         [] OTHER        -> row[g]]
  BY <1>1 DEF Claim, Hopeless
<1> HIDE DEF loaded, hopeless
<1>4. ASSUME NEW g \in Candidates
      PROVE  /\ g \in Generations /\ row[g] \in Row /\ Sound(row[g]) /\ row[g].generation \in Nat
             /\ row[g].status \in {"queued", "running"} /\ ~row[g].discarded /\ ~row[g].asset
  BY <1>2 DEF Candidates, LeasedRow, Row
<1>5. ASSUME NEW g \in passed PROVE NoWorse(row[g], row'[g])
  <2> DEFINE u == Unleased(row[g])
             n == IF row[g].status = "running" THEN row[g].generation + 1 ELSE row[g].generation
             b == row[g].attempt < HardMaxAttempts
             r == [u EXCEPT !.status = "failed", !.retryable = b, !.generation = n]
  <2>1. row'[g] = r
    BY <1>3, <1>4, <1>5 DEF Refused
  <2>2. g \in Candidates /\ n \in Nat /\ n >= row[g].generation
    BY <1>3, <1>4, <1>5
  <2>3. u \in Row /\ SameFate(row[g], u)
    BY <1>4, <2>2, LeaseFates
  <2> HIDE DEF u, n, b
  <2>4. /\ r.status = "failed" /\ r.generation = n /\ r.asset = u.asset
        /\ r.expired = u.expired
    BY <2>3 DEF Row
  <2> HIDE DEF r
  <2>5. QED
    BY <1>4, <2>1, <2>2, <2>3, <2>4 DEF NoWorse, Gone, Sound, SameFate
<1>6. ASSUME NEW g \in taken PROVE NoWorse(row[g], row'[g])
  <2> DEFINE n == row[g].generation + 1
             a == row[g].attempt + Spent(g, loaded)
             r == [row[g] EXCEPT !.status = "running", !.attempt = a, !.generation = n,
                                 !.owner = w, !.lease = "live", !.retryable = FALSE]
  <2>1. g \in Candidates /\ g \notin passed
    BY <1>3, <1>6
  <2>2. row'[g] = r
    BY <1>3, <1>4, <1>6, <2>1 DEF Taken
  <2>3. n \in Nat /\ n >= row[g].generation
    BY <1>4, <2>1
  <2> HIDE DEF n, a
  <2>4. /\ r.status = "running" /\ r.generation = n /\ r.asset = row[g].asset
        /\ r.expired = row[g].expired
    BY <1>4, <2>1 DEF Row
  <2> HIDE DEF r
  <2>5. QED
    BY <1>4, <2>1, <2>2, <2>3, <2>4 DEF NoWorse, Gone, Sound
<1>7. ASSUME NEW g \in Generations, g \notin passed, g \notin taken
      PROVE  NoWorse(row[g], row'[g])
  <2>1. row'[g] = row[g]
    BY <1>3, <1>7
  <2>2. QED
    BY <1>2, <2>1, SameNoWorse
<1>8. QED
  BY <1>5, <1>6, <1>7

\* No step takes back what made the files of a generation superfluous.
LEMMA RowsNoWorse ==
  ASSUME ResultInv, [Next]_vars
  PROVE  \A f \in Generations : NoWorse(row[f], row'[f])
<1>1. TypeOK /\ (\A f \in Generations : Sound(row[f])) /\ work \in [Workers -> Work]
  BY Types DEF ResultInv, DraftInv
<1>2. CASE UNCHANGED row
  BY <1>1, <1>2, SameNoWorse
<1>3. ASSUME NEW g \in Generations, RetentionEnds(g)
      PROVE  \A f \in Generations : NoWorse(row[f], row'[f])
  <2> DEFINE s == [row[g] EXCEPT !.expired = TRUE]
  <2>1. row' = [row EXCEPT ![g] = s] /\ row[g] \in Row /\ Sound(row[g])
        /\ row[g].status \notin {"absent", "deleted"} /\ row[g].generation \in Nat
    BY <1>1, <1>3, Types DEF RetentionEnds, LeasedRow, Row
  <2>2. s.status = row[g].status /\ s.generation = row[g].generation /\ s.asset = row[g].asset
        /\ s.expired
    BY <2>1 DEF Row
  <2> HIDE DEF s
  <2>3. NoWorse(row[g], s)
    BY <2>1, <2>2 DEF NoWorse, Gone, Sound
  <2>4. QED
    BY <1>1, <2>1, <2>3, OneNoWorse
<1>4. ASSUME NEW w \in Workers, DiscardExpired(w)
      PROVE  \A f \in Generations : NoWorse(row[f], row'[f])
  <2> TAKE f \in Generations
  <2> DEFINE s == [row[f] EXCEPT !.discarded = TRUE, !.draft = NoDraft]
  <2>1. row[f] \in Row /\ Sound(row[f]) /\ row[f].generation \in Nat
    BY <1>1, Types DEF LeasedRow, Row
  <2>2. CASE Retired(f)
    <3>1. row'[f] = s /\ row[f].status # "absent"
      BY <1>4, <2>2 DEF DiscardExpired, Retired, Finished
    <3>2. s.status = row[f].status /\ s.generation = row[f].generation
          /\ s.asset = row[f].asset /\ s.discarded
      BY <2>1 DEF Row, NoDraft
    <3> HIDE DEF s
    <3>3. QED
      BY <2>1, <3>1, <3>2 DEF NoWorse, Gone, Sound
  <2>3. CASE ~Retired(f)
    <3>1. row'[f] = row[f]
      BY <1>4, <2>3 DEF DiscardExpired
    <3>2. QED
      BY <1>1, <3>1, SameNoWorse
  <2>4. QED
    BY <2>2, <2>3
<1>5. ASSUME NEW g \in Generations, LeaseExpires(g)
      PROVE  \A f \in Generations : NoWorse(row[f], row'[f])
  BY <1>1, <1>5, LeaseNoWorse DEF LeaseExpires
<1>6. ASSUME NEW w \in Workers, NEW g \in Generations, ClaimImport(w, g)
      PROVE  \A f \in Generations : NoWorse(row[f], row'[f])
  BY <1>1, <1>6, LeaseNoWorse DEF ClaimImport
<1>7. ASSUME NEW w \in Workers, RenewLease(w)
      PROVE  \A f \in Generations : NoWorse(row[f], row'[f])
  <2>1. work[w].id \in Generations
    BY <1>1, <1>7, WorkShape DEF RenewLease, AttemptPoints, Attempt, FailingAttempt
  <2>2. QED
    BY <1>1, <1>7, <2>1, LeaseNoWorse DEF RenewLease
<1>8. CASE UNCHANGED vars
  BY <1>2, <1>8 DEF vars
<1>9. ASSUME NEW w \in Workers, Unexpected(w) \/ Crash(w)
      PROVE  \A f \in Generations : NoWorse(row[f], row'[f])
  BY <1>2, <1>9 DEF Unexpected, Crash
<1>10. QED
  BY <1>3, <1>4, <1>5, <1>6, <1>7, <1>8, <1>9, RequestNoWorse, ClaimNoWorse, ExecuteNoWorse
     DEF Next

-----------------------------------------------------------------------------
(* What a step makes of the workers and of the stored results *)

\* A claim of a number that no stored result carries yet.
Fresh(v) ==
  /\ work'[v].id \in Generations
  /\ work'[v].generation > row[work'[v].id].generation
  /\ UNCHANGED staging

\* Where an unpaid execution, a published one and a sweep come from.
Follows(v) ==
  /\ Unpaid(v)' =>
       \/ Unpaid(v) /\ work'[v].id = work[v].id /\ work'[v].generation = work[v].generation
       \/ Fresh(v)
  /\ work'[v].at = "published" =>
       \/ work[v].at = "published" /\ work'[v].id = work[v].id
       \/ row'[work'[v].id].status = "succeeded"
  /\ work'[v].at = "cleanStaging" =>
       \/ work[v].at = "cleanStaging" /\ work'[v].doomed = work[v].doomed
       \/ UNCHANGED row /\ \A g \in work'[v].doomed : Over(row[g])

LEMMA OneFollows ==
  ASSUME NEW w \in Workers, \A v \in Workers : v # w => work'[v] = work[v], Follows(w)
  PROVE  \A v \in Workers : Follows(v)
  BY DEF Follows, Unpaid

\* Points that ask for nothing.
LEMMA QuietFollows ==
  ASSUME NEW w \in Workers,
         work'[w].at \in {"idle", "staged", "drafted", "fenced", "importing", "findStaging",
                          "cleanOutput"}
  PROVE  Follows(w)
  BY DEF Follows, Unpaid, UnpaidPoints

LEMMA MovedFollows ==
  ASSUME work \in [Workers -> Work], NEW w \in Workers, work[w].at \in UnpaidPoints,
         NEW point \in UnpaidPoints, work' = Moved(w, point)
  PROVE  \A v \in Workers : Follows(v)
<1>1. /\ \A v \in Workers : v # w => work'[v] = work[v]
      /\ work'[w].at = point /\ work'[w].id = work[w].id
      /\ work'[w].generation = work[w].generation
  BY MovedTyped DEF UnpaidPoints, AttemptPoints
<1>2. Follows(w)
  BY <1>1 DEF Follows, Unpaid, UnpaidPoints
<1>3. QED
  BY <1>1, <1>2, OneFollows

LEMMA QuietlyMovedFollows ==
  ASSUME work \in [Workers -> Work], NEW w \in Workers, work[w].at \in AttemptPoints,
         NEW point \in {"staged", "drafted", "fenced"}, work' = Moved(w, point)
  PROVE  \A v \in Workers : Follows(v)
<1>1. (\A v \in Workers : v # w => work'[v] = work[v]) /\ work'[w].at = point
  BY MovedTyped DEF AttemptPoints
<1>2. QED
  BY <1>1, QuietFollows, OneFollows

LEMMA ReplacedFollows ==
  ASSUME NEW w \in Workers, \A v \in Workers : v # w => work'[v] = work[v],
         work'[w].at \in {"idle", "staged", "drafted", "fenced", "importing", "findStaging",
                          "cleanOutput"}
  PROVE  \A v \in Workers : Follows(v)
  BY QuietFollows, OneFollows

LEMMA FailingFollows ==
  ASSUME work \in [Workers -> Work], NEW w \in Workers, work[w].at \in AttemptPoints,
         NEW failure \in Failures,
         failure \in {"retryable", "permanent"} => work[w].at \in UnpaidPoints,
         work' = Failing(w, failure)
  PROVE  \A v \in Workers : Follows(v)
<1>1. /\ \A v \in Workers : v # w => work'[v] = work[v]
      /\ work'[w].at = "failing" /\ work'[w].id = work[w].id
      /\ work'[w].generation = work[w].generation
  BY FailingTyped
<1>2. work'[w].failure = failure
  BY DEF Failing
<1>3. Follows(w)
  BY <1>1, <1>2 DEF Follows, Unpaid, UnpaidPoints
<1>4. QED
  BY <1>1, <1>3, OneFollows

LEMMA ExecuteFollows ==
  ASSUME ResultInv, NEW w \in Workers, Execute(w)
  PROVE  \A v \in Workers : Follows(v)
<1>1. TypeOK /\ work \in [Workers -> Work] /\ row \in [Generations -> LeasedRow] /\ Idle.at = "idle"
  BY Types DEF ResultInv, DraftInv, Idle
<1>2. CASE work' = [work EXCEPT ![w] = Idle]
  <2>1. work'[w].at = "idle" /\ \A v \in Workers : v # w => work'[v] = work[v]
    BY <1>1, <1>2
  <2>2. QED
    BY <2>1, ReplacedFollows
<1>3. ASSUME NEW bad \in BOOLEAN, FindResult(w, bad) PROVE \A v \in Workers : Follows(v)
  <2>1. work[w].at \in AttemptPoints /\ work[w].at \in UnpaidPoints
    BY <1>3 DEF FindResult, AttemptPoints, UnpaidPoints
  <2>2. \/ work' = [work EXCEPT ![w] = Idle]
        \/ work' = Moved(w, "staged")
        \/ work' = Failing(w, "ambiguous")
        \/ work' = Moved(w, "unsent")
    BY <1>3 DEF FindResult
  <2>3. "ambiguous" \in Failures /\ "unsent" \in UnpaidPoints
    BY DEF Failures, UnpaidPoints
  <2>4. QED
    BY <1>1, <1>2, <2>1, <2>2, <2>3, QuietlyMovedFollows, FailingFollows, MovedFollows
<1>4. CASE ConfirmOwnership(w)
  BY <1>1, <1>2, <1>4, MovedFollows DEF ConfirmOwnership, UnpaidPoints
<1>5. CASE WriteMarker(w)
  BY <1>1, <1>5, MovedFollows DEF WriteMarker, UnpaidPoints
<1>6. CASE Send(w)
  BY <1>1, <1>6, MovedFollows DEF Send, UnpaidPoints
<1>7. CASE AnswerImage(w)
  BY <1>1, <1>7, MovedFollows DEF AnswerImage, UnpaidPoints
<1>8. ASSUME NEW failure \in Failures, AnswerFailure(w, failure)
      PROVE  \A v \in Workers : Follows(v)
  BY <1>1, <1>8, FailingFollows DEF AnswerFailure, UnpaidPoints, AttemptPoints
<1>9. CASE PersistReady(w)
  BY <1>1, <1>9, QuietlyMovedFollows DEF PersistReady, AttemptPoints
<1>10. CASE WriteDraft(w)
  BY <1>1, <1>10, QuietlyMovedFollows DEF WriteDraft, AttemptPoints
<1>11. CASE ApplySuccess(w)
  <2>1. work[w].at \in AttemptPoints /\ "published" \in AttemptPoints
    BY <1>11 DEF ApplySuccess, AttemptPoints
  <2>2. CASE ~Owns(w)
    BY <1>1, <1>11, <2>1, <2>2, QuietlyMovedFollows DEF ApplySuccess
  <2>3. CASE Owns(w)
    <3> DEFINE g == work[w].id
               u == Unleased(row[g])
               n == work[w].generation
               s == [u EXCEPT !.status = "succeeded", !.retryable = FALSE, !.draft = n,
                              !.expired = FALSE]
    <3>1. row' = [row EXCEPT ![g] = s] /\ work' = Moved(w, "published")
      BY <1>11, <2>3 DEF ApplySuccess
    <3>2. g \in Generations /\ u \in Row
      BY <1>1, <2>1, WorkShape, LeaseFates DEF Attempt, LeasedRow
    <3> HIDE DEF u, n, g
    <3>3. s.status = "succeeded"
      BY <3>2 DEF Row, NoDraft
    <3> HIDE DEF s
    <3>4. row'[g].status = "succeeded"
      BY <1>1, <3>1, <3>2, <3>3
    <3>5. /\ \A v \in Workers : v # w => work'[v] = work[v]
          /\ work'[w].at = "published" /\ work'[w].id = work[w].id
      BY <1>1, <2>1, <3>1, MovedTyped
    <3>6. Follows(w)
      BY <3>4, <3>5 DEF Follows, Unpaid, UnpaidPoints, g
    <3>7. QED
      BY <3>5, <3>6, OneFollows
  <2>4. QED
    BY <2>2, <2>3
<1>12. CASE AfterSuccess(w)
  <2> DEFINE e == IF row[work[w].id].autoImport THEN [at |-> "importing", id |-> work[w].id]
                  ELSE Idle
  <2>1. work' = [work EXCEPT ![w] = e] /\ e.at \in {"idle", "importing"}
    BY <1>1, <1>12 DEF AfterSuccess
  <2> HIDE DEF e
  <2>2. work'[w].at \in {"idle", "importing"} /\ \A v \in Workers : v # w => work'[v] = work[v]
    BY <1>1, <2>1
  <2>3. QED
    BY <2>2, ReplacedFollows
<1>13. CASE FindStagingOrphans(w)
  <2> DEFINE doomed == {g \in Generations : staging[g] # NoFiles /\ Over(row[g])}
             e == [at |-> "cleanStaging", doomed |-> doomed]
  <2>1. work' = [work EXCEPT ![w] = e] /\ UNCHANGED row
    BY <1>13 DEF FindStagingOrphans
  <2>2. e.at = "cleanStaging" /\ \A g \in e.doomed : Over(row[g])
    OBVIOUS
  <2> HIDE DEF e
  <2>3. work'[w] = e /\ \A v \in Workers : v # w => work'[v] = work[v]
    BY <1>1, <2>1
  <2>4. Follows(w)
    BY <2>1, <2>2, <2>3 DEF Follows, Unpaid, UnpaidPoints
  <2>5. QED
    BY <2>3, <2>4, OneFollows
<1>14. CASE CleanStaging(w)
  <2>1. work'[w].at = "cleanOutput" /\ \A v \in Workers : v # w => work'[v] = work[v]
    BY <1>1, <1>14 DEF CleanStaging
  <2>2. QED
    BY <2>1, ReplacedFollows
<1>15. \/ work' = [work EXCEPT ![w] = Idle]
       \/ (\E bad \in BOOLEAN : FindResult(w, bad)) \/ ConfirmOwnership(w) \/ WriteMarker(w)
       \/ Send(w) \/ AnswerImage(w) \/ (\E failure \in Failures : AnswerFailure(w, failure))
       \/ PersistReady(w) \/ WriteDraft(w) \/ ApplySuccess(w) \/ AfterSuccess(w)
       \/ FindStagingOrphans(w) \/ CleanStaging(w)
  BY DEF Execute, AfterFenced, ApplyFailure, AutoAccept, DeferImport, CleanOutput
<1>16. QED
  BY <1>2, <1>3, <1>4, <1>5, <1>6, <1>7, <1>8, <1>9, <1>10, <1>11, <1>12, <1>13, <1>14, <1>15

LEMMA ClaimFollows ==
  ASSUME TypeOK, NEW w \in Workers, TakeWork(w)
  PROVE  \A v \in Workers : Follows(v)
<1>1. PICK passed, taken, bad \in SUBSET Generations : Claim(w, passed, taken, bad)
  BY DEF TakeWork
<1> DEFINE loaded == {g \in Candidates : Staged(g)} \ bad
<1>2. work \in [Workers -> Work]
  BY Types
<1>3. taken \subseteq Generations /\ UNCHANGED staging
  BY <1>1 DEF Claim
<1>4. \A v \in Workers : v # w => work'[v] = work[v]
  BY <1>1, <1>2 DEF Claim
<1>5. CASE taken = {}
  <2>1. work'[w] = Idle
    BY <1>1, <1>2, <1>5 DEF Claim
  <2>2. QED
    BY <1>4, <2>1, ReplacedFollows DEF Idle
<1>6. CASE taken # {}
  <2> DEFINE h == CHOOSE g \in taken : TRUE
             e == [at |-> "claimed", id |-> h, reuse |-> h \in loaded,
                   generation |-> row[h].generation + 1]
  <2>1. h \in Generations
    BY <1>3, <1>6
  <2>2. work' = [work EXCEPT ![w] = e]
    BY <1>1, <1>6 DEF Claim
  <2>3. e.at = "claimed" /\ e.id = h /\ e.generation = row[h].generation + 1
    OBVIOUS
  <2> HIDE DEF e, h
  <2>4. work'[w] = e
    BY <1>2, <2>2
  <2>5. row[h].generation \in Nat
    BY <2>1, GenerationsTyped
  <2>6. Fresh(w)
    BY <1>3, <2>1, <2>3, <2>4, <2>5 DEF Fresh
  <2>7. Follows(w)
    BY <2>3, <2>4, <2>6 DEF Follows
  <2>8. QED
    BY <1>4, <2>7, OneFollows
<1>7. QED
  BY <1>5, <1>6

LEMMA NextFollows ==
  ASSUME ResultInv, [Next]_vars
  PROVE  \A v \in Workers : Follows(v)
<1>1. TypeOK /\ work \in [Workers -> Work]
  BY Types DEF ResultInv, DraftInv
<1>2. CASE UNCHANGED work
  BY <1>2 DEF Follows, Unpaid
<1>3. ASSUME NEW w \in Workers, work'[w].at \in {"idle", "importing", "findStaging"},
             \A v \in Workers : v # w => work'[v] = work[v]
      PROVE  \A v \in Workers : Follows(v)
  BY <1>3, ReplacedFollows
<1>4. ASSUME NEW w \in Workers, Crash(w) PROVE \A v \in Workers : Follows(v)
  <2>1. work'[w].at = "idle" /\ \A v \in Workers : v # w => work'[v] = work[v]
    BY <1>1, <1>4 DEF Crash, Idle
  <2>2. QED
    BY <1>3, <2>1
<1>5. ASSUME NEW w \in Workers, DiscardExpired(w) PROVE \A v \in Workers : Follows(v)
  <2>1. work'[w].at = "findStaging" /\ \A v \in Workers : v # w => work'[v] = work[v]
    BY <1>1, <1>5 DEF DiscardExpired
  <2>2. QED
    BY <1>3, <2>1
<1>6. ASSUME NEW w \in Workers, NEW g \in Generations, ClaimImport(w, g)
      PROVE  \A v \in Workers : Follows(v)
  <2>1. work'[w].at = "importing" /\ \A v \in Workers : v # w => work'[v] = work[v]
    BY <1>1, <1>6 DEF ClaimImport
  <2>2. QED
    BY <1>3, <2>1
<1>7. ASSUME NEW w \in Workers, Unexpected(w) PROVE \A v \in Workers : Follows(v)
  <2>1. CASE work' = [work EXCEPT ![w] = Idle]
    <3>1. work'[w].at = "idle" /\ \A v \in Workers : v # w => work'[v] = work[v]
      BY <1>1, <2>1 DEF Idle
    <3>2. QED
      BY <1>3, <3>1
  <2>2. CASE work' = Failing(w, "internal")
    BY <1>1, <1>7, <2>2, FailingFollows DEF Unexpected, AttemptPoints, Failures
  <2>3. QED
    BY <1>7, <2>1, <2>2 DEF Unexpected
<1>8. CASE UNCHANGED vars
  BY <1>2, <1>8 DEF vars
<1>9. ASSUME NEW g \in Generations, Request(g) \/ LeaseExpires(g) \/ RetentionEnds(g)
      PROVE  UNCHANGED work
  BY <1>9 DEF Request, Create, Retry, Cancel, Discard, Accept, DeleteAsset, DeleteProject,
              LeaseExpires, RetentionEnds
<1>10. ASSUME NEW w \in Workers, RenewLease(w) PROVE UNCHANGED work
  BY <1>10 DEF RenewLease
<1>11. QED
  BY <1>1, <1>2, <1>4, <1>5, <1>6, <1>7, <1>8, <1>9, <1>10, ClaimFollows, ExecuteFollows
     DEF Next

\* No result is stored in this step.
NothingStored == \A g \in Generations : staging'[g].ready \subseteq staging[g].ready

LEMMA FilesRemoved ==
  ASSUME TypeOK, NEW g \in Generations, StagingRemoved(g)
  PROVE  NothingStored
<1>1. staging \in [Generations -> Files] /\ NoFiles.ready = {}
  BY Types DEF NoFiles
<1>2. QED
  BY <1>1 DEF StagingRemoved, NothingStored

LEMMA ExecuteStores ==
  ASSUME TypeOK, NEW w \in Workers, Execute(w)
  PROVE  NothingStored \/ PersistReady(w)
<1>1. /\ staging \in [Generations -> Files] /\ work \in [Workers -> Work]
      /\ NoFiles.ready = {}
  BY Types DEF NoFiles
<1>2. CASE UNCHANGED staging
  BY <1>2 DEF NothingStored
<1>3. ASSUME work[w].at \in AttemptPoints \union {"failing"}
      PROVE  work[w].id \in Generations /\ staging[work[w].id] \in Files
  BY <1>1, <1>3, WorkShape DEF Attempt, FailingAttempt
<1>4. CASE WriteMarker(w)
  <2> DEFINE f == [staging[work[w].id] EXCEPT !.submitted = @ \union {work[w].generation}]
  <2>1. staging[work[w].id] \in Files
    BY <1>3, <1>4 DEF WriteMarker, AttemptPoints
  <2>2. f.ready = staging[work[w].id].ready
    BY <2>1 DEF Files
  <2>3. staging' = [staging EXCEPT ![work[w].id] = f]
    BY <1>4 DEF WriteMarker
  <2> HIDE DEF f
  <2>4. QED
    BY <1>1, <2>2, <2>3 DEF NothingStored
<1>5. CASE AfterSuccess(w) \/ AfterFenced(w)
  <2>1. staging' = [staging EXCEPT ![work[w].id] = NoFiles] \/ UNCHANGED staging
    BY <1>5 DEF AfterSuccess, AfterFenced
  <2>2. QED
    BY <1>1, <2>1 DEF NothingStored
<1>6. CASE ApplyFailure(w)
  <2> DEFINE g == work[w].id
             f == [submitted |-> staging[g].submitted \ {work[w].generation},
                   ready |-> staging[g].ready \ {work[w].generation}]
  <2>1. staging' = [staging EXCEPT ![g] = f] \/ UNCHANGED staging
    BY <1>6 DEF ApplyFailure
  <2>2. f.ready \subseteq staging[g].ready
    OBVIOUS
  <2> HIDE DEF f
  <2>3. QED
    BY <1>1, <2>1, <2>2 DEF NothingStored
<1>7. CASE CleanStaging(w)
  BY <1>1, <1>7 DEF CleanStaging, NothingStored
<1>8. CASE AutoAccept(w)
  <2>1. work[w].id \in Generations /\ StagingRemoved(work[w].id)
    BY <1>1, <1>8, WorkShape DEF AutoAccept, Imported
  <2>2. QED
    BY <2>1, FilesRemoved
<1>9. \/ UNCHANGED staging \/ PersistReady(w)
      \/ WriteMarker(w) \/ AfterSuccess(w) \/ AfterFenced(w) \/ ApplyFailure(w)
      \/ CleanStaging(w) \/ AutoAccept(w)
  BY DEF Execute, FindResult, ConfirmOwnership, Send, AnswerImage, AnswerFailure, WriteDraft,
         ApplySuccess, DeferImport, FindStagingOrphans, CleanOutput
<1>10. QED
  BY <1>2, <1>4, <1>5, <1>6, <1>7, <1>8, <1>9

LEMMA NextStores ==
  ASSUME TypeOK, [Next]_vars
  PROVE  NothingStored \/ \E w \in Workers : PersistReady(w)
<1>1. CASE UNCHANGED staging
  BY <1>1 DEF NothingStored
<1>2. ASSUME NEW g \in Generations, Request(g) \/ LeaseExpires(g) \/ RetentionEnds(g)
      PROVE  UNCHANGED staging \/ StagingRemoved(g)
  BY <1>2 DEF Request, Create, Retry, Cancel, Discard, Accept, Imported, DeleteAsset,
              DeleteProject, LeaseExpires, RetentionEnds
<1>3. ASSUME NEW w \in Workers,
             \/ TakeWork(w) \/ DiscardExpired(w) \/ RenewLease(w) \/ Unexpected(w) \/ Crash(w)
             \/ \E g \in Generations : ClaimImport(w, g)
      PROVE  UNCHANGED staging
  BY <1>3 DEF TakeWork, Claim, DiscardExpired, RenewLease, Unexpected, Crash, ClaimImport
<1>4. CASE UNCHANGED vars
  BY <1>1, <1>4 DEF vars
<1>5. QED
  BY <1>1, <1>2, <1>3, <1>4, FilesRemoved, ExecuteStores DEF Next

LEMMA StoreEffect ==
  ASSUME DraftInv, NEW w \in Workers, PersistReady(w)
  PROVE  /\ UNCHANGED row /\ Open(w) /\ ~(Unpaid(w)')
         /\ \A g \in Generations : \A n \in staging'[g].ready :
              n \in staging[g].ready \/ (g = work[w].id /\ n = work[w].generation)
<1> DEFINE h == work[w].id
           f == [staging[h] EXCEPT !.ready = @ \union {work[w].generation}]
<1>1. TypeOK /\ work \in [Workers -> Work] /\ staging \in [Generations -> Files]
  BY Types DEF DraftInv
<1>2. work[w].at = "answered" /\ UNCHANGED row /\ staging' = [staging EXCEPT ![h] = f]
      /\ work' = Moved(w, "staged")
  BY DEF PersistReady
<1>3. Open(w) /\ work[w].at \in AttemptPoints
  BY <1>2 DEF Open, OpenPoints, AttemptPoints
<1>4. h \in Generations /\ staging[h] \in Files
  BY <1>1, <1>3, OpenTyped
<1>5. f.ready = staging[h].ready \union {work[w].generation}
  BY <1>4 DEF Files
<1>6. work'[w].at = "staged"
  BY <1>1, <1>2, <1>3, MovedTyped DEF AttemptPoints
<1> HIDE DEF f, h
<1>7. \A g \in Generations : \A n \in staging'[g].ready :
        n \in staging[g].ready \/ (g = h /\ n = work[w].generation)
  BY <1>1, <1>2, <1>5
<1>8. QED
  BY <1>2, <1>3, <1>6, <1>7 DEF h, Unpaid, UnpaidPoints

LEMMA OverGone ==
  ASSUME NEW r, Sound(r), Over(r)
  PROVE  Gone(r)
  BY DEF Sound, Over, Gone

LEMMA ResultStep == ASSUME ResultInv, [Next]_vars PROVE ResultInv'
<1>1. DraftInv'
  BY DraftStep DEF ResultInv
<1>2. \A g \in Generations : NoWorse(row[g], row'[g])
  BY RowsNoWorse
<1>3. \A v \in Workers : Follows(v)
  BY NextFollows
<1>4. /\ DraftInv /\ TypeOK /\ TypeOK'
      /\ work \in [Workers -> Work] /\ work' \in [Workers -> Work]
      /\ staging \in [Generations -> Files]
  BY <1>1, Types DEF ResultInv, DraftInv, TypeOK, Work
<1>5. NothingStored \/ \E w \in Workers : PersistReady(w)
  BY <1>4, NextStores
<1>6. \A g \in Generations : row[g].generation \in Nat /\ row'[g].generation \in Nat
  BY <1>4, GenerationsTyped
<1>7. ReadyPast'
  <2> SUFFICES ASSUME NEW g \in Generations, NEW n \in staging'[g].ready
               PROVE  n <= row'[g].generation
    BY DEF ReadyPast
  <2>1. CASE n \in staging[g].ready
    <3>1. n <= row[g].generation /\ n \in Nat
      BY <1>4, <2>1 DEF ResultInv, ReadyPast, Files
    <3>2. QED
      BY <1>2, <1>6, <3>1 DEF NoWorse
  <2>2. CASE n \notin staging[g].ready
    <3>1. PICK w \in Workers : PersistReady(w)
      BY <1>5, <2>2 DEF NothingStored
    <3>2. UNCHANGED row /\ Open(w) /\ g = work[w].id /\ n = work[w].generation
      BY <1>4, <2>2, <3>1, StoreEffect
    <3>3. n \in 1..row[g].generation
      BY <1>4, <3>2 DEF DraftInv, ExecutionsFenced
    <3>4. QED
      BY <1>6, <3>2, <3>3
  <2>3. QED
    BY <2>1, <2>2
<1>8. UnpaidStoredNothing'
  <2> SUFFICES ASSUME NEW v \in Workers, Unpaid(v)'
               PROVE  work'[v].generation \notin staging'[work'[v].id].ready
    BY DEF UnpaidStoredNothing, Unpaid
  <2>1. CASE Fresh(v)
    <3>1. ASSUME work'[v].generation \in staging[work'[v].id].ready PROVE FALSE
      <4>1. work'[v].id \in Generations /\ work'[v].generation > row[work'[v].id].generation
        BY <2>1 DEF Fresh
      <4>2. work'[v].generation <= row[work'[v].id].generation /\ work'[v].generation \in Nat
        BY <1>4, <3>1, <4>1 DEF ResultInv, ReadyPast, Files
      <4>3. QED
        BY <1>6, <4>1, <4>2
    <3>2. QED
      BY <2>1, <3>1 DEF Fresh
  <2>2. CASE ~Fresh(v)
    <3> DEFINE g == work[v].id
               n == work[v].generation
    <3>1. Unpaid(v) /\ work'[v].id = g /\ work'[v].generation = n
      BY <1>3, <2>2 DEF Follows
    <3>2. Open(v) /\ g \in Generations /\ n \notin staging[g].ready
      <4>1. Open(v)
        BY <3>1 DEF Unpaid, UnpaidPoints, Open, OpenPoints
      <4>2. QED
        BY <1>4, <3>1, <4>1, OpenTyped DEF ResultInv, UnpaidStoredNothing
    <3>3. ASSUME n \in staging'[g].ready PROVE FALSE
      <4>1. PICK w \in Workers : PersistReady(w)
        BY <1>5, <3>2, <3>3 DEF NothingStored
      <4>2. Open(w) /\ ~(Unpaid(w)') /\ g = work[w].id /\ n = work[w].generation
        BY <1>4, <3>2, <3>3, <4>1, StoreEffect
      <4>3. v # w
        BY <4>2
      <4>4. QED
        BY <1>4, <3>2, <4>2, <4>3 DEF DraftInv, ExecutionsDiffer
    <3>4. QED
      BY <3>1, <3>3
  <2>3. QED
    BY <2>1, <2>2
<1>9. PublishedSettled'
  <2> SUFFICES ASSUME NEW v \in Workers, work'[v].at = "published"
               PROVE  row'[work'[v].id].status \in {"succeeded", "deleted"}
    BY DEF PublishedSettled
  <2>1. CASE row'[work'[v].id].status = "succeeded"
    BY <2>1
  <2>2. CASE work[v].at = "published" /\ work'[v].id = work[v].id
    <3>1. work[v].id \in Generations
      BY <1>4, <2>2, WorkShape DEF AttemptPoints, Attempt
    <3>2. row[work[v].id].status \in {"succeeded", "deleted"}
      BY <2>2 DEF ResultInv, PublishedSettled
    <3>3. QED
      BY <1>2, <2>2, <3>1, <3>2 DEF NoWorse
  <2>3. QED
    BY <1>3, <2>1, <2>2 DEF Follows
<1>10. SweepsDoomed'
  <2> SUFFICES ASSUME NEW v \in Workers, work'[v].at = "cleanStaging",
                      NEW g \in work'[v].doomed
               PROVE  Gone(row'[g])
    BY DEF SweepsDoomed
  <2>1. g \in Generations
    BY <1>4, WorkShape
  <2>2. Gone(row[g])
    <3>1. CASE work[v].at = "cleanStaging" /\ work'[v].doomed = work[v].doomed
      BY <3>1 DEF ResultInv, SweepsDoomed
    <3>2. CASE \A h \in work'[v].doomed : Over(row[h])
      BY <2>1, <3>2, OverGone DEF ResultInv
    <3>3. QED
      BY <1>3, <3>1, <3>2 DEF Follows
  <2>3. QED
    BY <1>2, <2>1, <2>2 DEF NoWorse
<1>11. \A g \in Generations : Sound(row'[g])
  BY <1>2 DEF NoWorse
<1>12. QED
  BY <1>1, <1>7, <1>8, <1>9, <1>10, <1>11 DEF ResultInv, Sound

LEMMA ResultInit == ASSUME Init PROVE ResultInv
<1>1. DraftInv
  BY DraftInit
<1>2. \A g \in Generations : Sound(row[g])
  <2> TAKE g \in Generations
  <2> DEFINE r == NewRow(FALSE)
             s == [r EXCEPT !.status = "absent"]
  <2>1. row[g] = s
    BY DEF Init
  <2>2. ~r.asset /\ ~r.expired /\ ~r.discarded /\ r \in Row
    BY NewRowTyped DEF NewRow, LeasedRow
  <2> HIDE DEF r
  <2>3. ~s.asset /\ ~s.expired /\ ~s.discarded
    BY <2>2 DEF Row
  <2>4. QED
    BY <2>1, <2>3 DEF Sound
<1>3. ReadyPast /\ UnpaidStoredNothing /\ PublishedSettled /\ SweepsDoomed
  <2>1. \A g \in Generations : staging[g].ready = {}
    BY DEF Init, NoFiles
  <2>2. \A w \in Workers : work[w].at = "idle"
    BY DEF Init, Idle
  <2>3. QED
    BY <2>1, <2>2 DEF ReadyPast, UnpaidStoredNothing, Unpaid, UnpaidPoints, PublishedSettled,
                      SweepsDoomed
<1>4. QED
  BY <1>1, <1>2, <1>3 DEF ResultInv

LEMMA ResultsInvariant == Spec => []ResultInv
<1>1. QED
  BY ResultInit, ResultStep, PTL DEF Spec

-----------------------------------------------------------------------------
(* Who empties a staging directory *)

\* A generation that loses its stored result.
Loses(g) == Staged(g) /\ staging'[g].ready = {}

LEMMA RemovalLoses ==
  ASSUME TypeOK, NEW h \in Generations, StagingRemoved(h), NEW g \in Generations, Loses(g)
  PROVE  g = h
<1>1. staging \in [Generations -> Files]
  BY Types
<1>2. QED
  BY <1>1 DEF StagingRemoved, Loses, Staged

LEMMA RequestSettles ==
  ASSUME ResultInv, NEW h \in Generations, Request(h), NEW g \in Generations, Loses(g)
  PROVE  Gone(row'[g]) \/ row'[g].asset
<1>1. TypeOK /\ row \in [Generations -> LeasedRow] /\ row[h] \in LeasedRow /\ row[h] \in Row
  BY Types DEF ResultInv, DraftInv, LeasedRow
<1> DEFINE u == Unleased(row[h])
<1>2. u \in Row
  BY <1>1, LeaseFates
<1>3. CASE Cancel(h)
  <2>1. g = h /\ row' = [row EXCEPT ![h] = Canceled(@)] /\ row[h].status \in {"queued", "running"}
    BY <1>1, <1>3, RemovalLoses DEF Cancel, Pending
  <2>2. Canceled(row[h]).status = "canceled"
    BY <1>1, <2>1, CanceledFate DEF ResultInv
  <2>3. QED
    BY <1>1, <2>1, <2>2 DEF Gone
<1>4. CASE Discard(h)
  <2> DEFINE r == IF h \in Pending THEN Canceled(row[h]) ELSE row[h]
             s == [r EXCEPT !.discarded = TRUE, !.draft = NoDraft]
  <2>1. g = h /\ row' = [row EXCEPT ![h] = s]
    BY <1>1, <1>4, RemovalLoses DEF Discard
  <2>2. r \in Row
    BY <1>1, DecidedTyped DEF LeasedRow
  <2> HIDE DEF r
  <2>3. s.discarded
    BY <2>2 DEF Row, NoDraft
  <2> HIDE DEF s
  <2>4. QED
    BY <1>1, <2>1, <2>3 DEF Gone
<1>5. CASE Accept(h)
  <2> DEFINE s == [u EXCEPT !.asset = TRUE, !.draft = NoDraft]
  <2>1. g = h /\ row' = [row EXCEPT ![h] = s]
    BY <1>1, <1>5, RemovalLoses DEF Accept, Imported
  <2> HIDE DEF u
  <2>2. s.asset
    BY <1>2 DEF Row, NoDraft
  <2> HIDE DEF s
  <2>3. QED
    BY <1>1, <2>1, <2>2
<1>6. CASE DeleteProject(h)
  <2> DEFINE n == row[h].generation + 1
             s == [u EXCEPT !.status = "deleted", !.generation = n, !.draft = NoDraft,
                            !.asset = FALSE]
  <2>1. g = h /\ row' = [row EXCEPT ![h] = s]
    BY <1>1, <1>6, RemovalLoses DEF DeleteProject
  <2> HIDE DEF u, n
  <2>2. s.status = "deleted"
    BY <1>2 DEF Row, NoDraft
  <2> HIDE DEF s
  <2>3. QED
    BY <1>1, <2>1, <2>2 DEF Gone
<1>7. CASE UNCHANGED staging
  BY <1>7 DEF Loses, Staged
<1>8. QED
  BY <1>3, <1>4, <1>5, <1>6, <1>7
     DEF Request, Create, Retry, Cancel, Discard, Accept, DeleteAsset, DeleteProject

LEMMA ExecuteSettles ==
  ASSUME ResultInv, NEW w \in Workers, Execute(w), NEW g \in Generations, Loses(g)
  PROVE  Gone(row'[g]) \/ row'[g].asset
<1> DEFINE h == work[w].id
           n == work[w].generation
<1>1. /\ DraftInv /\ TypeOK /\ work \in [Workers -> Work] /\ staging \in [Generations -> Files]
      /\ row \in [Generations -> LeasedRow]
  BY Types DEF ResultInv, DraftInv
<1>2. ASSUME UNCHANGED staging PROVE FALSE
  BY <1>2 DEF Loses, Staged
<1>3. ASSUME WriteMarker(w) \/ PersistReady(w) PROVE FALSE
  <2>1. h \in Generations /\ staging[h] \in Files
    BY <1>1, <1>3, WorkShape DEF WriteMarker, PersistReady, AttemptPoints, Attempt
  <2> DEFINE e == [staging[h] EXCEPT !.submitted = @ \union {n}]
             f == [staging[h] EXCEPT !.ready = @ \union {n}]
  <2>2. staging' = [staging EXCEPT ![h] = e] \/ staging' = [staging EXCEPT ![h] = f]
    BY <1>3 DEF WriteMarker, PersistReady
  <2>3. e.ready = staging[h].ready /\ f.ready # {}
    BY <2>1 DEF Files
  <2> HIDE DEF e, f, h
  <2>4. QED
    BY <1>1, <2>2, <2>3 DEF Loses, Staged
<1>4. CASE AfterSuccess(w)
  <2>1. work[w].at = "published" /\ UNCHANGED row /\ staging' = [staging EXCEPT ![h] = NoFiles]
    BY <1>4 DEF AfterSuccess
  <2>2. g = h
    BY <1>1, <2>1 DEF Loses, Staged
  <2>3. row[g].status \in {"succeeded", "deleted"}
    BY <2>1, <2>2 DEF ResultInv, PublishedSettled
  <2>4. QED
    BY <2>1, <2>3 DEF Gone
<1>5. CASE AfterFenced(w)
  <2>1. UNCHANGED row /\ staging' = [staging EXCEPT ![h] = NoFiles]
        /\ (row[h].asset \/ row[h].discarded
            \/ row[h].status \in {"deleted", "succeeded", "canceled"})
    BY <1>2, <1>5 DEF AfterFenced
  <2>2. g = h
    BY <1>1, <2>1 DEF Loses, Staged
  <2>3. QED
    BY <2>1, <2>2 DEF Gone
<1>6. ASSUME ApplyFailure(w) PROVE FALSE
  <2> DEFINE f == [submitted |-> staging[h].submitted \ {n}, ready |-> staging[h].ready \ {n}]
  <2>1. /\ staging' = [staging EXCEPT ![h] = f]
        /\ work[w].at = "failing" /\ work[w].failure \in {"retryable", "permanent"}
    BY <1>2, <1>6 DEF ApplyFailure
  <2>2. n \notin staging[h].ready
    BY <2>1 DEF ResultInv, UnpaidStoredNothing, Unpaid
  <2>3. f.ready = staging[h].ready
    BY <2>2
  <2> HIDE DEF f, h
  <2>4. QED
    BY <1>1, <2>1, <2>3 DEF Loses, Staged
<1>7. CASE CleanStaging(w)
  <2>1. work[w].at = "cleanStaging" /\ UNCHANGED row /\ g \in work[w].doomed
    BY <1>1, <1>7 DEF CleanStaging, Loses, Staged
  <2>2. QED
    BY <2>1 DEF ResultInv, SweepsDoomed
<1>8. CASE AutoAccept(w)
  <2> DEFINE u == Unleased(row[h])
             s == [u EXCEPT !.asset = TRUE, !.draft = NoDraft]
  <2>1. h \in Generations
    BY <1>1, <1>8, WorkShape DEF AutoAccept
  <2>2. g = h /\ row' = [row EXCEPT ![h] = s]
    BY <1>1, <1>8, <2>1, RemovalLoses DEF AutoAccept, Imported
  <2>3. u \in Row
    BY <1>1, <2>1, LeaseFates DEF LeasedRow
  <2> HIDE DEF u, h
  <2>4. s.asset
    BY <2>3 DEF Row, NoDraft
  <2> HIDE DEF s
  <2>5. QED
    BY <1>1, <2>2, <2>4
<1>9. \/ UNCHANGED staging
      \/ WriteMarker(w) \/ PersistReady(w) \/ AfterSuccess(w) \/ AfterFenced(w)
      \/ ApplyFailure(w) \/ CleanStaging(w) \/ AutoAccept(w)
  BY DEF Execute, FindResult, ConfirmOwnership, Send, AnswerImage, AnswerFailure, WriteDraft,
         ApplySuccess, DeferImport, FindStagingOrphans, CleanOutput
<1>10. QED
  BY <1>2, <1>3, <1>4, <1>5, <1>6, <1>7, <1>8, <1>9

LEMMA LosesSettled ==
  ASSUME ResultInv, [Next]_vars, NEW g \in Generations, Loses(g)
  PROVE  Gone(row'[g]) \/ row'[g].asset
<1>1. ASSUME UNCHANGED staging PROVE FALSE
  BY <1>1 DEF Loses, Staged
<1>2. ASSUME NEW w \in Workers,
             \/ TakeWork(w) \/ DiscardExpired(w) \/ RenewLease(w) \/ Unexpected(w) \/ Crash(w)
             \/ \E h \in Generations : ClaimImport(w, h)
      PROVE  FALSE
  BY <1>1, <1>2 DEF TakeWork, Claim, DiscardExpired, RenewLease, Unexpected, Crash, ClaimImport
<1>3. ASSUME NEW h \in Generations, LeaseExpires(h) \/ RetentionEnds(h) PROVE FALSE
  BY <1>1, <1>3 DEF LeaseExpires, RetentionEnds
<1>4. CASE UNCHANGED vars
  BY <1>1, <1>4 DEF vars
<1>5. QED
  BY <1>2, <1>3, <1>4, RequestSettles, ExecuteSettles DEF Next

\* The image of a charged call stays until its generation is imported, discarded, decided
\* or expired: requests, failing executions and the staging sweep of image_worker.py
\* remove only what nobody can need again, however late they come.
THEOREM PaidResultsKept == Spec => PaidResultKept
<1>1. ASSUME ResultInv, [Next]_vars, NEW g \in Generations, Staged(g), staging'[g].ready = {}
      PROVE  \/ row'[g].expired \/ row'[g].asset \/ row'[g].discarded
             \/ row'[g].status \in {"succeeded", "canceled", "deleted"}
             \/ row'[g].status = "failed" /\ ~row'[g].retryable
  BY <1>1, LosesSettled DEF Loses, Gone
<1>2. ResultInv /\ [Next]_vars =>
        [\A g \in Generations :
           Staged(g) /\ staging'[g].ready = {} =>
             \/ row'[g].expired \/ row'[g].asset \/ row'[g].discarded
             \/ row'[g].status \in {"succeeded", "canceled", "deleted"}
             \/ row'[g].status = "failed" /\ ~row'[g].retryable]_vars
  BY <1>1
<1>3. QED
  BY <1>2, ResultsInvariant, PTL DEF Spec, PaidResultKept
=============================================================================
