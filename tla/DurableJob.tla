------------------------------ MODULE DurableJob ------------------------------
(***************************************************************************)
(* What the queue promises about one job, without workers, leases or       *)
(* threads: executions are started one after another, at most one of them  *)
(* publishes, it is the last one started, and success and cancellation are *)
(* final.  JobWorker implements one such machine per row of jobs.          *)
(***************************************************************************)
EXTENDS Naturals

VARIABLES
  status,     \* what the API reports
  started,    \* executions started so far
  published   \* the executions whose output is in the database

vars == <<status, started, published>>

Init ==
  /\ status = "queued"
  /\ started = 0
  /\ published = {}

\* A worker takes a queued job, or takes over one whose worker is lost.
Start ==
  /\ status \in {"queued", "running"}
  /\ status' = "running"
  /\ started' = started + 1
  /\ UNCHANGED published

\* The last execution started delivers, all at once.
Publish ==
  /\ status = "running"
  /\ status' = "succeeded"
  /\ published' = {started}
  /\ UNCHANGED started

GiveUp ==
  /\ status = "running"
  /\ status' = "failed"
  /\ UNCHANGED <<started, published>>

Retry ==
  /\ status = "failed"
  /\ status' = "queued"
  /\ UNCHANGED <<started, published>>

Cancel ==
  /\ status \in {"queued", "running"}
  /\ status' = "canceled"
  /\ UNCHANGED <<started, published>>

Delete ==
  /\ status # "deleted"
  /\ status' = "deleted"
  /\ UNCHANGED <<started, published>>

Next == Start \/ Publish \/ GiveUp \/ Retry \/ Cancel \/ Delete

Spec == Init /\ [][Next]_vars
==============================================================================
