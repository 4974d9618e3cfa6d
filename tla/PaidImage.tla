------------------------------- MODULE PaidImage -------------------------------
(***************************************************************************)
(* What the image queue promises about one generation, without workers,    *)
(* leases or files: a call is sent only while nothing is owed for an       *)
(* earlier one, and at most Cap times; an image is delivered only if a     *)
(* call was sent, and becomes an asset once; nobody gives a generation up  *)
(* while its call is on the way out; what was withdrawn stays so.          *)
(* ImageGeneration implements one such machine per row, if there is one    *)
(* worker and at most one stored result that cannot be read.               *)
(***************************************************************************)
EXTENDS Naturals

CONSTANT Cap  \* calls that a generation may cost

VARIABLES
  status,   \* of the generation, as far as its owner can tell
  account,  \* whether a call may be sent, is about to be, or may have been charged
  calls,    \* calls sent
  assets    \* assets made of the image

vars == <<status, account, calls, assets>>

Init ==
  /\ status = "none"
  /\ account = "free"
  /\ calls = 0
  /\ assets = 0

Request ==
  /\ status = "none"
  /\ status' = "pending"
  /\ UNCHANGED <<account, calls, assets>>

\* The decision to call; the generation may be withdrawn before the call goes out.
Decide ==
  /\ status = "pending" /\ account = "free" /\ calls < Cap
  /\ account' = "sending"
  /\ UNCHANGED <<status, calls, assets>>

Send ==
  /\ account = "sending"
  /\ account' = "owed"
  /\ calls' = calls + 1
  /\ UNCHANGED <<status, assets>>

\* The call is given up before it is sent, or the provider refuses it unpaid.
Waive ==
  /\ account \in {"sending", "owed"}
  /\ account' = "free"
  /\ UNCHANGED <<status, calls, assets>>

Deliver ==
  /\ status = "pending" /\ account # "sending" /\ calls > 0
  /\ status' = "ready"
  /\ UNCHANGED <<account, calls, assets>>

GiveUp ==
  /\ status = "pending" /\ account # "sending"
  /\ status' = "failed"
  /\ UNCHANGED <<account, calls, assets>>

\* A person asks once more, and so agrees to one more call.
Retry ==
  /\ status = "failed"
  /\ status' = "pending"
  /\ account' = "free"
  /\ UNCHANGED <<calls, assets>>

Import ==
  /\ status = "ready"
  /\ status' = "imported"
  /\ assets' = assets + 1
  /\ UNCHANGED <<account, calls>>

Withdraw ==
  /\ status \notin {"none", "over"}
  /\ status' = "over"
  /\ UNCHANGED <<account, calls, assets>>

Next ==
  Request \/ Decide \/ Send \/ Waive \/ Deliver \/ GiveUp \/ Retry \/ Import \/ Withdraw

Spec == Init /\ [][Next]_vars
=============================================================================
