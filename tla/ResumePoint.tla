----------------------------- MODULE ResumePoint -----------------------------
(***************************************************************************)
(* What checkpointing promises, with the files abstracted away: a running  *)
(* job and one resume point.  A restart continues from the resume point,   *)
(* or from the initial state when there is none, and the resume point only *)
(* ever becomes the state the job is in.  A job that publishes in place    *)
(* may withdraw the old point just before; no other step may lose it.      *)
(***************************************************************************)
CONSTANTS
  Nothing,      \* the point a fresh job starts from
  Down,         \* the job is not running
  Unreadable,   \* no restart can use the point
  MayWithdraw   \* publishing makes the point unreadable for a moment

VARIABLES
  running,      \* the state of the job, or Down
  point,        \* the state a restart would continue from
  withdrawn     \* the old point is gone and the new one is not there yet

vars == <<running, point, withdrawn>>

Init ==
  /\ running = Down
  /\ point = Nothing
  /\ withdrawn = FALSE

Work ==
  /\ running # Down
  /\ running' # Down
  /\ UNCHANGED <<point, withdrawn>>

Stop ==
  /\ running' = Down
  /\ UNCHANGED <<point, withdrawn>>

Withdraw ==
  /\ MayWithdraw
  /\ running # Down
  /\ point' = Unreadable
  /\ withdrawn' = TRUE
  /\ UNCHANGED running

Publish ==
  /\ running # Down
  /\ point' = running
  /\ withdrawn' = FALSE
  /\ UNCHANGED running

Restart ==
  /\ running = Down
  /\ point # Unreadable
  /\ running' = point
  /\ UNCHANGED <<point, withdrawn>>

Next == Work \/ Stop \/ Withdraw \/ Publish \/ Restart

Spec == Init /\ [][Next]_vars
=============================================================================
