-------------------------- MODULE MCFSDPSFTTrainer --------------------------
(* Small instances of FSDPSFTTrainer for TLC. *)
EXTENDS FSDPSFTTrainer

TwoRanks == {0, 1}
=============================================================================
