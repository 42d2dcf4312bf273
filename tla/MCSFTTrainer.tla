----------------------------- MODULE MCSFTTrainer -----------------------------
(* Small instances of SFTTrainer for TLC. *)
EXTENDS SFTTrainer

TwoRanks == {0, 1}
=============================================================================
