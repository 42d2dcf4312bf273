--------------------------- MODULE MCRayPPOTrainer ---------------------------
(* Small instances of RayPPOTrainer for TLC. *)
EXTENDS RayPPOTrainer

TwoRanks == {0, 1}
OnlyAuto == {"auto"}
=============================================================================
