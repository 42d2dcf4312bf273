------------------------ MODULE MCOneStepOffRayTrainer ------------------------
(* Small instances of OneStepOffRayTrainer for TLC. *)
EXTENDS OneStepOffRayTrainer

(* Batches balanced or not, rewards launched early or not, and both. *)
AllOptions == [balance : BOOLEAN, asyncReward : BOOLEAN]
=============================================================================
