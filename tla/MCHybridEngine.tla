---------------------------- MODULE MCHybridEngine ----------------------------
(* Small instances of HybridEngine for TLC. *)
EXTENDS HybridEngine

TwoRanks == {"r1", "r2"}

\* Every configuration but LoRA behind a server, which sends its requests
\* without the adapter, and servers that never sleep
Switching == {s \in Setting : ~(s.async /\ s.lora) /\ (s.async => s.free)}

\* Servers with rollout.free_cache_engine = False
KeptCache == {s \in Setting : s.async /\ ~s.free /\ ~s.lora}
=============================================================================
