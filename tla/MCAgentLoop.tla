----------------------------- MODULE MCAgentLoop -----------------------------
(* Small instances of AgentLoop for TLC. *)
EXTENDS AgentLoop, TLC

CONSTANTS v1, v2

TwoServers == {v1, v2}
=============================================================================
