--------------------------- MODULE MCSGLangRollout ---------------------------
(* Small batches of multi-turn requests for TLC. *)
EXTENDS SGLangRollout

OneOfTwo == {1}
Second == {2}
None == {}
=============================================================================
