--------------------------- MODULE MCTtdRecording ---------------------------
(* TtdRecording for TLC: two RPCs, as either identity.                   *)
EXTENDS TtdRecording, TLC

CONSTANTS r1, r2

MCRecordings == {r1, r2}
=============================================================================
