--------------------------- MODULE MCEtwRecording ---------------------------
(* EtwRecording for TLC: three RPCs compete to finish the recording.       *)
EXTENDS EtwRecording, TLC

CONSTANTS e1, e2, e3

MCEnders == {e1, e2, e3}
MCTargets == {"launch", "attach"}

=============================================================================
