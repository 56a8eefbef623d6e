---------------------------- MODULE MCEvalSteps ----------------------------
(* EvalSteps for TLC: a batch of two commands, a cancel of any of the      *)
(* three operations, and a kill.                                           *)
EXTENDS EvalSteps, TLC

CONSTANTS b, k, c1

MCCancels == {c1}
MCThreads == {b, k, c1}
=============================================================================
