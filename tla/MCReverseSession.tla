-------------------------- MODULE MCReverseSession --------------------------
(* ReverseSession for TLC: the open and three other RPCs of any kind.      *)
EXTENDS ReverseSession, TLC

CONSTANTS o, t1, t2, t3

MCThreads == {o, t1, t2, t3}
=============================================================================
