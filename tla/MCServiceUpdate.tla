-------------------------- MODULE MCServiceUpdate --------------------------
(* ServiceUpdate for TLC: two updates, one with a configuration and one    *)
(* that restarts the service.                                              *)
EXTENDS ServiceUpdate, TLC

CONSTANTS u1, u2

MCUpdaters == {u1, u2}
MCFirst    == {u1}
MCSecond   == {u2}
=============================================================================
