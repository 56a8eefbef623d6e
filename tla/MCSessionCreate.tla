-------------------------- MODULE MCSessionCreate --------------------------
(* SessionCreate for TLC: every kind of target.                            *)
EXTENDS SessionCreate

MCTargets == {"run", "dump", "attach", "launch"}
=============================================================================
