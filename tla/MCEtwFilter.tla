---------------------------- MODULE MCEtwFilter ----------------------------
(* EtwFilter for TLC: a root, a process it may start and one that is not   *)
(* of the tree (the kernel's own process, pid 0).                          *)
EXTENDS EtwFilter

CONSTANTS i1, o1, k1, a, b, m1

MCPids == {"zero", "root", "child"}
=============================================================================
