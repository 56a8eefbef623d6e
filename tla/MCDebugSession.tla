--------------------------- MODULE MCDebugSession ---------------------------
(***************************************************************************)
(* DebugSession for TLC: two threads that run commands, a third that ends  *)
(* the session or runs a command too, and a fourth that ends it or cancels.*)
(***************************************************************************)
EXTENDS DebugSession, TLC

CONSTANTS t1, t2, t3, t4

MCThreads == {t1, t2, t3}
MCRoles == (t1 :> {"eval", "timed"}) @@ (t2 :> {"eval", "timed", "close"})
           @@ (t3 :> {"kill", "close", "cancel"})

MCThreads4 == {t1, t2, t3, t4}
MCRoles4 == (t1 :> {"eval", "timed"}) @@ (t2 :> {"eval", "timed"})
            @@ (t3 :> {"close", "cancel"}) @@ (t4 :> {"kill"})

\* t1 and t2 have the same roles.
Symmetry4 == {[t \in MCThreads4 |-> t],
              [t \in MCThreads4 |-> CASE t = t1 -> t2 [] t = t2 -> t1 [] OTHER -> t]}
=============================================================================
