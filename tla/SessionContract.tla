-------------------------- MODULE SessionContract --------------------------
(***************************************************************************)
(* What the service promises about the operations of one debug session: a  *)
(* single server that accepts an operation only while the session is       *)
(* usable and no other operation is being executed, and that never becomes *)
(* usable again.                                                           *)
(***************************************************************************)
CONSTANTS Ops, NoOp

VARIABLES usable,   \* new commands are accepted
          current,  \* the operation being executed
          status    \* what operation.get reports

contractVars == <<usable, current, status>>

Init ==
  /\ usable = TRUE
  /\ current = NoOp
  /\ status = [o \in Ops |-> "none"]

\* The session takes an operation on.
Accept(o) ==
  /\ usable
  /\ current = NoOp
  /\ status[o] = "none"
  /\ current' = o
  /\ UNCHANGED <<usable, status>>

\* It becomes visible as running.
Start(o) ==
  /\ current = o
  /\ status[o] = "none"
  /\ status' = [status EXCEPT ![o] = "Running"]
  /\ UNCHANGED <<usable, current>>

Cancel(o) ==
  /\ status[o] = "Running"
  /\ status' = [status EXCEPT ![o] = "Canceled"]
  /\ UNCHANGED <<usable, current>>

\* The executed operation ends, with an outcome, as cancelled, or without any
\* news of it when the service could not write it down.
Complete(o) ==
  /\ current = o
  /\ current' = NoOp
  /\ \/ UNCHANGED status
     \/ /\ status[o] \in {"Running", "Canceled"}
        /\ \E s \in {"Success", "Failed"} : status' = [status EXCEPT ![o] = s]
  /\ UNCHANGED usable

\* The session is closed or killed, which is itself an operation.
End(o) ==
  /\ status[o] = "none"
  /\ status' = [status EXCEPT ![o] = "Success"]
  /\ usable' = FALSE
  /\ current' = IF current = o THEN NoOp ELSE current

\* The session breaks down: its worker was killed.
BreakDown ==
  /\ usable' = FALSE
  /\ current' \in {current, NoOp}
  /\ UNCHANGED status

Next ==
  \/ \E o \in Ops : Accept(o) \/ Start(o) \/ Cancel(o) \/ Complete(o) \/ End(o)
  \/ BreakDown

Spec == Init /\ [][Next]_contractVars
=============================================================================
