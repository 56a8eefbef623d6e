--------------------------- MODULE ReverseSession ---------------------------
(***************************************************************************)
(* The RPCs of one reverse (IDA) session: reverse.session.open,            *)
(* reverse.lookup_function, the core functions and reverse.session.close,  *)
(* with the worker that holds the IDA database.  The worker gives the      *)
(* database to a thread of its own (IdaSession); that thread is gone after *)
(* the first close, also if IDA reported an error.                         *)
(*                                                                         *)
(* Definitions that end in X are seeded faults.                            *)
(***************************************************************************)
EXTENDS WorkerSupervisor

CONSTANTS Opener,       \* the thread of reverse.session.open
          IoMayFail     \* the files of the workspace can refuse a write

ASSUME ReverseAssumption == Opener \in Threads /\ IoMayFail \in BOOLEAN

VARIABLES
    sess,           \* "none", "Ready", or "removed" from ServiceState.sessions
    requestLock,    \* holder of ManagedSession.request_lock
    ida,            \* WorkerState.reverse_session and its thread
    pc, kind,
    after,          \* where the handler goes on when it is done with the worker
    log, op,        \* operations.jsonl, ServiceState.operations
    lastOp          \* ManagedSession.last_operation

svcVars == <<sess, requestLock, pc, kind, after, log, op, lastOp>>
vars    == <<supervisorVars, ida, svcVars>>

Clients == Threads \ {Opener}
Kinds   == {"open", "lookup", "core", "close"}
Status  == {"none", "Success", "Failed"}
Pcs     == {"idle", "create", "lock", "await", "publish", "cleanup", "killRemove", "killReap",
            "closeRemove", "closeReap", "record", "commit", "done"}

TypeOK ==
    /\ SupervisorTypeOK
    /\ sess \in {"none", "Ready", "removed"}
    /\ requestLock \in Holder
    /\ ida \in {"none", "open", "stopped"}
    /\ pc \in [Threads -> Pcs]
    /\ kind \in [Threads -> Kinds]
    /\ after \in [Threads -> {"record", "done"}]
    /\ log \in [Threads -> Status] /\ op \in [Threads -> Status]
    /\ lastOp \in Holder

Init ==
    /\ registered = FALSE /\ transport = NoThread /\ proc = "Exited"
    /\ req = [t \in Threads |-> "none"] /\ resp = [t \in Threads |-> "none"]
    /\ sess = "none" /\ requestLock = NoThread /\ ida = "none"
    /\ pc = [t \in Threads |-> IF t = Opener THEN "create" ELSE "idle"]
    /\ kind \in {k \in [Threads -> Kinds] : \A t \in Threads : k[t] = "open" <=> t = Opener}
    /\ after = [t \in Threads |-> "record"]
    /\ log = [t \in Threads |-> "none"] /\ op = [t \in Threads |-> "none"]
    /\ lastOp = NoThread

Goto(t, p) == pc' = [pc EXCEPT ![t] = p]

\* request_worker is entered.
Ask(t) ==
    /\ req' = [req EXCEPT ![t] = "lookup"] /\ resp' = [resp EXCEPT ![t] = "none"]
    /\ UNCHANGED <<registered, transport, proc>>

-----------------------------------------------------------------------------
(***************************************************************************)
(* reverse.session.open                                                    *)
(***************************************************************************)
\* create_worker, which leaves no process behind when it fails
CreateWorker(t) ==
    /\ pc[t] = "create"
    /\ \/ /\ registered' = TRUE /\ proc' = "Serving"
          /\ req' = [req EXCEPT ![t] = "lookup"]
          /\ Goto(t, "await")
       \/ Goto(t, "record") /\ UNCHANGED <<registered, proc, req>>
    /\ UNCHANGED <<transport, resp, ida, sess, requestLock, kind, after, log, op, lastOp>>

Opened(t) ==
    /\ pc[t] = "await" /\ kind[t] = "open" /\ req[t] = "done"
    /\ Goto(t, IF resp[t] = "Reply" THEN "publish" ELSE "killRemove")
    /\ UNCHANGED <<supervisorVars, ida, sess, requestLock, kind, after, log, op, lastOp>>

\* Metadata, artifact and record are written; then the session is there for all.
Publish(t) ==
    /\ pc[t] = "publish"
    /\ log' = [log EXCEPT ![t] = "Success"] /\ op' = [op EXCEPT ![t] = "Success"]
    /\ sess' = "Ready" /\ lastOp' = t
    /\ Goto(t, "done")
    /\ UNCHANGED <<supervisorVars, ida, requestLock, kind, after>>

\* The error is returned and the worker forgotten, as debug.session.create does.
PublishFailsX(t) ==
    /\ IoMayFail /\ pc[t] = "publish"
    /\ Goto(t, "done")
    /\ UNCHANGED <<supervisorVars, ida, sess, requestLock, kind, after, log, op, lastOp>>

\* A write fails, the record's own included: the worker is asked to close.
PublishFails(t) ==
    /\ IoMayFail /\ pc[t] = "publish"
    /\ after' = [after EXCEPT ![t] = "done"]
    /\ Ask(t) /\ Goto(t, "cleanup")
    /\ UNCHANGED <<ida, sess, requestLock, kind, log, op, lastOp>>

\* close_worker whatever the worker answered: it waits for a process that stays.
CleanedUpX(t) ==
    /\ pc[t] = "cleanup" /\ req[t] = "done"
    /\ Goto(t, "closeRemove")
    /\ UNCHANGED <<supervisorVars, ida, sess, requestLock, kind, after, log, op, lastOp>>

CleanedUp(t) ==
    /\ pc[t] = "cleanup" /\ req[t] = "done"
    /\ Goto(t, IF resp[t] = "Reply" THEN "closeRemove" ELSE "killRemove")
    /\ UNCHANGED <<supervisorVars, ida, sess, requestLock, kind, after, log, op, lastOp>>

-----------------------------------------------------------------------------
(***************************************************************************)
(* Lookups, core functions and close                                       *)
(***************************************************************************)
\* reusable_reverse_session: checked here, before request_lock, and never again.
Begin(t) ==
    /\ pc[t] = "idle" /\ sess # "none"
    /\ Goto(t, IF sess = "Ready" THEN "lock" ELSE "done")
    /\ UNCHANGED <<supervisorVars, ida, sess, requestLock, kind, after, log, op, lastOp>>

AcquireRequestLock(t) ==
    /\ pc[t] = "lock" /\ requestLock = NoThread
    /\ requestLock' = t
    /\ Ask(t) /\ Goto(t, "await")
    /\ UNCHANGED <<ida, sess, kind, after, log, op, lastOp>>

\* The guard ends with the block of the request: records are written without it.
Answered(t) ==
    /\ pc[t] = "await" /\ kind[t] # "open" /\ req[t] = "done"
    /\ requestLock' = NoThread
    /\ Goto(t, IF kind[t] = "close" /\ resp[t] = "Reply" THEN "closeRemove" ELSE "record")
    /\ UNCHANGED <<supervisorVars, ida, sess, kind, after, log, op, lastOp>>

-----------------------------------------------------------------------------
(***************************************************************************)
(* close_worker and kill_worker                                            *)
(***************************************************************************)
Remove(t) ==
    /\ pc[t] \in {"killRemove", "closeRemove"}
    /\ RemoveWorker
    /\ Goto(t, IF ~registered THEN after[t]
               ELSE IF pc[t] = "killRemove" THEN "killReap" ELSE "closeReap")
    /\ UNCHANGED <<ida, sess, requestLock, kind, after, log, op, lastOp>>

KillReap(t) ==
    /\ pc[t] = "killReap"
    /\ KillChild /\ ida' = "none"
    /\ Goto(t, after[t])
    /\ UNCHANGED <<sess, requestLock, kind, after, log, op, lastOp>>

CloseReap(t) ==
    /\ pc[t] = "closeReap"
    /\ WaitChild
    /\ Goto(t, after[t])
    /\ UNCHANGED <<ida, sess, requestLock, kind, after, log, op, lastOp>>

-----------------------------------------------------------------------------
(***************************************************************************)
(* The outcome                                                             *)
(***************************************************************************)
Outcome(t) == IF resp[t] = "Reply" THEN "Success" ELSE "Failed"

\* The artifact of the answer or of the error, then append_operation
Record(t) ==
    /\ pc[t] = "record"
    /\ log' = [log EXCEPT ![t] = Outcome(t)]
    /\ Goto(t, "commit")
    /\ UNCHANGED <<supervisorVars, ida, sess, requestLock, kind, after, op, lastOp>>

RecordFails(t) ==
    /\ IoMayFail /\ pc[t] = "record"
    /\ Goto(t, "done")
    /\ UNCHANGED <<supervisorVars, ida, sess, requestLock, kind, after, log, op, lastOp>>

\* A failed core function is inserted into the operations; the other handlers
\* update an operation that they never inserted, which does nothing.
Kept(t) == Outcome(t) = "Success" \/ kind[t] = "core"

\* The session goes whatever the worker said to the close.
CommitX(t) ==
    /\ pc[t] = "commit"
    /\ op' = [op EXCEPT ![t] = IF Kept(t) THEN Outcome(t) ELSE @]
    /\ sess' = IF kind[t] = "close" THEN "removed" ELSE sess
    /\ lastOp' = IF Kept(t) /\ kind[t] # "close" /\ sess = "Ready" THEN t ELSE lastOp
    /\ Goto(t, "done")
    /\ UNCHANGED <<supervisorVars, ida, requestLock, kind, after, log>>

\* Under the lock of the state; a session that is gone by now stays gone.
Commit(t) ==
    /\ pc[t] = "commit"
    /\ op' = [op EXCEPT ![t] = IF Kept(t) THEN Outcome(t) ELSE @]
    /\ sess' = IF kind[t] = "close" /\ Outcome(t) = "Success" THEN "removed" ELSE sess
    /\ lastOp' = IF Kept(t) /\ kind[t] # "close" /\ sess = "Ready" THEN t ELSE lastOp
    /\ Goto(t, "done")
    /\ UNCHANGED <<supervisorVars, ida, requestLock, kind, after, log>>

-----------------------------------------------------------------------------
(***************************************************************************)
(* The worker                                                              *)
(***************************************************************************)
\* What the request is: an open whose session could not be published closes.
Asks(t) == IF pc[t] = "cleanup" THEN "close" ELSE kind[t]

\* open_reverse_session
AnswerOpen(t) ==
    /\ Asks(t) = "open"
    /\ \/ WorkerAnswers(t, "Reply", FALSE) /\ ida' = "open"
       \/ WorkerAnswers(t, "Failed", FALSE) /\ UNCHANGED ida
    /\ UNCHANGED svcVars

\* lookup_reverse_function, reverse_core_function; Err is an answer that is too long.
AnswerQuery(t) ==
    /\ Asks(t) \in {"lookup", "core"}
    /\ \/ ida = "open" /\ WorkerAnswers(t, "Reply", FALSE)
       \/ WorkerAnswers(t, "Failed", FALSE)
       \/ ida = "open" /\ Asks(t) = "core" /\ WorkerAnswers(t, "Err", FALSE)
    /\ UNCHANGED <<ida, svcVars>>

\* close_reverse_session: the worker leaves after Ok.  An error of IDA comes once;
\* then the thread is gone and the next close has nothing to ask it.
AnswerClose(t) ==
    /\ Asks(t) = "close"
    /\ \/ ida # "none" /\ WorkerAnswers(t, "Reply", TRUE) /\ ida' = "none"
       \/ ida = "open" /\ WorkerAnswers(t, "Failed", FALSE) /\ ida' = "stopped"
       \/ ida = "none" /\ WorkerAnswers(t, "Failed", FALSE) /\ UNCHANGED ida
    /\ UNCHANGED svcVars

Transport(t) ==
    /\ LookupWorker(t) \/ LockTransport(t) \/ PipeBroken(t)
    /\ UNCHANGED <<ida, svcVars>>

\* IDA brings the process down, or it leaves main.
WorkerEnds ==
    /\ WorkerCrash \/ WorkerLeaves
    /\ ida' = "none"
    /\ UNCHANGED svcVars

-----------------------------------------------------------------------------
Handler(t) ==
    \/ CreateWorker(t) \/ Opened(t) \/ Publish(t) \/ CleanedUp(t)
    \/ AcquireRequestLock(t) \/ Answered(t) \/ Remove(t) \/ KillReap(t) \/ CloseReap(t)
    \/ Record(t) \/ Commit(t) \/ Transport(t)

Answer(t) == AnswerOpen(t) \/ AnswerQuery(t) \/ AnswerClose(t)

Quiet ==
    /\ \A t \in Threads : pc[t] = "done" \/ (pc[t] = "idle" /\ sess = "none" /\ pc[Opener] = "done")
    /\ UNCHANGED vars

Next ==
    \/ \E t \in Threads :
         Begin(t) \/ Handler(t) \/ Answer(t) \/ PublishFails(t) \/ RecordFails(t)
    \/ WorkerEnds \/ Quiet

Spec == Init /\ [][Next]_vars

\* The service's threads run, a worker that leaves its loop ends, and IDA answers
\* or takes the process down: no RPC of a reverse session has a timeout.
FairSpec ==
    /\ Spec
    /\ \A t \in Threads : WF_vars(Handler(t)) /\ WF_vars(Answer(t))
    /\ WF_vars(WorkerEnds /\ proc = "Leaving")

-----------------------------------------------------------------------------
(***************************************************************************)
(* Properties                                                              *)
(***************************************************************************)
\* A worker with or without a database is never left to itself: it belongs to the
\* session, or the open that made it, or a close that got its answer, is not done.
WorkerOwned ==
    proc # "Exited" =>
        \/ sess = "Ready" /\ registered
        \/ pc[Opener] # "done"
        \/ \E t \in Threads : kind[t] = "close" /\ pc[t] \in {"closeRemove", "closeReap"}

\* A session that was closed has taken its worker with it; requests that had checked
\* the session before cannot reach a worker any more and are not in its history.
ClosedMeansGone ==
    sess = "removed" =>
        /\ proc = "Exited" /\ ~registered /\ ida = "none"
        /\ \E t \in Threads : kind[t] = "close" /\ log[t] = "Success"

\* Every RPC of the session returns, also those queued behind a close and those
\* whose worker died: close_worker waits only for a worker that has left its loop.
RpcReturns == \A t \in Threads : pc[t] \notin {"idle", "done"} ~> pc[t] = "done"

-----------------------------------------------------------------------------
(***************************************************************************)
(* The inductive invariant behind the theorems of ReverseSessionProofs     *)
(***************************************************************************)
\* Until the open is done there is no session and nobody else is at work; the open
\* leaves a worker to the session, or none.
OpenInv ==
    /\ \A t \in Threads : kind[t] = "open" <=> t = Opener
    /\ pc[Opener] \notin {"idle", "lock"}
    /\ pc[Opener] # "done" => sess = "none"
    /\ sess = "none" => \A t \in Clients : pc[t] = "idle"
    /\ pc[Opener] \in {"await", "publish", "cleanup", "killRemove", "closeRemove"} => registered
    /\ pc[Opener] \in {"create", "record", "commit"} => proc = "Exited"
    /\ sess = "none" /\ pc[Opener] = "done" => proc = "Exited"

\* A close that the worker has answered
Closer(t) == kind[t] = "close" /\ resp[t] = "Reply"

ClientInv ==
    \A t \in Clients :
        /\ pc[t] \in {"idle", "lock", "await", "closeRemove", "closeReap", "record", "commit",
                      "done"}
        /\ after[t] = "record"
        /\ pc[t] \in {"idle", "lock"} => req[t] = "none" /\ resp[t] = "none"
        /\ pc[t] \notin {"idle", "lock", "await"} => req[t] \in {"none", "done"}
        /\ resp[t] = "Reply" => req[t] = "done"
        /\ pc[t] \in {"closeRemove", "closeReap"} => Closer(t)
        /\ log[t] # "none" => pc[t] \in {"commit", "done"}
        /\ pc[t] = "commit" => log[t] = Outcome(t)

\* The worker answers one close, since it leaves its loop then; that close and nobody
\* else removes it and waits for it.
CloseInv ==
    /\ proc # "Serving" => ida = "none"
    /\ \A t \in Clients : Closer(t) =>
          /\ proc # "Serving"
          /\ pc[t] \in {"await", "closeRemove"} <=> registered
          /\ pc[t] \in {"record", "commit", "done"} => proc = "Exited"
    /\ \A t, u \in Clients : Closer(t) /\ Closer(u) => t = u
    /\ sess = "Ready" /\ ~registered => \E t \in Clients : Closer(t)
    /\ sess = "removed" =>
          /\ proc = "Exited" /\ ~registered
          /\ \E t \in Clients : kind[t] = "close" /\ log[t] = "Success"

IInv == TypeOK /\ OpenInv /\ ClientInv /\ CloseInv
=============================================================================
