---------------------------- MODULE DebugSession ----------------------------
(***************************************************************************)
(* One debug session of the service, from the moment debug.session.create  *)
(* has registered it: the RPC threads that run commands on it, close it,   *)
(* kill it and cancel its operations, interleaved at every point where the *)
(* code releases a lock, asks the worker or touches the workspace.         *)
(*                                                                         *)
(* Every RPC thread makes at most one operation id (next_operation_ref),   *)
(* so an operation is named by the thread that created it.                 *)
(*                                                                         *)
(* A definition whose name ends in X is a seeded fault that Next never     *)
(* uses: put in the place of the definition after it, it breaks a property *)
(* below, which shows that the property constrains the code.               *)
(***************************************************************************)
EXTENDS WorkerSupervisor

CONSTANTS IoMayFail,   \* the workspace files can refuse a read or a write
          Roles        \* the RPCs that each thread may be asked to handle

VARIABLES sess,        \* ManagedSession.state in ServiceState.sessions
          requestLock, \* holder of ManagedSession.request_lock
          op,          \* ServiceState.operations: status, per creating thread
          log,         \* artifacts/operations.jsonl: records, per operation
          lastOp,      \* ManagedSession.last_operation
          pc, kind,    \* where an RPC thread is, and which RPC it handles
          target,      \* the operation an operation.cancel is about
          result,      \* the response the handler works with
          wasCanceled  \* the handler's copy of "status was Canceled"

sessionVars == <<sess, requestLock, op, log, lastOp, pc, kind, target, result,
                 wasCanceled>>
vars == <<supervisorVars, sessionVars>>

\* The service itself only ever stores these of DebugSessionState's values.
SessionStates == {"Ready", "Closed", "Error"}
Terminal == {"Closed", "Error"}
Reusable == {"Ready"}

OpStates == {"none", "Running", "Success", "Failed", "Canceled"}
Final == {"Success", "Failed", "Canceled"}

\* eval: debug.eval without timeout, modules, threads, stack, add_symbols,
\* read_memory.  timed: debug.eval with timeout_ms.
Commands == {"eval", "timed"}
Finishers == {"close", "kill"}
Kinds == Commands \cup Finishers \cup {"cancel"}

ASSUME SessionAssumption == IoMayFail \in BOOLEAN /\ Roles \in [Threads -> SUBSET Kinds]

PCs == {"idle", "lock", "recheck", "insert", "await", "finish", "append", "commit",
        "killRemove", "killReap", "mark", "closeRemove", "closeReap", "record",
        "closed", "cancelLookup", "cancelTry", "cancelAwait", "cancelRecord", "done"}

TypeOK ==
  /\ SupervisorTypeOK
  /\ sess \in SessionStates
  /\ requestLock \in Holder
  /\ op \in [Threads -> OpStates]
  /\ log \in [Threads -> Seq(Final)]
  /\ lastOp \in Holder
  /\ pc \in [Threads -> PCs]
  /\ kind \in [Threads -> Kinds \cup {"none"}]
  /\ target \in [Threads -> Holder]
  /\ result \in [Threads -> Responses]
  /\ wasCanceled \in [Threads -> BOOLEAN]

\* debug_session_create has just stored the session (its own operation is not
\* one of Threads: NoThread stands for it in last_operation).
Init ==
  /\ SupervisorInit
  /\ sess = "Ready"
  /\ requestLock = NoThread
  /\ op = [t \in Threads |-> "none"]
  /\ log = [t \in Threads |-> <<>>]
  /\ lastOp = NoThread
  /\ pc = [t \in Threads |-> "idle"]
  /\ kind = [t \in Threads |-> "none"]
  /\ target = [t \in Threads |-> NoThread]
  /\ result = [t \in Threads |-> "none"]
  /\ wasCanceled = [t \in Threads |-> FALSE]

Goto(t, p) == pc' = [pc EXCEPT ![t] = p]

\* The guard of request_lock is dropped when the handler returns; a handler
\* that never took it leaves it alone.
Unlock(t) == requestLock' = IF requestLock = t THEN NoThread ELSE requestLock
Return(t) == Goto(t, "done") /\ Unlock(t)

AppendLog(t, status) == log' = [log EXCEPT ![t] = Append(@, status)]
SetOp(t, status) == op' = [op EXCEPT ![t] = status]

-----------------------------------------------------------------------------
(* eval_command, add_symbols, read_memory                                  *)

BeginCommand(t, k) ==
  /\ pc[t] = "idle"
  /\ kind' = [kind EXCEPT ![t] = k]
  /\ Goto(t, IF sess \in Reusable THEN "lock" ELSE "done")
  /\ UNCHANGED <<supervisorVars, sess, requestLock, op, log, lastOp, target, result,
                 wasCanceled>>

\* request_lock.lock(): the commands and close.
AcquireRequestLockX(t) ==
  /\ pc[t] = "lock"
  /\ requestLock' = t
  /\ Goto(t, "recheck")
  /\ UNCHANGED <<supervisorVars, sess, op, log, lastOp, kind, target, result, wasCanceled>>

AcquireRequestLock(t) ==
  /\ pc[t] = "lock"
  /\ requestLock = NoThread
  /\ requestLock' = t
  /\ Goto(t, "recheck")
  /\ UNCHANGED <<supervisorVars, sess, op, log, lastOp, kind, target, result, wasCanceled>>

\* The session is looked up again under the lock.
RecheckCommandX(t) ==
  /\ pc[t] = "recheck"
  /\ kind[t] \in Commands
  /\ Goto(t, "insert")
  /\ UNCHANGED <<supervisorVars, sess, requestLock, op, log, lastOp, kind, target, result,
                 wasCanceled>>

RecheckCommand(t) ==
  /\ pc[t] = "recheck"
  /\ kind[t] \in Commands
  /\ IF sess \in Reusable
     THEN Goto(t, "insert") /\ UNCHANGED requestLock
     ELSE Return(t)
  /\ UNCHANGED <<supervisorVars, sess, op, log, lastOp, kind, target, result, wasCanceled>>

\* Workspace::open, then the operation is inserted as Running and the request
\* is made; with a timeout, by a thread spawned for it.
InsertRunning(t) ==
  /\ pc[t] = "insert"
  /\ SetOp(t, "Running")
  /\ req' = [req EXCEPT ![t] = "lookup"]
  /\ Goto(t, "await")
  /\ UNCHANGED <<registered, transport, proc, resp, sess, requestLock, log, lastOp, kind,
                 target, result, wasCanceled>>

OpenWorkspaceFails(t) ==
  /\ IoMayFail
  /\ pc[t] = "insert"
  /\ Return(t)
  /\ UNCHANGED <<supervisorVars, sess, op, log, lastOp, kind, target, result, wasCanceled>>

\* request_worker returned, or the receiver got what it returned.  (A worker never
\* answers CloseSession with Failed: the arm for it is unreachable.)
TakeResponse(t) ==
  /\ pc[t] = "await"
  /\ req[t] = "done"
  /\ result' = [result EXCEPT ![t] = resp[t]]
  /\ \/ kind[t] \in Commands /\ Goto(t, "finish")
     \/ kind[t] = "close" /\ resp[t] = "Reply" /\ Goto(t, "closeRemove")
     \/ kind[t] = "close" /\ resp[t] = "Err" /\ Goto(t, "killRemove")
  /\ UNCHANGED <<supervisorVars, sess, requestLock, op, log, lastOp, kind, target,
                 wasCanceled>>

\* recv_timeout gives up: possible at any moment before the response is received,
\* also when it is about to be sent.
TimeoutX(t) ==
  /\ pc[t] = "await"
  /\ kind[t] = "timed"
  /\ req[t] # "waiting"
  /\ result' = [result EXCEPT ![t] = "Err"]
  /\ Goto(t, "killRemove")
  /\ UNCHANGED <<supervisorVars, sess, requestLock, op, log, lastOp, kind, target,
                 wasCanceled>>

Timeout(t) ==
  /\ pc[t] = "await"
  /\ kind[t] = "timed"
  /\ result' = [result EXCEPT ![t] = "Err"]
  /\ Goto(t, "killRemove")
  /\ UNCHANGED <<supervisorVars, sess, requestLock, op, log, lastOp, kind, target,
                 wasCanceled>>

\* finish_command_worker_response, finish_memory_worker_response: the artifacts
\* the worker wrote are registered, and the status is read under the state lock
\* (the arm for Failed does not read it).
ReadStatus(t) ==
  /\ pc[t] = "finish"
  /\ wasCanceled' = [wasCanceled EXCEPT ![t] = result[t] # "Failed" /\ op[t] = "Canceled"]
  /\ Goto(t, "append")
  /\ UNCHANGED <<supervisorVars, sess, requestLock, op, log, lastOp, kind, target, result>>

RegisterWritesFails(t) ==
  /\ IoMayFail
  /\ pc[t] = "finish"
  /\ result[t] \in {"Reply", "Failed"}
  /\ Return(t)
  /\ UNCHANGED <<supervisorVars, sess, op, log, lastOp, kind, target, result, wasCanceled>>

RecordStatusX(t) ==
  IF wasCanceled[t] THEN "Canceled" ELSE IF result[t] = "Reply" THEN "Success" ELSE "failed"

RecordStatus(t) ==
  IF wasCanceled[t] THEN "Canceled" ELSE IF result[t] = "Reply" THEN "Success" ELSE "Failed"

\* append_operation, then append_command_audit (the audit file is not modelled).
AppendOperationX(t) ==
  /\ pc[t] = "append"
  /\ IF result[t] = "Err" THEN UNCHANGED log ELSE AppendLog(t, RecordStatus(t))
  /\ Goto(t, "commit")
  /\ UNCHANGED <<supervisorVars, sess, requestLock, op, lastOp, kind, target, result,
                 wasCanceled>>

AppendOperation(t) ==
  /\ pc[t] = "append"
  /\ AppendLog(t, RecordStatus(t))
  /\ Goto(t, "commit")
  /\ UNCHANGED <<supervisorVars, sess, requestLock, op, lastOp, kind, target, result,
                 wasCanceled>>

\* Either append fails: the handler returns before it finishes the operation.
AppendFails(t) ==
  /\ IoMayFail
  /\ pc[t] = "append"
  /\ \/ UNCHANGED log
     \/ AppendLog(t, RecordStatus(t))
  /\ Return(t)
  /\ UNCHANGED <<supervisorVars, sess, op, lastOp, kind, target, result, wasCanceled>>

\* The operation's final status: Failed unconditionally in the arm for Failed
\* (finish_operation_in_memory), otherwise only if the copy read before says so.
CommitX(t) ==
  /\ pc[t] = "commit"
  /\ IF result[t] = "Err" THEN UNCHANGED op ELSE SetOp(t, RecordStatus(t))
  /\ lastOp' = IF result[t] = "Reply" THEN t ELSE lastOp
  /\ Return(t)
  /\ UNCHANGED <<supervisorVars, sess, log, kind, target, result, wasCanceled>>

CommitSnapshotX(t) ==
  /\ pc[t] = "commit"
  /\ IF wasCanceled[t] THEN UNCHANGED op ELSE SetOp(t, RecordStatus(t))
  /\ lastOp' = IF result[t] = "Reply" THEN t ELSE lastOp
  /\ sess' = "Ready"
  /\ Return(t)
  /\ UNCHANGED <<supervisorVars, log, kind, target, result, wasCanceled>>

Commit(t) ==
  /\ pc[t] = "commit"
  /\ IF wasCanceled[t] THEN UNCHANGED op ELSE SetOp(t, RecordStatus(t))
  /\ lastOp' = IF result[t] = "Reply" THEN t ELSE lastOp
  /\ Return(t)
  /\ UNCHANGED <<supervisorVars, sess, log, kind, target, result, wasCanceled>>

-----------------------------------------------------------------------------
(* finish_session: debug.session.close and debug.session.kill              *)

BeginFinishX(t, k) ==
  /\ pc[t] = "idle"
  /\ kind' = [kind EXCEPT ![t] = k]
  /\ Goto(t, IF sess \in Terminal THEN "done" ELSE "lock")
  /\ UNCHANGED <<supervisorVars, sess, requestLock, op, log, lastOp, target, result,
                 wasCanceled>>

\* Only close queues behind the running command.
BeginFinish(t, k) ==
  /\ pc[t] = "idle"
  /\ kind' = [kind EXCEPT ![t] = k]
  /\ \/ sess \in Terminal /\ Goto(t, "done")
     \/ sess \notin Terminal /\ k = "close" /\ Goto(t, "lock")
     \/ sess \notin Terminal /\ k = "kill" /\ Goto(t, "recheck")
  /\ UNCHANGED <<supervisorVars, sess, requestLock, op, log, lastOp, target, result,
                 wasCanceled>>

RecheckClose(t) ==
  /\ pc[t] = "recheck"
  /\ kind[t] = "close"
  /\ \/ /\ sess \in Terminal
        /\ Return(t)
        /\ UNCHANGED req
     \/ /\ sess \notin Terminal
        /\ Goto(t, "await")
        /\ req' = [req EXCEPT ![t] = "lookup"]
        /\ UNCHANGED requestLock
  /\ UNCHANGED <<registered, transport, proc, resp, sess, op, log, lastOp, kind, target,
                 result, wasCanceled>>

RecheckKill(t) ==
  /\ pc[t] = "recheck"
  /\ kind[t] = "kill"
  /\ Goto(t, IF sess \in Terminal THEN "done" ELSE "killRemove")
  /\ UNCHANGED <<supervisorVars, sess, requestLock, op, log, lastOp, kind, target, result,
                 wasCanceled>>

\* kill_worker, for every caller: kill, a close that got an error, a timeout, and
\* a cancel that found the transport busy.
AfterKill(t) == IF kind[t] = "kill" THEN "record" ELSE "mark"

KillRemoveX(t) ==
  /\ pc[t] = "killRemove"
  /\ RemoveWorker
  /\ Goto(t, AfterKill(t))
  /\ UNCHANGED <<sess, requestLock, op, log, lastOp, kind, target, result, wasCanceled>>

KillRemoveKeepX(t) ==
  /\ pc[t] = "killRemove"
  /\ Goto(t, IF registered THEN "killReap" ELSE AfterKill(t))
  /\ UNCHANGED <<supervisorVars, sess, requestLock, op, log, lastOp, kind, target, result,
                 wasCanceled>>

KillRemove(t) ==
  /\ pc[t] = "killRemove"
  /\ RemoveWorker
  /\ Goto(t, IF registered THEN "killReap" ELSE AfterKill(t))
  /\ UNCHANGED <<sess, requestLock, op, log, lastOp, kind, target, result, wasCanceled>>

KillReap(t) ==
  /\ pc[t] = "killReap"
  /\ KillChild
  /\ Goto(t, AfterKill(t))
  /\ UNCHANGED <<sess, requestLock, op, log, lastOp, kind, target, result, wasCanceled>>

\* mark_debug_session_error, and operation_cancel's own copy of it.
MarkError(t) ==
  /\ pc[t] = "mark"
  /\ sess' = "Error"
  /\ \/ kind[t] = "timed" /\ Goto(t, "finish") /\ UNCHANGED requestLock
     \/ kind[t] = "close" /\ Return(t)
     \/ kind[t] = "cancel" /\ Goto(t, "cancelRecord") /\ UNCHANGED requestLock
  /\ UNCHANGED <<supervisorVars, op, log, lastOp, kind, target, result, wasCanceled>>

\* close_worker
CloseRemove(t) ==
  /\ pc[t] = "closeRemove"
  /\ RemoveWorker
  /\ Goto(t, IF registered THEN "closeReap" ELSE "record")
  /\ UNCHANGED <<sess, requestLock, op, log, lastOp, kind, target, result, wasCanceled>>

CloseReap(t) ==
  /\ pc[t] = "closeReap"
  /\ WaitChild
  /\ Goto(t, "record")
  /\ UNCHANGED <<sess, requestLock, op, log, lastOp, kind, target, result, wasCanceled>>

RecordFinish(t) ==
  /\ pc[t] = "record"
  /\ AppendLog(t, "Success")
  /\ Goto(t, "closed")
  /\ UNCHANGED <<supervisorVars, sess, requestLock, op, lastOp, kind, target, result,
                 wasCanceled>>

\* The worker is gone, and the session keeps the state it had.
RecordFinishFails(t) ==
  /\ IoMayFail
  /\ pc[t] = "record"
  /\ Return(t)
  /\ UNCHANGED <<supervisorVars, sess, op, log, lastOp, kind, target, result, wasCanceled>>

\* The handler's copy of the session is stored over whatever is there now.
CommitFinish(t) ==
  /\ pc[t] = "closed"
  /\ SetOp(t, "Success")
  /\ sess' = "Closed"
  /\ lastOp' = t
  /\ Return(t)
  /\ UNCHANGED <<supervisorVars, log, kind, target, result, wasCanceled>>

-----------------------------------------------------------------------------
(* operation.cancel                                                        *)

\* Check and change of the status are one critical section.
BeginCancelX(t, x) ==
  /\ pc[t] = "idle"
  /\ kind' = [kind EXCEPT ![t] = "cancel"]
  /\ target' = [target EXCEPT ![t] = x]
  /\ \/ op[x] # "none" /\ SetOp(x, "Canceled") /\ Goto(t, "cancelLookup")
     \/ op[x] = "none" /\ Goto(t, "done") /\ UNCHANGED op
  /\ UNCHANGED <<supervisorVars, sess, requestLock, log, lastOp, result, wasCanceled>>

BeginCancel(t, x) ==
  /\ pc[t] = "idle"
  /\ kind' = [kind EXCEPT ![t] = "cancel"]
  /\ target' = [target EXCEPT ![t] = x]
  /\ \/ op[x] = "Running" /\ SetOp(x, "Canceled") /\ Goto(t, "cancelLookup")
     \/ op[x] # "Running" /\ Goto(t, "done") /\ UNCHANGED op
  /\ UNCHANGED <<supervisorVars, sess, requestLock, log, lastOp, result, wasCanceled>>

\* cancel_worker_operation: get_worker; an error ends the RPC before the record.
CancelLookup(t) ==
  /\ pc[t] = "cancelLookup"
  /\ Goto(t, IF registered THEN "cancelTry" ELSE "done")
  /\ UNCHANGED <<supervisorVars, sess, requestLock, op, log, lastOp, kind, target, result,
                 wasCanceled>>

\* try_lock: notify the worker if the transport is free, kill it if not.
CancelTry(t) ==
  /\ pc[t] = "cancelTry"
  /\ \/ /\ transport = NoThread
        /\ transport' = t
        /\ req' = [req EXCEPT ![t] = "waiting"]
        /\ Goto(t, "cancelAwait")
     \/ /\ transport # NoThread
        /\ Goto(t, "killRemove")
        /\ UNCHANGED <<transport, req>>
  /\ UNCHANGED <<registered, proc, resp, sess, requestLock, op, log, lastOp, kind, target,
                 result, wasCanceled>>

CancelNotified(t) ==
  /\ pc[t] = "cancelAwait"
  /\ req[t] = "done"
  /\ Goto(t, IF resp[t] = "Err" THEN "done" ELSE "cancelRecord")
  /\ UNCHANGED <<supervisorVars, sess, requestLock, op, log, lastOp, kind, target, result,
                 wasCanceled>>

CancelRecord(t) ==
  /\ pc[t] = "cancelRecord"
  /\ \/ AppendLog(target[t], "Canceled")
     \/ IoMayFail /\ UNCHANGED log
  /\ Goto(t, "done")
  /\ UNCHANGED <<supervisorVars, sess, requestLock, op, lastOp, kind, target, result,
                 wasCanceled>>

-----------------------------------------------------------------------------
(* The request of a thread, made by itself or by the thread spawned for it *)

Lookup(t) == LookupWorker(t) /\ UNCHANGED sessionVars
Send(t) == LockTransport(t) /\ UNCHANGED sessionVars

\* What the worker process can answer: a command's output, a Failed response,
\* a line the service cannot accept; an ack for CancelOperation; Ok for
\* CloseSession, after which it leaves its loop.  (The rest of a line that is too
\* long is discarded, so that the next request reads its own answer.)
AnswerCommand(t) ==
  /\ kind[t] \in Commands
  /\ \E r \in {"Reply", "Failed", "Err"} : WorkerAnswers(t, r, FALSE)
  /\ UNCHANGED sessionVars

AnswerControl(t) ==
  /\ kind[t] \in {"close", "cancel"}
  /\ WorkerAnswers(t, "Reply", kind[t] = "close")
  /\ UNCHANGED sessionVars

Broken(t) == PipeBroken(t) /\ UNCHANGED sessionVars
Crash == WorkerCrash /\ UNCHANGED sessionVars
Leave == WorkerLeaves /\ UNCHANGED sessionVars

-----------------------------------------------------------------------------
\* The steps of a thread that has begun, except the faults: these the service
\* takes by itself.
Progress(t) ==
  \/ AcquireRequestLock(t) \/ RecheckCommand(t) \/ InsertRunning(t)
  \/ TakeResponse(t) \/ ReadStatus(t) \/ AppendOperation(t) \/ Commit(t)
  \/ RecheckClose(t) \/ RecheckKill(t) \/ KillRemove(t) \/ KillReap(t) \/ MarkError(t)
  \/ CloseRemove(t) \/ CloseReap(t) \/ RecordFinish(t) \/ CommitFinish(t)
  \/ CancelLookup(t) \/ CancelTry(t) \/ CancelNotified(t) \/ CancelRecord(t)

Faults(t) ==
  \/ OpenWorkspaceFails(t) \/ RegisterWritesFails(t) \/ AppendFails(t)
  \/ RecordFinishFails(t)

Begin(t) ==
  \/ \E k \in Commands \cap Roles[t] : BeginCommand(t, k)
  \/ \E k \in Finishers \cap Roles[t] : BeginFinish(t, k)
  \/ "cancel" \in Roles[t] /\ \E x \in Threads \ {t} : BeginCancel(t, x)

Request(t) == Lookup(t) \/ Send(t) \/ AnswerCommand(t) \/ AnswerControl(t) \/ Broken(t)

\* Every request has been served: the bound on the number of RPCs, not a state
\* the service is stuck in.
Quiet == (\A t \in Threads : pc[t] = "done" /\ req[t] \in {"none", "done"})
         /\ UNCHANGED vars

Next ==
  \/ \E t \in Threads : Begin(t) \/ Progress(t) \/ Timeout(t) \/ Faults(t) \/ Request(t)
  \/ Crash \/ Leave
  \/ Quiet

Spec == Init /\ [][Next]_vars

\* The service's threads are scheduled and its clock runs.  Nothing is assumed of
\* a worker that executes a command or ends its debug session (it may hang in the
\* debug engine); a worker in its read loop acknowledges a cancel, and one that
\* has answered CloseSession leaves main.
Fairness ==
  /\ \A t \in Threads :
       /\ WF_vars(Progress(t)) /\ WF_vars(Timeout(t))
       /\ WF_vars(Lookup(t)) /\ WF_vars(Send(t)) /\ WF_vars(Broken(t))
       /\ WF_vars(kind[t] = "cancel" /\ AnswerControl(t))
  /\ WF_vars(Leave)

FairSpec == Spec /\ Fairness

-----------------------------------------------------------------------------
(* Safety                                                                  *)

\* worker-model.md: requests of one session are serialised, so that concurrent
\* commands cannot corrupt the debug engine.  Whatever the worker is working on
\* belongs to the RPC that holds the session's request_lock.  The one exception
\* is a request whose RPC has timed out (the detached thread of
\* request_worker_with_optional_timeout): by then the session is over and the
\* worker is out of the registry, so nobody can queue up behind it.
SerialisedRequests ==
  \A t \in Threads :
    transport = t /\ kind[t] # "cancel" =>
      requestLock = t \/ (sess \in Terminal /\ ~registered)

\* worker-model.md: within one session only one command is running.  True as long
\* as the workspace can be written.
OneRunning ==
  \A t, u \in Threads : op[t] = "Running" /\ op[u] = "Running" => t = u

\* A session that is over owns no worker in the registry: close, kill, cancel and
\* a timeout all unregister the worker before they change the session's state.
TerminalUnregistered == sess \in Terminal => ~registered

\* A worker process that can no longer be found through the registry is being
\* waited for by some thread: kill_worker and close_worker between them leave no
\* process behind, also when several of them run at once.
OrphanHasReaper ==
  ~registered /\ proc # "Exited" =>
    \E t \in Threads : pc[t] \in {"killReap", "closeReap"}

\* operations.jsonl holds a record of operation t with this status.
Logged(t, status) == \E i \in DOMAIN log[t] : log[t][i] = status

\* A status that a client can read as Success or Failed is already in
\* operations.jsonl: the record is appended before the memory is changed, on
\* every path of finish_command_worker_response and finish_session.  The
\* operation a session names as its last one has a record, too.
WriteAhead ==
  \A t \in Threads :
    /\ op[t] \in {"Success", "Failed"} => Logged(t, op[t])
    /\ lastOp = t => \E s \in Final : Logged(t, s)

(* Action properties                                                       *)

\* No handler makes a session that is over usable again, although finish_session
\* stores a copy of the session that it took before it asked the worker.
NeverRevived == [][(sess \in Terminal) => sess' \in Terminal]_vars

\* Success and Failed are final: no cancel, kill, timeout or late answer changes
\* them.  (Canceled is not: see CancelIsFinal.)
OutcomeStable ==
  [][\A t \in Threads : op[t] \in {"Success", "Failed"} => op'[t] = op[t]]_vars

(* Liveness                                                                *)

\* debug.session.kill does not queue behind the command it is meant to end: it
\* returns even if the worker never answers anything again.
KillReturns == \A t \in Threads : (kind[t] = "kill") ~> (pc[t] = "done")

\* Once a debug.eval with a timeout has made its request, it returns.
TimedEvalReturns ==
  \A t \in Threads : (kind[t] = "timed" /\ pc[t] = "await") ~> (pc[t] = "done")

\* When a session is over, every RPC that is still inside it returns: the ones
\* waiting for the worker, for the transport and for request_lock.
TerminalDrains ==
  \A t \in Threads :
    (sess \in Terminal /\ pc[t] \notin {"idle", "done"}) ~> (pc[t] = "done")

(* What the repository says and the code does not do; see the findings.    *)

\* A cancelled operation stays cancelled.
CancelIsFinal ==
  [][\A t \in Threads : op[t] = "Canceled" => op'[t] = "Canceled"]_vars

-----------------------------------------------------------------------------
\* The session as its clients may think of it: SessionContract.  A command is
\* accepted when the second look at the session, under request_lock, lets it pass.
Current ==
  IF requestLock # NoThread /\ pc[requestLock] # "recheck" THEN requestLock ELSE NoThread

Contract == INSTANCE SessionContract
              WITH Ops <- Threads, NoOp <- NoThread, usable <- sess \in Reusable,
                   current <- Current, status <- op

\* Every step of the handlers is a step of the contract, or changes nothing the
\* contract speaks of.
ImplementsContract == Contract!Spec

-----------------------------------------------------------------------------
(* The inductive invariant behind the theorems of DebugSessionProofs        *)

Lockers == Commands \cup {"close"}

\* An RPC between request_lock.lock() and its return.
InCriticalSection(t) ==
  /\ kind[t] \in Lockers
  /\ pc[t] \in {"recheck", "insert", "await", "finish", "append", "commit", "killRemove",
                "killReap", "mark", "closeRemove", "closeReap", "record", "closed"}

\* Which RPC can be where.
KindInv ==
  \A t \in Threads :
    /\ pc[t] = "idle" => kind[t] = "none"
    /\ pc[t] \in {"lock", "await"} => kind[t] \in Lockers
    /\ pc[t] = "recheck" => kind[t] \in Commands \cup Finishers
    /\ pc[t] \in {"insert", "finish", "append", "commit"} => kind[t] \in Commands
    /\ pc[t] \in {"closeRemove", "closeReap"} => kind[t] = "close"
    /\ pc[t] \in {"record", "closed"} => kind[t] \in Finishers
    /\ pc[t] \in {"killRemove", "killReap"} => kind[t] \in {"timed", "close", "kill", "cancel"}
    /\ pc[t] = "mark" => kind[t] \in {"timed", "close", "cancel"}
    /\ pc[t] \in {"cancelLookup", "cancelTry", "cancelAwait", "cancelRecord"} =>
         kind[t] = "cancel"
    /\ kind[t] = "cancel" => target[t] \in Threads

\* The holder of request_lock is the RPC in its critical section.
LockInv == \A t \in Threads : requestLock = t <=> InCriticalSection(t)

\* Once a thread has begun to reap or has gone past it, the worker is unregistered.
RegistryInv ==
  /\ TerminalUnregistered
  /\ \A t \in Threads :
       pc[t] \in {"killReap", "closeReap", "mark", "record", "closed"} => ~registered

\* The transport belongs to the request that waits for the worker; a request that
\* is under way has its RPC waiting for it, or belongs to a timed out debug.eval.
RequestInv ==
  \A t \in Threads :
    /\ transport = t <=> req[t] = "waiting"
    /\ pc[t] \in {"idle", "lock", "recheck", "insert"} => req[t] = "none"
    /\ req[t] \in {"lookup", "want", "waiting"} =>
         \/ pc[t] = "await"
         \/ kind[t] = "cancel"
         \/ /\ kind[t] = "timed"
            /\ pc[t] \in {"killRemove", "killReap", "mark"} \/ sess \in Terminal

Executing == {"await", "killRemove", "killReap", "mark", "finish", "append", "commit"}

\* A command's operation is running or cancelled exactly while the command is
\* being executed; close, kill and cancel have no operation before they end.
OpInv ==
  \A t \in Threads :
    /\ pc[t] \in {"idle", "lock", "recheck", "insert"} => op[t] = "none"
    /\ kind[t] \notin Commands /\ pc[t] # "done" => op[t] = "none"
    /\ kind[t] \in Commands /\ pc[t] \in Executing => op[t] \in {"Running", "Canceled"}
    /\ op[t] = "Running" =>
         /\ kind[t] \in Commands
         /\ pc[t] \in Executing \/ (IoMayFail /\ pc[t] = "done")
    /\ pc[t] \in {"append", "commit"} /\ wasCanceled[t] =>
         op[t] = "Canceled" /\ result[t] # "Failed"

\* The record is in the file when the memory is about to be changed.
LogInv ==
  \A t \in Threads :
    /\ pc[t] = "commit" => Logged(t, RecordStatus(t))
    /\ pc[t] = "closed" => Logged(t, "Success")

IInv ==
  /\ TypeOK /\ KindInv /\ LockInv /\ RegistryInv /\ OrphanHasReaper /\ RequestInv
  /\ OpInv /\ LogInv /\ WriteAhead
=============================================================================
