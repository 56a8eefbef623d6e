----------------------------- MODULE EvalSteps -----------------------------
(***************************************************************************)
(* debug.eval_steps: one RPC holds request_lock and sends its commands to  *)
(* the worker one after the other.  The batch is an operation (number 0)   *)
(* and so is every step (1 .. Steps); all of them can be canceled by       *)
(* operation.cancel, and the session can be killed, while the batch runs.  *)
(* No other command and no close can get in between: they wait for         *)
(* request_lock (DebugSession).                                            *)
(*                                                                         *)
(* Definitions that end in X are seeded faults.                            *)
(***************************************************************************)
EXTENDS WorkerSupervisor

CONSTANTS Batch,        \* the thread of debug.eval_steps
          Cancels,      \* the threads of operation.cancel
          Killer,       \* the thread of debug.session.kill
          Steps,        \* number of commands
          IoMayFail     \* the files of the workspace can refuse a write

ASSUME StepsAssumption ==
    /\ Threads = {Batch, Killer} \cup Cancels
    /\ Batch # Killer /\ Cancels \cap {Batch, Killer} = {}
    /\ Steps \in Nat \ {0}
    /\ IoMayFail \in BOOLEAN

Ops == 0 .. Steps

VARIABLES
    sess,               \* the state of the session
    pc,
    continueOnError,    \* parameters of the batch: continue_on_error,
    timed,              \* and whether timeout_ms is given
    step,               \* the step the batch is at
    result,             \* what request_worker_with_optional_timeout returned
    op, log,            \* status in memory; the statuses in operations.jsonl
    was,                \* was_canceled of finish_command_worker_response
    failedAt, canceledAt,  \* failed_step_index, canceled_step_index; 0 for None
    target              \* the operation a cancel is about

params    == <<continueOnError, timed>>
batchVars == <<params, step, result, was, failedAt, canceledAt>>
vars      == <<supervisorVars, sess, pc, batchVars, op, log, target>>

Status == {"none", "Running", "Success", "Failed", "Canceled"}
Pcs    == {"idle", "lookup", "loop", "await", "killRemove", "killReap", "mark", "finish", "append",
           "commit", "stepError", "failStep", "failBatch", "check", "read", "record", "close",
           "try", "asked", "note", "done"}

TypeOK ==
    /\ SupervisorTypeOK
    /\ sess \in {"Ready", "Error", "Closed"}
    /\ continueOnError \in BOOLEAN /\ timed \in BOOLEAN
    /\ result \in Responses
    /\ pc \in [Threads -> Pcs]
    /\ step \in 1 .. Steps + 1
    /\ op \in [Ops -> Status] /\ log \in [Ops -> SUBSET Status]
    /\ was \in BOOLEAN /\ failedAt \in Ops /\ canceledAt \in Ops
    /\ target \in [Cancels -> Ops]

\* The batch has request_lock and its operation is in memory.
Init ==
    /\ SupervisorInit
    /\ sess = "Ready"
    /\ pc = [t \in Threads |-> IF t = Batch THEN "loop" ELSE "idle"]
    /\ continueOnError \in BOOLEAN /\ timed \in BOOLEAN
    /\ step = 1 /\ result = "none"
    /\ op = [i \in Ops |-> IF i = 0 THEN "Running" ELSE "none"]
    /\ log = [i \in Ops |-> {}]
    /\ was = FALSE /\ failedAt = 0 /\ canceledAt = 0
    /\ target \in [Cancels -> Ops]

Goto(t, p)   == pc' = [pc EXCEPT ![t] = p]
SetOp(i, s)  == op' = [op EXCEPT ![i] = s]
AddLog(i, s) == log' = [log EXCEPT ![i] = @ \cup {s}]

-----------------------------------------------------------------------------
(***************************************************************************)
(* One step                                                                *)
(***************************************************************************)
BeginStep ==
    /\ pc[Batch] = "loop" /\ step <= Steps
    /\ SetOp(step, "Running")
    /\ req' = [req EXCEPT ![Batch] = "lookup"] /\ resp' = [resp EXCEPT ![Batch] = "none"]
    /\ Goto(Batch, "await")
    /\ UNCHANGED <<registered, transport, proc, sess, batchVars, log, target>>

\* request_worker_with_optional_timeout
Received ==
    /\ pc[Batch] = "await" /\ req[Batch] = "done"
    /\ result' = resp[Batch]
    /\ Goto(Batch, "finish")
    /\ UNCHANGED <<supervisorVars, sess, params, step, was, failedAt, canceledAt, op, log, target>>

\* The detached thread is joined before the worker is killed.
TimeoutX ==
    /\ timed /\ pc[Batch] = "await" /\ req[Batch] = "done"
    /\ result' = "Err"
    /\ Goto(Batch, "killRemove")
    /\ UNCHANGED <<supervisorVars, sess, params, step, was, failedAt, canceledAt, op, log, target>>

\* recv_timeout gives up: the worker is killed and the session marked; the late
\* answer of the detached thread goes nowhere.
Timeout ==
    /\ timed /\ pc[Batch] = "await"
    /\ result' = "Err"
    /\ Goto(Batch, "killRemove")
    /\ UNCHANGED <<supervisorVars, sess, params, step, was, failedAt, canceledAt, op, log, target>>

\* finish_command_worker_response, in its three steps
ReadStatus ==
    /\ pc[Batch] = "finish"
    /\ was' = (result # "Failed" /\ op[step] = "Canceled")
    /\ Goto(Batch, "append")
    /\ UNCHANGED <<supervisorVars, sess, params, step, result, failedAt, canceledAt, op, log,
                   target>>

StepStatus == IF was THEN "Canceled" ELSE IF result = "Reply" THEN "Success" ELSE "Failed"

AppendStep ==
    /\ pc[Batch] = "append"
    /\ AddLog(step, StepStatus)
    /\ Goto(Batch, "commit")
    /\ UNCHANGED <<supervisorVars, sess, batchVars, op, target>>

\* An answered step is counted as done although its operation was canceled.
CommitStepX ==
    /\ pc[Batch] = "commit"
    /\ op' = [op EXCEPT ![step] = IF was THEN @ ELSE StepStatus]
    /\ Goto(Batch, IF result = "Reply" THEN "check" ELSE "stepError")
    /\ UNCHANGED <<supervisorVars, sess, batchVars, log, target>>

\* The operation, and what the loop reads back from it after an answer.
CommitStep ==
    /\ pc[Batch] = "commit"
    /\ op' = [op EXCEPT ![step] = IF was THEN @ ELSE StepStatus]
    /\ \/ /\ result = "Reply"
          /\ canceledAt' = IF op'[step] = "Canceled" /\ canceledAt = 0 THEN step ELSE canceledAt
          /\ Goto(Batch, "check")
       \/ result # "Reply" /\ Goto(Batch, "stepError") /\ UNCHANGED canceledAt
    /\ UNCHANGED <<supervisorVars, sess, params, step, result, was, failedAt, log, target>>

\* A file refuses a write, of an artifact, the record or the audit: the step is
\* still Running unless it was canceled.
StepIoFails ==
    /\ IoMayFail /\ pc[Batch] \in {"finish", "append", "commit"}
    /\ Goto(Batch, "stepError")
    /\ UNCHANGED <<supervisorVars, sess, batchVars, op, log, target>>

\* The Err arm: an error of the service itself, which left the step Running, ends the
\* batch; any other one ends the loop unless continue_on_error.
StepError ==
    /\ pc[Batch] = "stepError"
    /\ \/ /\ op[step] = "Running"
          /\ Goto(Batch, "failStep")
          /\ UNCHANGED <<failedAt, canceledAt>>
       \/ /\ op[step] # "Running"
          /\ failedAt' = IF failedAt = 0 /\ op[step] # "Canceled" THEN step ELSE failedAt
          /\ canceledAt' = IF canceledAt = 0 /\ op[step] = "Canceled" THEN step ELSE canceledAt
          /\ Goto(Batch, IF continueOnError THEN "check" ELSE "read")
    /\ UNCHANGED <<supervisorVars, sess, params, step, result, was, op, log, target>>

\* finish_operation_in_memory of the step, then of the batch; no record is written.
FailStep ==
    /\ pc[Batch] = "failStep"
    /\ SetOp(step, "Failed") /\ Goto(Batch, "failBatch")
    /\ UNCHANGED <<supervisorVars, sess, batchVars, log, target>>

FailBatch ==
    /\ pc[Batch] = "failBatch"
    /\ SetOp(0, "Failed") /\ Goto(Batch, "done")
    /\ UNCHANGED <<supervisorVars, sess, batchVars, log, target>>

\* reusable_debug_session before the next step
CheckSession ==
    /\ pc[Batch] = "check"
    /\ \/ sess = "Ready" /\ step' = step + 1 /\ Goto(Batch, "loop") /\ UNCHANGED failedAt
       \/ /\ sess # "Ready"
          /\ failedAt' = IF failedAt = 0 THEN step ELSE failedAt
          /\ Goto(Batch, "read") /\ UNCHANGED step
    /\ UNCHANGED <<supervisorVars, sess, params, result, was, canceledAt, op, log, target>>

LoopEnds ==
    /\ pc[Batch] = "loop" /\ step > Steps
    /\ Goto(Batch, "read")
    /\ UNCHANGED <<supervisorVars, sess, batchVars, op, log, target>>

-----------------------------------------------------------------------------
(***************************************************************************)
(* The batch's own outcome                                                 *)
(***************************************************************************)
\* batch_was_canceled, kept in was from here on
ReadBatch ==
    /\ pc[Batch] = "read"
    /\ was' = (op[0] = "Canceled")
    /\ Goto(Batch, "record")
    /\ UNCHANGED <<supervisorVars, sess, params, step, result, failedAt, canceledAt, op, log,
                   target>>

BatchStatus ==
    IF was \/ canceledAt # 0 THEN "Canceled" ELSE IF failedAt # 0 THEN "Failed" ELSE "Success"

RecordBatch ==
    /\ pc[Batch] = "record"
    /\ AddLog(0, BatchStatus)
    /\ Goto(Batch, "close")
    /\ UNCHANGED <<supervisorVars, sess, batchVars, op, target>>

\* The record or the audit cannot be written: the batch stays Running in memory.
RecordBatchFails ==
    /\ IoMayFail /\ pc[Batch] \in {"record", "close"}
    /\ Goto(Batch, "done")
    /\ UNCHANGED <<supervisorVars, sess, batchVars, op, log, target>>

CloseBatch ==
    /\ pc[Batch] = "close"
    /\ SetOp(0, BatchStatus)
    /\ Goto(Batch, "done")
    /\ UNCHANGED <<supervisorVars, sess, batchVars, log, target>>

-----------------------------------------------------------------------------
(***************************************************************************)
(* operation.cancel and debug.session.kill                                 *)
(***************************************************************************)
BeginCancel(c) ==
    /\ pc[c] = "idle"
    /\ \/ op[target[c]] = "Running" /\ SetOp(target[c], "Canceled") /\ Goto(c, "lookup")
       \/ op[target[c]] \notin {"none", "Running"} /\ Goto(c, "done") /\ UNCHANGED op
    /\ UNCHANGED <<supervisorVars, sess, batchVars, log, target>>

\* cancel_worker_operation: get_worker, then try_lock
CancelLookup(c) ==
    /\ pc[c] = "lookup"
    /\ Goto(c, IF registered THEN "try" ELSE "done")
    /\ UNCHANGED <<supervisorVars, sess, batchVars, op, log, target>>

CancelTry(c) ==
    /\ pc[c] = "try"
    /\ \/ /\ transport = NoThread
          /\ transport' = c /\ req' = [req EXCEPT ![c] = "waiting"]
          /\ Goto(c, "asked")
       \/ transport # NoThread /\ Goto(c, "killRemove") /\ UNCHANGED <<transport, req>>
    /\ UNCHANGED <<registered, proc, resp, sess, batchVars, op, log, target>>

CancelNotified(c) ==
    /\ pc[c] = "asked" /\ req[c] = "done"
    /\ Goto(c, IF resp[c] = "Err" THEN "done" ELSE "note")
    /\ UNCHANGED <<supervisorVars, sess, batchVars, op, log, target>>

CancelRecord(c) ==
    /\ pc[c] = "note"
    /\ AddLog(target[c], "Canceled") \/ (IoMayFail /\ UNCHANGED log)
    /\ Goto(c, "done")
    /\ UNCHANGED <<supervisorVars, sess, batchVars, op, target>>

BeginKill ==
    /\ pc[Killer] = "idle"
    /\ Goto(Killer, IF sess = "Ready" THEN "killRemove" ELSE "done")
    /\ UNCHANGED <<supervisorVars, sess, batchVars, op, log, target>>

\* kill_worker, for a timeout, a cancel that found the transport busy, and a kill
KillRemove(t) ==
    /\ pc[t] = "killRemove"
    /\ RemoveWorker
    /\ Goto(t, IF registered THEN "killReap" ELSE "mark")
    /\ UNCHANGED <<sess, batchVars, op, log, target>>

KillReap(t) ==
    /\ pc[t] = "killReap"
    /\ KillChild
    /\ Goto(t, "mark")
    /\ UNCHANGED <<sess, batchVars, op, log, target>>

\* The session is marked; for a kill once its own record is written.
Mark(t) ==
    /\ pc[t] = "mark"
    /\ \/ sess' = IF t = Killer THEN "Closed" ELSE "Error"
       \/ t = Killer /\ IoMayFail /\ UNCHANGED sess
    /\ Goto(t, CASE t = Batch -> "finish" [] t = Killer -> "done" [] OTHER -> "note")
    /\ UNCHANGED <<supervisorVars, batchVars, op, log, target>>

-----------------------------------------------------------------------------
(***************************************************************************)
(* The worker                                                              *)
(***************************************************************************)
Transport(t) ==
    /\ LookupWorker(t) \/ LockTransport(t) \/ PipeBroken(t)
    /\ UNCHANGED <<sess, pc, batchVars, op, log, target>>

\* Output of the command, Failed, or a line the service cannot accept; an ack for
\* a cancel.
Answer(t) ==
    /\ \E r \in {"Reply", "Failed", "Err"} :
          (t = Batch \/ r = "Reply") /\ WorkerAnswers(t, r, FALSE)
    /\ UNCHANGED <<sess, pc, batchVars, op, log, target>>

Crash == WorkerCrash /\ UNCHANGED <<sess, pc, batchVars, op, log, target>>

-----------------------------------------------------------------------------
BatchRuns ==
    \/ BeginStep \/ Received \/ Timeout \/ ReadStatus \/ AppendStep \/ CommitStep \/ StepError
    \/ FailStep \/ FailBatch \/ CheckSession \/ LoopEnds \/ ReadBatch \/ RecordBatch \/ CloseBatch

CancelRuns(c) == CancelLookup(c) \/ CancelTry(c) \/ CancelNotified(c) \/ CancelRecord(c)
Killing(t)    == KillRemove(t) \/ KillReap(t) \/ Mark(t)

Quiet == pc[Batch] = "done" /\ UNCHANGED vars

Next ==
    \/ BatchRuns \/ StepIoFails \/ RecordBatchFails
    \/ \E c \in Cancels : BeginCancel(c) \/ CancelRuns(c)
    \/ BeginKill
    \/ \E t \in Threads : Killing(t) \/ Transport(t) \/ Answer(t)
    \/ Crash \/ Quiet

Spec == Init /\ [][Next]_vars

\* The service's threads run and a timeout fires; the worker may never answer.
FairSpec ==
    /\ Spec
    /\ WF_vars(BatchRuns)
    /\ \A t \in Threads : WF_vars(Killing(t)) /\ WF_vars(Transport(t))
    /\ \A c \in Cancels : WF_vars(CancelRuns(c))

-----------------------------------------------------------------------------
(***************************************************************************)
(* Properties                                                              *)
(***************************************************************************)
\* debug.eval_steps reports Success only if each of its commands did, in memory and
\* in operations.jsonl; without continue_on_error no command is sent after one that
\* failed; and it reports Failed only for a failed command or a session that is gone.
BatchTruth ==
    /\ op[0] = "Success" => \A i \in 1 .. Steps : op[i] = "Success" /\ "Success" \in log[i]
    /\ ~continueOnError =>
          \A i, j \in 1 .. Steps : i < j /\ op[i] = "Failed" => op[j] = "none"
    /\ op[0] = "Failed" => sess # "Ready" \/ \E i \in 1 .. Steps : op[i] = "Failed"

\* With a timeout the batch ends whatever the worker, the cancels, a kill and the
\* files do, and leaves none of its steps Running.  (The batch itself stays Running
\* if its own record or audit could not be written.)
BatchSettles ==
    timed ~> [](/\ pc[Batch] = "done"
                /\ \A i \in 1 .. Steps : op[i] # "Running")

-----------------------------------------------------------------------------
(***************************************************************************)
(* The inductive invariant behind the theorems of EvalStepsProofs          *)
(***************************************************************************)
\* A step the batch has left behind, and what it has left in the batch.
Finished(i) ==
    /\ op[i] \in {"Success", "Failed", "Canceled"}
    /\ op[i] = "Success" => "Success" \in log[i]
    /\ op[i] = "Failed" => continueOnError /\ failedAt # 0
    /\ op[i] = "Canceled" => canceledAt # 0

\* The steps are taken in order.
OrderInv ==
    \A i \in 1 .. Steps : (i < step => Finished(i)) /\ (i > step => op[i] = "none")

InStep == {"await", "killRemove", "killReap", "mark", "finish", "append", "commit"}

\* The step the batch is at, from its insertion to its outcome.
AtStepInv ==
    /\ pc[Batch] = "loop" /\ step <= Steps => op[step] = "none"
    /\ pc[Batch] \in InStep \cup {"stepError", "failStep", "failBatch", "check"} => step <= Steps
    /\ pc[Batch] \in InStep \cup {"failStep"} => op[step] \in {"Running", "Canceled"}
    /\ pc[Batch] \in {"append", "commit"} /\ was => op[step] = "Canceled"
    /\ pc[Batch] = "commit" /\ ~was /\ result = "Reply" => "Success" \in log[step]
    /\ pc[Batch] = "stepError" => op[step] \in {"Running", "Canceled", "Failed"}
    /\ pc[Batch] = "failBatch" => op[step] = "Failed"
    /\ pc[Batch] = "check" => Finished(step)

\* What the end of the batch rests on.
EndInv ==
    /\ pc[Batch] \in {"read", "record", "close"} => step > Steps \/ failedAt # 0 \/ canceledAt # 0
    /\ pc[Batch] # "done" => op[0] \in {"Running", "Canceled"}
    /\ failedAt # 0 => op[failedAt] = "Failed" \/ sess # "Ready"

IInv == TypeOK /\ OrderInv /\ AtStepInv /\ EndInv /\ BatchTruth
=============================================================================
