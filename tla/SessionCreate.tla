--------------------------- MODULE SessionCreate ---------------------------
(***************************************************************************)
(* debug.session.create: one worker process after the other is tried, over *)
(* the debug engine directories and then once more as the interactive      *)
(* user, until one has started the debug session; then the session is      *)
(* registered.  No other RPC knows the session meanwhile, but the worker,  *)
(* the files and the service itself can fail at every step.                *)
(*                                                                         *)
(* All attempts use the same registry key ("worker-" + session id).  The   *)
(* worker of attempt number s is called s, and 0 stands for none.          *)
(*                                                                         *)
(* A definition whose name ends in X is a seeded fault that Next never     *)
(* uses: put in the place of the definition after it, it breaks a property *)
(* below, which shows that the property constrains the code.               *)
(***************************************************************************)
EXTENDS Naturals

CONSTANTS Engines,    \* the number of debug engine directories found
          Targets,    \* the kinds of targets asked for
          IoMayFail   \* the workspace files can refuse a read or a write

TargetKinds == {"run", "dump", "attach", "launch"}

ASSUME CreateAssumption ==
  Engines \in Nat \ {0} /\ Targets \subseteq TargetKinds /\ IoMayFail \in BOOLEAN

VARIABLES service,    \* the service process
          cpc,        \* where debug_session_create is
          target, requested, \* what the client asked for: target, identity
          identity,   \* the identity of the current round of attempts
          attempt,    \* index of the attempt in this round
          denied,     \* some failure so far says "access denied"
          slot,       \* the worker of the latest attempt
          proc,       \* the worker processes
          inJob,      \* the process is in the service's job object
          registry,   \* the worker in `workers` under this session's key
          session,    \* the worker of the session in ServiceState.sessions
          log, op     \* the operation's record, and its status in memory

requestVars == <<target, requested>>
roundVars == <<identity, attempt, denied>>
workerVars == <<slot, proc, inJob, registry>>
outcomeVars == <<session, log, op>>
vars == <<service, cpc, requestVars, roundVars, workerVars, outcomeVars>>

\* debug_worker_dbgeng_attempts: a TTD trace is tried with each engine in a process
\* of its own, any other target once with all of them.
Attempts == IF target = "run" THEN Engines ELSE 1

\* Bound: every engine under two identities.
Slots == 1..(2 * Engines)

Live(s) == proc[s] = "up"

TypeOK ==
  /\ service \in {"up", "down"}
  /\ cpc \in {"open", "create", "assign", "connect", "start", "killNext", "killStop", "ended",
              "recordFailed", "reportFailed", "register", "append", "publish", "done", "failed"}
  /\ target \in TargetKinds /\ requested \in {"default", "user"}
  /\ identity \in {"default", "user"} /\ attempt \in 1..Engines /\ denied \in BOOLEAN
  /\ slot \in Slots \cup {0} /\ registry \in Slots \cup {0} /\ session \in Slots \cup {0}
  /\ proc \in [Slots -> {"none", "up", "exited"}]
  /\ inJob \in [Slots -> BOOLEAN]
  /\ log \in {"none", "Success", "Failed"} /\ op \in {"none", "Success", "Failed"}

Init ==
  /\ service = "up"
  /\ cpc = "open"
  /\ target \in Targets
  /\ requested \in {"default", "user"}
  /\ identity = requested
  /\ attempt = 1
  /\ denied = FALSE
  /\ slot = 0 /\ registry = 0 /\ session = 0
  /\ proc = [s \in Slots |-> "none"]
  /\ inJob = [s \in Slots |-> FALSE]
  /\ log = "none" /\ op = "none"

Goto(p) == service = "up" /\ cpc' = p

\* child.kill(); child.wait()
KillChild == proc' = [proc EXCEPT ![slot] = "exited"]

\* A failure's text is kept; what matters later is whether it says "access denied".
PushFailure == denied' \in {denied, TRUE} /\ UNCHANGED <<identity, attempt>>

-----------------------------------------------------------------------------
(* The workspace, and create_worker                                        *)

OpenWorkspace ==
  /\ cpc = "open"
  /\ Goto("create")
  /\ UNCHANGED <<service, requestVars, roundVars, workerVars, outcomeVars>>

OpenWorkspaceFails ==
  /\ IoMayFail
  /\ cpc = "open"
  /\ Goto("failed")
  /\ UNCHANGED <<service, requestVars, roundVars, workerVars, outcomeVars>>

\* The pipe is created and the process is spawned.
SpawnWorker ==
  /\ cpc = "create"
  /\ Goto("assign")
  /\ slot' = slot + 1
  /\ proc' = [proc EXCEPT ![slot + 1] = "up"]
  /\ UNCHANGED <<service, requestVars, roundVars, inJob, registry, outcomeVars>>

\* No runtime copy, no pipe, no executable or no process: no further attempt.
SpawnFails ==
  /\ cpc = "create"
  /\ Goto("ended")
  /\ PushFailure
  /\ UNCHANGED <<service, requestVars, workerVars, outcomeVars>>

AssignJobX ==
  /\ cpc = "assign"
  /\ Goto("connect")
  /\ UNCHANGED <<service, requestVars, roundVars, workerVars, outcomeVars>>

AssignJob ==
  /\ cpc = "assign"
  /\ Goto("connect")
  /\ inJob' = [inJob EXCEPT ![slot] = TRUE]
  /\ UNCHANGED <<service, requestVars, roundVars, slot, proc, registry, outcomeVars>>

\* The worker opens its end of the pipe and is registered.
Connect ==
  /\ cpc = "connect"
  /\ Live(slot)
  /\ Goto("start")
  /\ registry' = slot
  /\ UNCHANGED <<service, requestVars, roundVars, slot, proc, inJob, outcomeVars>>

\* The process cannot be put into the job, or does not connect in time: it is
\* killed at once, and there is no further attempt.
CreateWorkerFailsX ==
  /\ cpc \in {"assign", "connect"}
  /\ Goto("ended")
  /\ PushFailure
  /\ UNCHANGED <<service, requestVars, workerVars, outcomeVars>>

CreateWorkerFails ==
  /\ cpc \in {"assign", "connect"}
  /\ Goto("ended")
  /\ KillChild
  /\ PushFailure
  /\ UNCHANGED <<service, requestVars, slot, inJob, registry, outcomeVars>>

-----------------------------------------------------------------------------
(* try_start_debug_worker: StartDebugSession and what follows              *)

StartSucceeds ==
  /\ cpc = "start"
  /\ Live(slot)
  /\ Goto("register")
  /\ UNCHANGED <<service, requestVars, roundVars, workerVars, outcomeVars>>

\* WorkerResponse::Failed: the next engine may do better.
StartFails ==
  /\ cpc = "start"
  /\ Live(slot)
  /\ Goto("killNext")
  /\ PushFailure
  /\ UNCHANGED <<service, requestVars, workerVars, outcomeVars>>

\* The pipe breaks, or its line is not the answer to a start: no further attempt.
StartBroken ==
  /\ cpc = "start"
  /\ Goto("killStop")
  /\ PushFailure
  /\ UNCHANGED <<service, requestVars, workerVars, outcomeVars>>

\* kill_worker
KillAttemptX ==
  /\ cpc \in {"killNext", "killStop"}
  /\ registry' = 0
  /\ \/ /\ cpc = "killNext" /\ attempt < Attempts
        /\ Goto("create")
        /\ attempt' = attempt + 1
     \/ /\ cpc = "killStop" \/ attempt = Attempts
        /\ Goto("ended")
        /\ UNCHANGED attempt
  /\ UNCHANGED <<service, requestVars, identity, denied, slot, proc, inJob, outcomeVars>>

KillAttempt ==
  /\ cpc \in {"killNext", "killStop"}
  /\ registry' = 0
  /\ KillChild
  /\ \/ /\ cpc = "killNext" /\ attempt < Attempts
        /\ Goto("create")
        /\ attempt' = attempt + 1
     \/ /\ cpc = "killStop" \/ attempt = Attempts
        /\ Goto("ended")
        /\ UNCHANGED attempt
  /\ UNCHANGED <<service, requestVars, identity, denied, slot, inJob, outcomeVars>>

\* should_auto_retry_active_interactive_user
MayRetry == requested = "default" /\ identity = "default" /\ target # "attach" /\ denied

RetryAsUser ==
  /\ cpc = "ended"
  /\ MayRetry
  /\ Goto("create")
  /\ identity' = "user"
  /\ attempt' = 1
  /\ UNCHANGED <<service, requestVars, denied, workerVars, outcomeVars>>

GiveUp ==
  /\ cpc = "ended"
  /\ ~MayRetry
  /\ Goto("recordFailed")
  /\ UNCHANGED <<service, requestVars, roundVars, workerVars, outcomeVars>>

\* record_failed_session_create
RecordFailed ==
  /\ cpc = "recordFailed"
  /\ Goto("reportFailed")
  /\ log' = "Failed"
  /\ UNCHANGED <<service, requestVars, roundVars, workerVars, session, op>>

ReportFailed ==
  /\ cpc = "reportFailed"
  /\ Goto("failed")
  /\ op' = "Failed"
  /\ UNCHANGED <<service, requestVars, roundVars, workerVars, session, log>>

-----------------------------------------------------------------------------
(* The session                                                             *)

RegisterWrites ==
  /\ cpc = "register"
  /\ Goto("append")
  /\ UNCHANGED <<service, requestVars, roundVars, workerVars, outcomeVars>>

AppendOperation ==
  /\ cpc = "append"
  /\ Goto("publish")
  /\ log' = "Success"
  /\ UNCHANGED <<service, requestVars, roundVars, workerVars, session, op>>

\* A `?`: the RPC fails, and the worker that was started stays.
RecordFails ==
  /\ IoMayFail
  /\ cpc \in {"recordFailed", "register", "append"}
  /\ Goto("failed")
  /\ UNCHANGED <<service, requestVars, roundVars, workerVars, outcomeVars>>

PublishX ==
  /\ cpc = "register"
  /\ Goto("done")
  /\ session' = slot
  /\ op' = "Success"
  /\ UNCHANGED <<service, requestVars, roundVars, workerVars, log>>

Publish ==
  /\ cpc = "publish"
  /\ Goto("done")
  /\ session' = slot
  /\ op' = "Success"
  /\ UNCHANGED <<service, requestVars, roundVars, workerVars, log>>

-----------------------------------------------------------------------------
(* The worker processes, and the end of the service                        *)

\* A worker dies by itself.
WorkerCrash(s) ==
  /\ Live(s)
  /\ proc' = [proc EXCEPT ![s] = "exited"]
  /\ UNCHANGED <<service, cpc, requestVars, roundVars, slot, inJob, registry, outcomeVars>>

\* The service process ends, at any moment; what it kept in memory is gone.
ServiceDies ==
  /\ service = "up"
  /\ service' = "down"
  /\ registry' = 0 /\ session' = 0 /\ op' = "none"
  /\ UNCHANGED <<cpc, requestVars, roundVars, slot, proc, inJob, log>>

\* An orderly end: the supervisor is dropped and kills what is registered.
ServiceStops ==
  /\ service = "up"
  /\ cpc \in {"done", "failed"}
  /\ service' = "down"
  /\ proc' = [s \in Slots |-> IF s = registry THEN "exited" ELSE proc[s]]
  /\ registry' = 0 /\ session' = 0 /\ op' = "none"
  /\ UNCHANGED <<cpc, requestVars, roundVars, slot, inJob, log>>

\* The last handle of the job is closed with the service: its processes are killed.
JobCloses(s) ==
  /\ service = "down"
  /\ Live(s) /\ inJob[s]
  /\ proc' = [proc EXCEPT ![s] = "exited"]
  /\ UNCHANGED <<service, cpc, requestVars, roundVars, slot, inJob, registry, outcomeVars>>

\* A worker that is not executing a request finds no pipe, or finds it closed.
PipeCloses(s) ==
  /\ service = "down"
  /\ Live(s)
  /\ ~(s = slot /\ cpc = "start")
  /\ proc' = [proc EXCEPT ![s] = "exited"]
  /\ UNCHANGED <<service, cpc, requestVars, roundVars, slot, inJob, registry, outcomeVars>>

\* debug_session_create has returned or the service is gone: nothing has to happen.
Quiet == (service = "down" \/ cpc \in {"done", "failed"}) /\ UNCHANGED vars

Next ==
  \/ OpenWorkspace \/ OpenWorkspaceFails
  \/ SpawnWorker \/ SpawnFails \/ AssignJob \/ Connect \/ CreateWorkerFails
  \/ StartSucceeds \/ StartFails \/ StartBroken \/ KillAttempt \/ RetryAsUser \/ GiveUp
  \/ RecordFailed \/ ReportFailed \/ RegisterWrites \/ AppendOperation \/ RecordFails \/ Publish
  \/ ServiceDies \/ ServiceStops
  \/ \E s \in Slots : WorkerCrash(s) \/ JobCloses(s) \/ PipeCloses(s)
  \/ Quiet

Spec == Init /\ [][Next]_vars

\* The operating system ends the processes of a closed job, and a worker that reads
\* from a closed pipe notices.  Nothing is assumed of one that executes a request.
FairSpec == Spec /\ \A s \in Slots : WF_vars(JobCloses(s)) /\ WF_vars(PipeCloses(s))

-----------------------------------------------------------------------------
(* Properties                                                              *)

\* Every attempt ends its worker before the next one begins: all attempts share one
\* registry key, so a live worker that is not the latest could never be reached
\* again.  The registry never names a worker of an earlier attempt, either.
OneWorkerAtATime ==
  service = "up" =>
    /\ \A s \in Slots : Live(s) => s = slot
    /\ registry \in {0, slot}
    /\ cpc \in {"create", "ended"} => registry = 0 /\ \A s \in Slots : ~Live(s)

\* A creation that operations.jsonl or operation.get calls failed has left no worker.
FailureLeavesNoWorker ==
  log = "Failed" \/ op = "Failed" => registry = 0 /\ \A s \in Slots : ~Live(s)

\* A session that clients can find owns the worker in the registry, and its creation
\* is on record.
SessionBound == session # 0 => registry = session /\ log = "Success"

\* worker-model.md: no worker outlives the service.  A worker spawned but not yet in
\* the job is not executing a request, so its pipe tells it; one that executes a
\* request, and may hang in the engine, is in the job.
NoSurvivors == (service = "down") ~> (\A s \in Slots : ~Live(s))

-----------------------------------------------------------------------------
(* The inductive invariant behind the theorems of SessionCreateProofs      *)

\* The retry as another user doubles the number of attempts, and no more.
RoundInv ==
  LET before == IF identity = requested THEN 0 ELSE Engines
  IN /\ attempt <= Attempts
     /\ slot <= attempt + before
     /\ cpc \in {"open", "create"} => slot < attempt + before

NoLiveWorker == \A s \in Slots : ~Live(s)

\* Who is alive and registered at which step.
WorkerInv ==
  /\ service = "up" =>
       /\ \A s \in Slots : Live(s) => s = slot
       /\ registry \in {0, slot}
       /\ cpc \in {"open", "create", "ended", "recordFailed", "reportFailed"} =>
            registry = 0 /\ NoLiveWorker
       /\ cpc \in {"assign", "connect"} => slot # 0 /\ registry = 0
       /\ cpc \in {"start", "killNext", "killStop", "register", "append", "publish", "done"} =>
            slot # 0 /\ registry = slot
  /\ service = "down" => registry = 0 /\ session = 0 /\ op = "none"

\* What has been written down and published at which step.
OutcomeInv ==
  /\ log = "Failed" => cpc \in {"reportFailed", "failed"} /\ registry = 0 /\ NoLiveWorker
  /\ cpc = "reportFailed" => log = "Failed"
  /\ op = "Failed" => log = "Failed"
  /\ cpc \in {"publish", "done"} => log = "Success"
  /\ session # 0 => cpc = "done" /\ session = slot /\ log = "Success"

IInv == TypeOK /\ RoundInv /\ WorkerInv /\ OutcomeInv
=============================================================================
