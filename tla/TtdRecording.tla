---------------------------- MODULE TtdRecording ----------------------------
(***************************************************************************)
(* recording.ttd: one RPC starts TTD.exe, waits for it up to timeout_ms,   *)
(* asks it to stop, and kills it if it does not (recording_ttd and         *)
(* run_ttd_process of the service).  At most one such RPC is active: the   *)
(* id in ServiceState.active_ttd_recording is set by the RPC and cleared   *)
(* by the Drop of its TtdActiveGuard.                                      *)
(*                                                                         *)
(* Under worker_identity active_interactive_user the process the service   *)
(* starts, waits for and kills is a helper ("service run-ttd-command"),    *)
(* which starts TTD.exe and puts it into a job that ends with the helper.  *)
(*                                                                         *)
(* Definitions that end in X are seeded faults, as in the other modules.   *)
(***************************************************************************)
EXTENDS Integers, FiniteSets

CONSTANTS
    Recordings,     \* the recording.ttd RPCs
    Identities,     \* subset of {"service", "user"}
    IoMayFail,      \* files can refuse a read or a write
    PollMayFail,    \* try_wait and wait can return an error
    Nobody          \* active_ttd_recording is None

ASSUME TtdAssumption ==
    /\ Nobody \notin Recordings
    /\ Identities \subseteq {"service", "user"}
    /\ IoMayFail \in BOOLEAN /\ PollMayFail \in BOOLEAN

VARIABLES
    active,         \* ServiceState.active_ttd_recording
    lock,           \* who holds the mutex of ServiceState over several steps
    pc, ident,
    recorder,       \* the TTD.exe of each RPC
    helper,         \* the helper of each RPC (identity "user")
    inJob,          \* TTD.exe is in the helper's job
    code,           \* exit code of the process the service waits for, if it could read it
    trace,          \* there is a .run file
    exit,           \* what run_ttd_process returned
    status,         \* the recording's status in recording.json
    log, op         \* operations.jsonl, ServiceState.operations

procVars == <<recorder, helper, inJob, code, trace>>
endVars  == <<exit, status, log, op>>
vars     == <<active, lock, pc, ident, procVars, endVars>>

NoExit == [kind |-> "none", timed |-> FALSE]
Codes  == {"none", "zero", "nonzero", "unknown"}
Exits  == [kind : {"none", "Ok", "Err"}, timed : BOOLEAN]

TypeOK ==
    /\ active \in Recordings \cup {Nobody}
    /\ lock \in Recordings \cup {Nobody}
    /\ pc \in [Recordings -> {"idle", "prepare", "spawn", "poll", "stop", "await", "final",
                              "reap", "report", "metadata", "record", "commit", "drop",
                              "done"}]
    /\ ident \in [Recordings -> {"service", "user"}]
    /\ recorder \in [Recordings -> {"none", "running", "exited"}]
    /\ helper \in [Recordings -> {"none", "starting", "spawned", "waiting", "exited"}]
    /\ inJob \in [Recordings -> BOOLEAN]
    /\ code \in [Recordings -> Codes]
    /\ trace \in [Recordings -> BOOLEAN]
    /\ exit \in [Recordings -> Exits]
    /\ status \in [Recordings -> {"none", "completed", "timed_out", "failed"}]
    /\ log \in [Recordings -> {"none", "Success", "Failed"}]
    /\ op \in [Recordings -> {"none", "Success", "Failed"}]

Init ==
    /\ active = Nobody /\ lock = Nobody
    /\ pc = [r \in Recordings |-> "idle"]
    /\ ident \in [Recordings -> Identities]
    /\ recorder = [r \in Recordings |-> "none"]
    /\ helper = [r \in Recordings |-> "none"]
    /\ inJob = [r \in Recordings |-> FALSE]
    /\ code = [r \in Recordings |-> "none"]
    /\ trace = [r \in Recordings |-> FALSE]
    /\ exit = [r \in Recordings |-> NoExit]
    /\ status = [r \in Recordings |-> "none"]
    /\ log = [r \in Recordings |-> "none"]
    /\ op = [r \in Recordings |-> "none"]

Goto(r, p) == pc' = [pc EXCEPT ![r] = p]

-----------------------------------------------------------------------------
(***************************************************************************)
(* Up to the recorder                                                      *)
(***************************************************************************)
\* start_ttd_recording
Start(r) ==
    /\ pc[r] = "idle" /\ lock = Nobody
    /\ \/ active = Nobody /\ active' = r /\ Goto(r, "prepare")
       \/ active # Nobody /\ Goto(r, "done") /\ UNCHANGED active
    /\ UNCHANGED <<lock, ident, procVars, endVars>>

\* Workspace, directories, resolve_ttd_exe, the first two events.
Prepare(r) ==
    /\ pc[r] = "prepare"
    /\ Goto(r, "spawn")
    /\ UNCHANGED <<active, lock, ident, procVars, endVars>>

\* An early return through `?`: the guard is all there is to drop.
Fails(r) ==
    /\ IoMayFail
    /\ pc[r] \in {"prepare", "report", "metadata", "record"}
    /\ Goto(r, "drop")
    /\ UNCHANGED <<active, lock, ident, procVars, endVars>>

\* spawn_ttd_process
Spawn(r) ==
    /\ pc[r] = "spawn"
    /\ Goto(r, "poll")
    /\ IF ident[r] = "service"
       THEN recorder' = [recorder EXCEPT ![r] = "running"] /\ UNCHANGED helper
       ELSE helper' = [helper EXCEPT ![r] = "starting"] /\ UNCHANGED recorder
    /\ UNCHANGED <<active, lock, ident, inJob, code, trace, endVars>>

Returned(r, kind, timed) == exit' = [exit EXCEPT ![r] = [kind |-> kind, timed |-> timed]]

SpawnFails(r) ==
    /\ pc[r] = "spawn"
    /\ Goto(r, "report")
    /\ Returned(r, "Err", FALSE)
    /\ UNCHANGED <<active, lock, ident, procVars, status, log, op>>

-----------------------------------------------------------------------------
(***************************************************************************)
(* run_ttd_process: poll, stop, wait, kill                                 *)
(***************************************************************************)
\* The process the service started has ended.
Ended(r) == IF ident[r] = "service" THEN recorder[r] = "exited" ELSE helper[r] = "exited"

PollExited(r) ==
    /\ pc[r] \in {"poll", "await", "final"}
    /\ Ended(r)
    /\ Goto(r, "report")
    /\ Returned(r, "Ok", pc[r] # "poll")
    /\ UNCHANGED <<active, lock, ident, procVars, status, log, op>>

\* try_wait()?: the function returns and the process is left to itself.
PollFails(r) ==
    /\ PollMayFail
    /\ pc[r] \in {"poll", "await", "final"}
    /\ Goto(r, "report")
    /\ Returned(r, "Err", FALSE)
    /\ UNCHANGED <<active, lock, ident, procVars, status, log, op>>

\* timeout_ms has passed and try_wait saw the process running just before.
Deadline(r) ==
    /\ pc[r] = "poll"
    /\ Goto(r, "stop")
    /\ UNCHANGED <<active, lock, ident, procVars, endVars>>

\* run_ttd_stop_process: it ends, by itself or killed after its own timeout, and
\* whatever it answers is only reported.
StopCommand(r) ==
    /\ pc[r] = "stop"
    /\ Goto(r, "await")
    /\ UNCHANGED <<active, lock, ident, procVars, endVars>>

\* The wait after the stop command has no bound.
ExitDeadlineX(r) ==
    /\ pc[r] = "await" /\ Ended(r)
    /\ Goto(r, "final")
    /\ UNCHANGED <<active, lock, ident, procVars, endVars>>

\* recorder_exit_timeout has passed.
ExitDeadline(r) ==
    /\ pc[r] = "await"
    /\ Goto(r, "final")
    /\ UNCHANGED <<active, lock, ident, procVars, endVars>>

\* Only the helper is killed and TTD.exe is in no job.
KillX(r) ==
    /\ pc[r] = "final" /\ ~Ended(r)
    /\ Goto(r, "reap")
    /\ code' = [code EXCEPT ![r] = "nonzero"]
    /\ IF ident[r] = "service"
       THEN recorder' = [recorder EXCEPT ![r] = "exited"] /\ UNCHANGED helper
       ELSE helper' = [helper EXCEPT ![r] = "exited"] /\ UNCHANGED recorder
    /\ UNCHANGED <<active, lock, ident, inJob, trace, endVars>>

\* child.kill(); the helper's job ends with it.
Kill(r) ==
    /\ pc[r] = "final" /\ ~Ended(r)
    /\ Goto(r, "reap")
    /\ code' = [code EXCEPT ![r] = "nonzero"]
    /\ helper' = [helper EXCEPT ![r] = IF ident[r] = "user" THEN "exited" ELSE @]
    /\ recorder' = [recorder EXCEPT ![r] =
           IF ident[r] = "service" \/ inJob[r] THEN "exited" ELSE @]
    /\ UNCHANGED <<active, lock, ident, inJob, trace, endVars>>

\* child.wait().ok(): the process was killed, but an error leaves its exit code unknown.
Reap(r) ==
    /\ pc[r] = "reap"
    /\ Goto(r, "report")
    /\ Returned(r, "Ok", TRUE)
    /\ \/ UNCHANGED code
       \/ PollMayFail /\ code' = [code EXCEPT ![r] = "unknown"]
    /\ UNCHANGED <<active, lock, ident, recorder, helper, inJob, trace, status, log, op>>

-----------------------------------------------------------------------------
(***************************************************************************)
(* The outcome                                                             *)
(***************************************************************************)
\* The recorder's exit code is not looked at.
OutcomeX(r) ==
    IF exit[r].kind = "Err" \/ ~trace[r] THEN "failed"
    ELSE IF exit[r].timed THEN "timed_out" ELSE "completed"

Outcome(r) ==
    IF exit[r].kind = "Err" \/ code[r] = "nonzero" \/ ~trace[r] THEN "failed"
    ELSE IF exit[r].timed THEN "timed_out" ELSE "completed"

\* Events, discover_ttd_artifacts, and the status they lead to.
Report(r) ==
    /\ pc[r] = "report"
    /\ status' = [status EXCEPT ![r] = Outcome(r)]
    /\ Goto(r, "metadata")
    /\ UNCHANGED <<active, lock, ident, procVars, exit, log, op>>

\* recording.json, the last event, register_worker_writes
WriteMetadata(r) ==
    /\ pc[r] = "metadata"
    /\ Goto(r, "record")
    /\ UNCHANGED <<active, lock, ident, procVars, endVars>>

OperationStatus(r) == IF status[r] = "failed" THEN "Failed" ELSE "Success"

AppendOperation(r) ==
    /\ pc[r] = "record"
    /\ log' = [log EXCEPT ![r] = OperationStatus(r)]
    /\ Goto(r, "commit")
    /\ UNCHANGED <<active, lock, ident, procVars, exit, status, op>>

\* The state is locked, and stays locked until the handler's locals are dropped.
Commit(r) ==
    /\ pc[r] = "commit" /\ lock = Nobody
    /\ lock' = r
    /\ op' = [op EXCEPT ![r] = OperationStatus(r)]
    /\ Goto(r, "drop")
    /\ UNCHANGED <<active, ident, procVars, exit, status, log>>

\* TtdActiveGuard::drop
Release(r) == IF active = r THEN Nobody ELSE active

\* Locals are dropped in the reverse order of their declaration: the lock of the
\* state first, then the guard, whose Drop takes the lock again.
DropLocals(r) ==
    /\ pc[r] = "drop"
    /\ \/ lock = r /\ lock' = Nobody /\ UNCHANGED <<active, pc>>
       \/ /\ lock = Nobody
          /\ active' = Release(r)
          /\ Goto(r, "done")
          /\ UNCHANGED lock
    /\ UNCHANGED <<ident, procVars, endVars>>

-----------------------------------------------------------------------------
(***************************************************************************)
(* The recorder and the helper                                             *)
(***************************************************************************)
RecorderRecords(r) ==
    /\ recorder[r] = "running"
    /\ ~trace[r]
    /\ trace' = [trace EXCEPT ![r] = TRUE]
    /\ UNCHANGED <<active, lock, pc, ident, recorder, helper, inJob, code, endVars>>

RecorderExits(r) ==
    /\ recorder[r] = "running"
    /\ recorder' = [recorder EXCEPT ![r] = "exited"]
    /\ \E c \in {"zero", "nonzero"} :
         code' = [code EXCEPT ![r] = IF helper[r] = "exited" THEN @ ELSE c]
    /\ UNCHANGED <<active, lock, pc, ident, helper, inJob, trace, endVars>>

\* run_ttd_command_helper_inner
HelperSpawns(r) ==
    /\ helper[r] = "starting"
    /\ helper' = [helper EXCEPT ![r] = "spawned"]
    /\ recorder' = [recorder EXCEPT ![r] = "running"]
    /\ UNCHANGED <<active, lock, pc, ident, inJob, code, trace, endVars>>

HelperAssigns(r) ==
    /\ helper[r] = "spawned"
    /\ helper' = [helper EXCEPT ![r] = "waiting"]
    /\ inJob' = [inJob EXCEPT ![r] = TRUE]
    /\ UNCHANGED <<active, lock, pc, ident, recorder, code, trace, endVars>>

\* No job, no TTD.exe, or it cannot be assigned to the job: it is killed.
HelperFails(r) ==
    /\ helper[r] \in {"starting", "spawned"}
    /\ helper' = [helper EXCEPT ![r] = "exited"]
    /\ code' = [code EXCEPT ![r] = "nonzero"]
    /\ recorder' = [recorder EXCEPT ![r] = IF @ = "running" THEN "exited" ELSE @]
    /\ UNCHANGED <<active, lock, pc, ident, inJob, trace, endVars>>

HelperExits(r) ==
    /\ helper[r] = "waiting" /\ recorder[r] = "exited"
    /\ helper' = [helper EXCEPT ![r] = "exited"]
    /\ UNCHANGED <<active, lock, pc, ident, recorder, inJob, code, trace, endVars>>

-----------------------------------------------------------------------------
\* The steps of the RPC's own thread.
Handler(r) ==
    \/ Start(r) \/ Prepare(r) \/ Spawn(r) \/ PollExited(r) \/ Deadline(r)
    \/ StopCommand(r) \/ ExitDeadline(r) \/ Kill(r) \/ Reap(r) \/ Report(r)
    \/ WriteMetadata(r) \/ AppendOperation(r) \/ Commit(r) \/ DropLocals(r)

Processes(r) ==
    \/ RecorderRecords(r) \/ RecorderExits(r)
    \/ HelperSpawns(r) \/ HelperAssigns(r) \/ HelperFails(r) \/ HelperExits(r)

Quiet == (\A r \in Recordings : pc[r] = "done") /\ UNCHANGED vars

Next ==
    \/ \E r \in Recordings :
         Handler(r) \/ Processes(r) \/ Fails(r) \/ SpawnFails(r) \/ PollFails(r)
    \/ Quiet

Spec == Init /\ [][Next]_vars

\* The service's threads run and its timers fire; nothing is assumed of the
\* recorder, which may hang, or of the helper.
FairSpec == Spec /\ \A r \in Recordings : WF_vars(Handler(r))

-----------------------------------------------------------------------------
(***************************************************************************)
(* Properties                                                              *)
(***************************************************************************)
\* The one recording at a time that active_ttd_recording promises is also the one
\* recorder at a time: a TTD.exe that runs belongs to the active recording, or
\* its RPC has lost it through an error of try_wait or by killing the helper
\* before TTD.exe was in the job.
OneRecorder ==
    \A r \in Recordings :
        recorder[r] = "running" =>
            \/ active = r
            \/ exit[r].kind = "Err"
            \/ ident[r] = "user" /\ ~inJob[r]

\* A recording that recording.json reports as completed or timed_out, operations.jsonl
\* or operation.get as a success, has a trace that nobody writes any more, from a
\* recorder that ended well and was not killed.  A recorder that was killed passes for
\* one that ended well if the wait for it fails: a missing exit code is no error.
StatusHonest ==
    \A r \in Recordings :
        status[r] \in {"completed", "timed_out"} \/ "Success" \in {log[r], op[r]} =>
            /\ trace[r]
            /\ code[r] = "unknown" \/ (recorder[r] = "exited" /\ code[r] = "zero")

\* recording.ttd returns, even if TTD.exe and its helper hang: stop, wait and kill
\* are bounded, and the guard's Drop does not wait for the caller's own lock; and
\* whichever way it ends, the next recording is not refused because of it.
RecordingReturns ==
    \A r \in Recordings : pc[r] # "idle" ~> [](pc[r] = "done" /\ active # r)

-----------------------------------------------------------------------------
(***************************************************************************)
(* The inductive invariant behind the theorems of TtdRecordingProofs       *)
(***************************************************************************)
\* An RPC that was let through owns the guard until it drops it.
ActiveInv == \A r \in Recordings : pc[r] \notin {"idle", "done"} => active = r

\* Which processes there are before the spawn, and what the helper says of TTD.exe.
ProcessInv ==
    \A r \in Recordings :
        /\ pc[r] \in {"idle", "prepare", "spawn"} =>
             recorder[r] = "none" /\ helper[r] = "none" /\ exit[r].kind = "none"
        /\ helper[r] # "none" => ident[r] = "user"
        /\ helper[r] = "starting" => recorder[r] = "none"
        /\ helper[r] \in {"none", "starting", "spawned"} => ~inJob[r]
        /\ inJob[r] /\ helper[r] = "exited" => recorder[r] = "exited"
        /\ "exited" \in {recorder[r], helper[r]} => code[r] # "none"
        /\ code[r] = "zero" => recorder[r] = "exited"

\* run_ttd_process returns Ok only for a process that has ended.
ExitInv ==
    \A r \in Recordings :
        /\ exit[r].kind = "Ok" => Ended(r)
        /\ pc[r] \in {"poll", "stop", "await", "final", "reap"} => exit[r].kind = "none"
        /\ pc[r] = "reap" => Ended(r)
        /\ pc[r] \in {"report", "metadata", "record", "commit"} => exit[r].kind # "none"
        /\ pc[r] \in {"drop", "done"} /\ exit[r].kind = "none" =>
             recorder[r] = "none" /\ helper[r] = "none"

\* What is written down, and from what.
OutcomeInv ==
    \A r \in Recordings :
        /\ pc[r] \in {"idle", "prepare", "spawn", "poll", "stop", "await", "final", "reap",
                     "report"} => status[r] = "none" /\ log[r] = "none" /\ op[r] = "none"
        /\ pc[r] \in {"metadata", "record", "commit"} => status[r] # "none"
        /\ status[r] \in {"completed", "timed_out"} =>
             exit[r].kind = "Ok" /\ trace[r] /\ code[r] \in {"zero", "unknown"}
        /\ "Success" \in {log[r], op[r]} => status[r] \in {"completed", "timed_out"}

IInv == TypeOK /\ ActiveInv /\ ProcessInv /\ ExitInv /\ OutcomeInv
=============================================================================
