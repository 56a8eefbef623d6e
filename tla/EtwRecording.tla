---------------------------- MODULE EtwRecording ----------------------------
(***************************************************************************)
(* One ETW recording: the recording.start RPC that brings up the trace     *)
(* session and the target, and the recording.stop / cancel / kill RPCs     *)
(* that compete to finish it.  The trace session lives in the kernel; the  *)
(* service reaches it through one EtwFileSession value, and whoever owns   *)
(* that value must stop the trace (stop() or Drop).                        *)
(*                                                                         *)
(* A definition whose name ends in X is a seeded fault that Next never     *)
(* uses: put in the place of the definition after it, it breaks a property *)
(* below, which shows that the property constrains the code.               *)
(***************************************************************************)
CONSTANTS Enders,     \* RPC threads that stop, cancel or kill the recording
          Targets,    \* the kinds of target asked for: "launch", "attach"
          IoMayFail   \* files can refuse a read or a write

ASSUME RecordingAssumption ==
  IoMayFail \in BOOLEAN /\ Targets \subseteq {"launch", "attach"}

VARIABLES rec,        \* ManagedRecording.state in ServiceState.recordings
          etw,        \* the kernel's trace session
          consumer,   \* the adapter's real-time consumer thread
          owner,      \* who owns the EtwFileSession
          child,      \* the launched target process
          trace,      \* what trace.etl is: an ETL file or a fallback text
          meta,       \* the state recorded in recording.json
          spc,        \* where recording.start is
          pc, mode,   \* where the other RPCs are, and which they are
          stopped,    \* result of EtwFileSession::stop, per RPC
          audit       \* operations.jsonl: the finishing operations' records

traceVars == <<etw, consumer, owner, trace>>
startVars == <<child, spc>>
endVars   == <<pc, mode, stopped, audit>>
vars      == <<rec, traceVars, startVars, meta, endVars>>

Modes == {"stop", "cancel", "kill"}
FinalState == [stop |-> "Stopped", cancel |-> "Canceled", kill |-> "Killed"]
FinalStates == {"Stopped", "Canceled", "Killed"}

\* The status of the finishing operation itself.
RecordedStatus == [stop |-> "Success", cancel |-> "Canceled", kill |-> "Failed"]

TypeOK ==
  /\ rec \in {"absent", "Running", "Stopping"} \cup FinalStates
  /\ etw \in {"off", "on"}
  /\ consumer \in {"none", "running", "failed", "ended"}
  /\ owner \in {"nobody", "starter", "recording"}
  /\ child \in {"none", "suspended", "running", "terminated"}
  /\ trace \in {"none", "etl", "text"}
  /\ meta \in {"none", "Running"} \cup FinalStates
  /\ spc \in {"trace", "prepare", "consume", "resume", "write", "record", "publish",
              "done", "failed"}
  /\ pc \in [Enders -> {"idle", "open", "stop", "join", "write", "meta", "record",
                        "publish", "done"}]
  /\ mode \in [Enders -> Modes \cup {"none"}]
  /\ stopped \in [Enders -> {"none", "Ok", "Err"}]
  /\ audit \in [Enders -> {"none", "Success", "Canceled", "Failed"}]

Init ==
  /\ rec = "absent"
  /\ etw = "off" /\ consumer = "none" /\ owner = "nobody" /\ trace = "none"
  /\ child = "none" /\ spc = "trace"
  /\ meta = "none"
  /\ pc = [t \in Enders |-> "idle"]
  /\ mode = [t \in Enders |-> "none"]
  /\ stopped = [t \in Enders |-> "none"]
  /\ audit = [t \in Enders |-> "none"]

-----------------------------------------------------------------------------
(* recording.start                                                         *)

\* stop() or Drop of the EtwFileSession on an early return, and the return; what
\* stop() answers is ignored.  (The consumer thread is joined inside.)
AbandonStart ==
  /\ spc' = "failed"
  /\ etw' = "off"
  /\ consumer' = IF consumer = "running" THEN "ended" ELSE consumer
  /\ owner' = "nobody"

\* EtwFileSession::start: a failure is noted in the metadata, and the recording
\* goes on without a trace.
StartTrace ==
  /\ spc = "trace"
  /\ spc' = "prepare"
  /\ \/ etw' = "on" /\ owner' = "starter" /\ trace' = "etl"
     \/ UNCHANGED <<etw, owner, trace>>
  /\ UNCHANGED <<rec, consumer, child, meta, endVars>>

\* The workspace or the artifact directory cannot be created.
StartRefused ==
  /\ IoMayFail
  /\ spc = "trace"
  /\ spc' = "failed"
  /\ UNCHANGED <<rec, traceVars, child, meta, endVars>>

\* prepare_recording_target: a launched target is created suspended.
PrepareTarget ==
  /\ spc = "prepare"
  /\ \/ "attach" \in Targets /\ spc' = "consume" /\ UNCHANGED <<child, traceVars>>
     \/ "launch" \in Targets /\ spc' = "consume" /\ child' = "suspended" /\ UNCHANGED traceVars
     \/ "launch" \in Targets /\ AbandonStart /\ UNCHANGED <<child, trace>>
  /\ UNCHANGED <<rec, meta, endVars>>

\* start_realtime_consumer, if there is a trace: a failure is noted.
StartConsumer ==
  /\ spc = "consume"
  /\ spc' = "resume"
  /\ \/ owner = "starter" /\ consumer' = "running"
     \/ UNCHANGED consumer
  /\ UNCHANGED <<rec, etw, owner, trace, child, meta, endVars>>

\* resume consumes the prepared target: if ResumeThread fails, Drop terminates it.
ResumeTargetX ==
  /\ spc = "resume"
  /\ \/ /\ spc' = "write"
        /\ child' = IF child = "suspended" THEN "running" ELSE child
        /\ UNCHANGED traceVars
     \/ child = "suspended" /\ AbandonStart /\ UNCHANGED <<child, trace>>
  /\ UNCHANGED <<rec, meta, endVars>>

ResumeTargetLeakX ==
  /\ spc = "resume"
  /\ \/ /\ spc' = "write"
        /\ child' = IF child = "suspended" THEN "running" ELSE child
        /\ UNCHANGED traceVars
     \/ child = "suspended" /\ spc' = "failed" /\ child' = "terminated" /\ UNCHANGED traceVars
  /\ UNCHANGED <<rec, meta, endVars>>

ResumeTarget ==
  /\ spc = "resume"
  /\ \/ /\ spc' = "write"
        /\ child' = IF child = "suspended" THEN "running" ELSE child
        /\ UNCHANGED traceVars
     \/ child = "suspended" /\ AbandonStart /\ child' = "terminated" /\ UNCHANGED trace
  /\ UNCHANGED <<rec, meta, endVars>>

\* write_recording_start_artifacts
WriteStartArtifacts ==
  /\ spc = "write"
  /\ spc' = "record"
  /\ meta' = "Running"
  /\ UNCHANGED <<rec, traceVars, child, endVars>>

\* register_worker_writes and append_operation
RecordStart ==
  /\ spc = "record"
  /\ spc' = "publish"
  /\ UNCHANGED <<rec, traceVars, child, meta, endVars>>

\* One of these fails: the handler returns, the session value is dropped, and
\* a launched target runs on.
StartIoFails ==
  /\ IoMayFail
  /\ spc \in {"write", "record"}
  /\ AbandonStart
  /\ meta' \in {meta, "Running"}
  /\ UNCHANGED <<rec, trace, child, endVars>>

PublishRecording ==
  /\ spc = "publish"
  /\ spc' = "done"
  /\ rec' = "Running"
  /\ owner' = IF owner = "starter" THEN "recording" ELSE owner
  /\ UNCHANGED <<etw, consumer, trace, child, meta, endVars>>

-----------------------------------------------------------------------------
(* finish_recording                                                        *)

Goto(t, p) == pc' = [pc EXCEPT ![t] = p]

\* Check and change of the state are one critical section: one RPC wins.  The
\* recording's id is known from the answer to recording.start.
BeginEndX(t, m) ==
  /\ pc[t] = "idle"
  /\ rec # "absent"
  /\ mode' = [mode EXCEPT ![t] = m]
  /\ \/ rec \in {"Running", "Stopping"} /\ rec' = "Stopping" /\ Goto(t, "open")
     \/ rec \notin {"Running", "Stopping"} /\ Goto(t, "done") /\ UNCHANGED rec
  /\ UNCHANGED <<traceVars, startVars, meta, stopped, audit>>

BeginEnd(t, m) ==
  /\ pc[t] = "idle"
  /\ rec # "absent"
  /\ mode' = [mode EXCEPT ![t] = m]
  /\ \/ rec = "Running" /\ rec' = "Stopping" /\ Goto(t, "open")
     \/ rec # "Running" /\ Goto(t, "done") /\ UNCHANGED rec
  /\ UNCHANGED <<traceVars, startVars, meta, stopped, audit>>

OpenWorkspace(t) ==
  /\ pc[t] = "open"
  /\ Goto(t, IF owner = "recording" THEN "stop" ELSE "write")
  /\ UNCHANGED <<rec, traceVars, startVars, meta, mode, stopped, audit>>

\* The Option is taken under its mutex, then da_etw_session_stop: ControlTrace
\* first (an error if the trace is gone already), then the consumer is joined.
StopControlX(t) ==
  /\ pc[t] = "stop"
  /\ consumer # "running"
  /\ owner' = "nobody"
  /\ etw' = "off"
  /\ stopped' = [stopped EXCEPT ![t] = IF etw = "on" THEN "Ok" ELSE "Err"]
  /\ Goto(t, "join")
  /\ UNCHANGED <<rec, consumer, trace, startVars, meta, mode, audit>>

StopControl(t) ==
  /\ pc[t] = "stop"
  /\ owner' = "nobody"
  /\ etw' = "off"
  /\ stopped' = [stopped EXCEPT ![t] = IF etw = "on" THEN "Ok" ELSE "Err"]
  /\ Goto(t, "join")
  /\ UNCHANGED <<rec, consumer, trace, startVars, meta, mode, audit>>

\* A consumer that failed makes stop() fail, too, although the trace is complete.
JoinConsumer(t) ==
  /\ pc[t] = "join"
  /\ consumer # "running"
  /\ stopped' = [stopped EXCEPT ![t] = IF consumer = "failed" THEN "Err" ELSE @]
  /\ Goto(t, "write")
  /\ UNCHANGED <<rec, traceVars, startVars, meta, mode, audit>>

\* write_recording_trace_artifact: keep (and filter) the ETL file, or write the
\* fallback text to trace.etl.
WriteTrace(t) ==
  /\ pc[t] = "write"
  /\ trace' = IF stopped[t] = "Ok" THEN trace ELSE "text"
  /\ Goto(t, "meta")
  /\ UNCHANGED <<rec, etw, consumer, owner, startVars, meta, mode, stopped, audit>>

\* recording.json, and the event files.
WriteMetadata(t) ==
  /\ pc[t] = "meta"
  /\ meta' = FinalState[mode[t]]
  /\ Goto(t, "record")
  /\ UNCHANGED <<rec, traceVars, startVars, mode, stopped, audit>>

\* register_worker_writes, append_operation
RecordEnd(t) ==
  /\ pc[t] = "record"
  /\ audit' = [audit EXCEPT ![t] = RecordedStatus[mode[t]]]
  /\ Goto(t, "publish")
  /\ UNCHANGED <<rec, traceVars, startVars, meta, mode, stopped>>

\* Any `?` in between: the handler returns and leaves the recording Stopping.  A
\* write of the fallback text that fails may have truncated trace.etl.
EndIoFails(t) ==
  /\ IoMayFail
  /\ pc[t] \in {"open", "write", "meta", "record"}
  /\ Goto(t, "done")
  /\ trace' \in IF pc[t] = "write" /\ stopped[t] # "Ok" THEN {trace, "text"} ELSE {trace}
  /\ UNCHANGED <<rec, etw, consumer, owner, startVars, meta, mode, stopped, audit>>

PublishEnd(t) ==
  /\ pc[t] = "publish"
  /\ rec' = FinalState[mode[t]]
  /\ Goto(t, "done")
  /\ UNCHANGED <<traceVars, startVars, meta, mode, stopped, audit>>

-----------------------------------------------------------------------------
(* The trace session and the consumer thread                               *)

\* Another controller stops the trace session.
TraceLost ==
  /\ etw = "on"
  /\ etw' = "off"
  /\ UNCHANGED <<rec, consumer, owner, trace, startVars, meta, endVars>>

\* OpenTrace or ProcessTrace fails.
ConsumerFails ==
  /\ consumer = "running"
  /\ consumer' = "failed"
  /\ UNCHANGED <<rec, etw, owner, trace, startVars, meta, endVars>>

\* ProcessTrace returns once the session is stopped.
ConsumerEnds ==
  /\ consumer = "running"
  /\ etw = "off"
  /\ consumer' = "ended"
  /\ UNCHANGED <<rec, etw, owner, trace, startVars, meta, endVars>>

-----------------------------------------------------------------------------
Start ==
  \/ StartTrace \/ PrepareTarget \/ StartConsumer \/ ResumeTarget \/ WriteStartArtifacts
  \/ RecordStart \/ PublishRecording

End(t) ==
  \/ OpenWorkspace(t) \/ StopControl(t) \/ JoinConsumer(t) \/ WriteTrace(t)
  \/ WriteMetadata(t) \/ RecordEnd(t) \/ PublishEnd(t)

\* Every RPC has been served: the bound on their number.
Quiet == (spc = "failed" \/ \A t \in Enders : pc[t] = "done") /\ UNCHANGED vars

Next ==
  \/ Start \/ StartRefused \/ StartIoFails
  \/ \E t \in Enders : End(t) \/ EndIoFails(t) \/ \E m \in Modes : BeginEnd(t, m)
  \/ TraceLost \/ ConsumerFails \/ ConsumerEnds
  \/ Quiet

Spec == Init /\ [][Next]_vars

\* The RPC threads and the consumer thread are scheduled.
FairSpec ==
  Spec /\ WF_vars(Start) /\ (\A t \in Enders : WF_vars(End(t))) /\ WF_vars(ConsumerEnds)

-----------------------------------------------------------------------------
(* Properties                                                              *)

\* A running trace session always has an owner that can still stop it: no failed
\* recording.start and no finished recording leaves one running in the kernel.
\* (A recording that a failed RPC has left Stopping keeps its trace session, and no
\* later stop, cancel or kill is let through to it.)
TraceOwned ==
  etw = "on" =>
    \/ owner = "starter" /\ spc \notin {"done", "failed"}
    \/ owner = "recording" /\ rec \in {"Running", "Stopping"}

\* A target launched suspended has been resumed or terminated by the time
\* recording.start returns.
NoSuspendedTarget == spc \in {"done", "failed"} => child # "suspended"

\* One of the competing stop, cancel and kill RPCs ends the recording: its state,
\* recording.json and operations.jsonl agree on which, and no other left a record.
OneEnder ==
  rec \in FinalStates =>
    /\ meta = rec
    /\ \E t \in Enders :
         /\ mode[t] \in Modes
         /\ rec = FinalState[mode[t]]
         /\ audit[t] = RecordedStatus[mode[t]]
         /\ \A u \in Enders \ {t} : audit[u] = "none"

\* recording.stop, cancel and kill return: joining the consumer thread ends,
\* because the trace session has been stopped before.
EndReturns == \A t \in Enders : (pc[t] # "idle") ~> (pc[t] = "done")

-----------------------------------------------------------------------------
(* The inductive invariant behind the theorems of EtwRecordingProofs        *)

\* Who owns the trace session, and what the target is, at each step of the start.
StartInv ==
  /\ rec = "absent" <=> spc # "done"
  /\ etw = "on" => owner # "nobody"
  /\ owner = "starter" => spc \notin {"done", "failed"}
  /\ owner = "recording" => spc = "done"
  /\ spc = "trace" => owner = "nobody"
  /\ spc \in {"trace", "prepare"} => child = "none"
  /\ spc \in {"write", "record", "publish", "done", "failed"} => child # "suspended"

Ending(t) == pc[t] \notin {"idle", "done"}

\* One RPC ends the recording; it has given up the trace session before it writes,
\* and has written before it publishes.
EndInv ==
  /\ owner = "recording" => rec \in {"Running", "Stopping"}
  /\ \A t \in Enders :
       /\ Ending(t) => rec = "Stopping" /\ mode[t] \in Modes
       /\ pc[t] \in {"join", "write", "meta", "record", "publish"} => owner = "nobody"
       /\ audit[t] # "none" => pc[t] \in {"publish", "done"} /\ rec \notin {"absent", "Running"}
       /\ pc[t] \in {"record", "publish"} => meta = FinalState[mode[t]]
       /\ pc[t] = "publish" => audit[t] = RecordedStatus[mode[t]]
       /\ \A u \in Enders \ {t} :
            Ending(t) \/ audit[t] # "none" => ~Ending(u) /\ audit[u] = "none"

IInv == TypeOK /\ StartInv /\ EndInv /\ OneEnder
=============================================================================
