-------------------------- MODULE WorkerSupervisor --------------------------
(***************************************************************************)
(* ProcessWorkerSupervisor and the worker process it drives, for the one   *)
(* worker of one session (session : worker is 1 : 1, the registry key is   *)
(* "worker-" + session id).                                                *)
(*                                                                         *)
(* The service modules that own a worker extend this module and conjoin    *)
(* its steps with what their own handlers do.  A request is identified by  *)
(* the RPC thread it is made for: every RPC makes at most one request at a *)
(* time.  A request with a timeout runs on a detached thread, which is why *)
(* its progress (req) is kept apart from the program counter of the RPC.   *)
(***************************************************************************)
EXTENDS Naturals, Sequences, FiniteSets

CONSTANTS Threads,     \* the RPC threads; each handles one request
          NoThread     \* "nobody holds this mutex"

ASSUME ThreadsAssumption == NoThread \notin Threads

VARIABLES registered,  \* the worker is in the registry `workers`
          transport,   \* holder of the worker's transport mutex
          proc,        \* the worker process
          req,         \* progress of request_worker, per RPC thread
          resp         \* what request_worker returned, per RPC thread

supervisorVars == <<registered, transport, proc, req, resp>>

Holder == Threads \cup {NoThread}

\* Serving: in the read loop.  Leaving: answered a CloseSession, left the loop
\* and is on its way out of main.  Exited: gone, its end of the pipe is closed.
ProcStates == {"Serving", "Leaving", "Exited"}
ReqStates  == {"none", "lookup", "want", "waiting", "done"}

\* Reply: the response the handler expects.  Failed: WorkerResponse::Failed or
\* a response of another kind.  Err: request_worker returned an error.
Responses  == {"none", "Reply", "Failed", "Err"}

SupervisorTypeOK ==
  /\ registered \in BOOLEAN
  /\ transport \in Holder
  /\ proc \in ProcStates
  /\ req \in [Threads -> ReqStates]
  /\ resp \in [Threads -> Responses]

\* A worker that create_worker has just registered and that has answered its
\* start request.
SupervisorInit ==
  /\ registered = TRUE
  /\ transport = NoThread
  /\ proc = "Serving"
  /\ req = [t \in Threads |-> "none"]
  /\ resp = [t \in Threads |-> "none"]

-----------------------------------------------------------------------------
(* request_worker, in the steps between which others can run.              *)

\* get_worker: the registry lookup.  Found: the caller keeps its own Arc.
LookupWorker(t) ==
  /\ req[t] = "lookup"
  /\ IF registered
     THEN /\ req' = [req EXCEPT ![t] = "want"]
          /\ UNCHANGED resp
     ELSE /\ req' = [req EXCEPT ![t] = "done"]
          /\ resp' = [resp EXCEPT ![t] = "Err"]
  /\ UNCHANGED <<registered, transport, proc>>

\* transport.lock(), then the request line is written.
LockTransport(t) ==
  /\ req[t] = "want"
  /\ transport = NoThread
  /\ transport' = t
  /\ req' = [req EXCEPT ![t] = "waiting"]
  /\ UNCHANGED <<registered, proc, resp>>

\* The worker's line is read.  Err stands for a line that is too long, is not
\* the expected JSON or carries another request id; the worker lives on.  A
\* worker answers CloseSession with Ok and leaves its loop.
WorkerAnswers(t, r, closing) ==
  /\ req[t] = "waiting"
  /\ transport = t
  /\ proc = "Serving"
  /\ resp' = [resp EXCEPT ![t] = r]
  /\ req' = [req EXCEPT ![t] = "done"]
  /\ transport' = NoThread
  /\ proc' = IF closing THEN "Leaving" ELSE proc
  /\ UNCHANGED registered

\* The process is gone: the write or the read fails.
PipeBroken(t) ==
  /\ req[t] = "waiting"
  /\ transport = t
  /\ proc = "Exited"
  /\ resp' = [resp EXCEPT ![t] = "Err"]
  /\ req' = [req EXCEPT ![t] = "done"]
  /\ transport' = NoThread
  /\ UNCHANGED <<registered, proc>>

-----------------------------------------------------------------------------
(* kill_worker and close_worker: remove from the registry, then act on the *)
(* child.  Whoever comes second finds nothing and has nothing left to do.  *)

RemoveWorker == registered' = FALSE /\ UNCHANGED <<transport, proc, req, resp>>

\* child.kill(); child.wait()
KillChild == proc' = "Exited" /\ UNCHANGED <<registered, transport, req, resp>>

\* child.wait() alone returns only once the process has ended by itself.
WaitChild == proc = "Exited" /\ UNCHANGED supervisorVars

\* The process ends by itself: it crashes in the debug engine, or it leaves main
\* after CloseSession.
WorkerCrash ==
  /\ proc = "Serving"
  /\ proc' = "Exited"
  /\ UNCHANGED <<registered, transport, req, resp>>

WorkerLeaves ==
  /\ proc = "Leaving"
  /\ proc' = "Exited"
  /\ UNCHANGED <<registered, transport, req, resp>>
=============================================================================
