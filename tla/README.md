# A TLA+ model of the DbgAtlas service

DbgAtlas is a Windows service that lets clients (CLI, JSON-RPC, MCP) debug
processes and dumps, record ETW and TTD traces and look into IDA databases. The
native engines run in worker processes, one per session; the service owns the
workers, the sessions, the recordings and the operation records. This directory
models the part that is concurrent and can fail half-way (the handlers of the
service, interleaved wherever they release a lock, wait for a worker or touch a
file), the updater that replaces the installed binaries, and the algorithm that
turns a stream of ETW records into event files. References `lib.rs:N` are to
`src/crates/dbgatlas-service/src/lib.rs`, `etw.cpp:N` to
`src/native/adapters/etw/dbgatlas_etw.cpp`.

## Inventory

| Component | State | Operations | What is hard | What makes it correct |
|---|---|---|---|---|
| Debug session (`eval_command`, `add_symbols`, `read_memory`, `finish_session`, `operation_cancel`) | `ServiceState.sessions`, `.operations`, `request_lock`, `operations.jsonl` | commands, close, kill, cancel | each handler holds the state lock only for moments and works on copies between | one request at a time, nothing accepted after the end, final outcomes final and recorded first, kill always returns |
| Worker supervisor (`ProcessWorkerSupervisor`, `WorkerTransport`) | registry `workers`, per worker a child and a transport mutex | request, cancel, close, kill, create | several threads remove the same worker; a timed out request lives on in a detached thread | no process without somebody who waits for it |
| Worker process (`dbgatlas-worker`) | the open debug or reverse session | read loop: one JSON line in, one out | crash, hang, oversized answer | answers in order, leaves after close |
| ETW recording (`recording_start`, `finish_recording`, `EtwFileSession`, adapter) | `ServiceState.recordings`, kernel trace session, consumer thread, target process, files | start, stop, cancel, kill | resources acquired one after the other, each step can fail; stop joins a thread | nothing left running, one RPC ends it, produced trace kept |
| Debug session creation (`debug_session_create`, `try_start_debug_worker`) | attempts over engines and identities | create | cleanup between attempts, failure after the start | a worker per session and no other |
| Batch evaluation (`debug_eval_steps`) | batch operation, step operations | eval_steps | cancel in the middle of the batch | steps stop, outcome agrees with the steps |
| Reverse sessions (`reverse_*`) | session with an IDA worker | open, lookup, core, close | check before the lock only, dead worker | as for debug sessions |
| TTD recording (`recording_ttd`, `run_ttd_process`) | `active_ttd_recording`, recorder process | record, stop, kill after timeout | guard released on every path, recorder not leaked | one recording at a time |
| Workspace store (`dbgatlas-workspace`) | manifest, `operations.jsonl`, audit and artifact index | init, open, register, append, read | concurrent appends | a record is one line, readers skip nothing |
| Install and update | installed and staged binaries | request, apply, replace, clean up | interrupted replacement | one complete set of binaries at any time |
| ETW events (`event_record_callback`, `FilteringReloggerCallback`) | `ExtractionContext`: process tree, module map, stack cache, pending IRPs, path caches; `events/*.jsonl` | one call per record, flush at the end | IRPs, pids, file objects and keys are reused, records are lost, a filter decides before the pairing does | rows name the right file and the right completion, none is lost, the filter changes nothing |
| HTTP / JSON-RPC / MCP front end, CLI, doctor, logging, tool discovery | none that outlives a request | | | |
| Native dbgeng and IDA adapters | engine objects | | | |

How they interact: an RPC thread runs one handler from beginning to end. It
locks `ServiceState` for short critical sections, `request_lock` for the whole
of a command or close, and the worker's transport for one request. A request
with a timeout is made by a second, detached thread. Worker registry and
`ServiceState` are under different locks, so they can disagree between two steps
of a handler. The workspace files are written without any of these locks.

The hazards (what a test hardly reaches) are listed with their lines in
`PROJECT.json`; each names the properties that would
catch it, or says why none does.

## Modules

| Module | Models |
|---|---|
| `WorkerSupervisor` | registry, transport mutex and process of one worker; `request_worker` in the steps between which others can run |
| `DebugSession` | extends it by the session, its operations, the log, and every handler that works on an existing session |
| `SessionContract` | abstract: a session is a server that accepts one operation at a time, only while usable, and never becomes usable again |
| `MCDebugSession` | four RPC threads and what each may be asked |
| `DebugSessionProofs` | the theorems about `DebugSession` |
| `SessionCreate`, `MCSessionCreate` | debug.session.create: the attempts, `create_worker`, the job object, the end of the service |
| `SessionCreateProofs` | the theorems about `SessionCreate` |
| `EvalSteps`, `MCEvalSteps`, `EvalStepsProofs` | extends `WorkerSupervisor` by debug.eval_steps: one RPC, many operations, with cancels and a kill |
| `ReverseSession`, `MCReverseSession`, `ReverseSessionProofs` | extends `WorkerSupervisor` by the RPCs of a reverse (IDA) session and the IDA thread in the worker |
| `EtwRecording`, `MCEtwRecording`, `EtwRecordingProofs` | one ETW recording from start to end, RPCs competing to end it |
| `EtwExtraction` | the functions on an `ExtractionContext`, as operators from a context and a record to a context |
| `EtwFilter`, `MCEtwFilter`, `EtwFilterProofs` | the machine that is traced, and the three readers of its records: real-time consumer, relogger, second extraction |
| `TtdRecording`, `MCTtdRecording`, `TtdRecordingProofs` | recording.ttd RPCs with TTD.exe and the helper of an interactive user |
| `ServiceUpdate`, `MCServiceUpdate`, `ServiceUpdateProofs` | service.update: staging, stop, swap by renames with retries, start, cleanup |

### WorkerSupervisor and DebugSession

`registered` is the entry in `workers`, `transport` and `requestLock` are the
holders of the two mutexes, `proc` the process, `req`/`resp` the request made for
an RPC (kept apart from `pc`, because the detached thread of a timed request runs
on when its RPC has given up). `sess`, `op`, `lastOp` are the fields of
`ManagedSession` and `ServiceOperation`; `log` is `operations.jsonl` per
operation. `result` and `wasCanceled` are locals of the handlers: the copies that
can be stale.

A step is a critical section, a file operation or one half of an exchange with
the worker. `BeginCommand`, `AcquireRequestLock`, `RecheckCommand`,
`InsertRunning`, `TakeResponse`/`Timeout`, `ReadStatus`, `AppendOperation`,
`Commit` are the path of a command; `BeginFinish`, `RecheckClose`/`RecheckKill`,
`CloseRemove`, `CloseReap` or `KillRemove`, `KillReap`, then `RecordFinish`,
`CommitFinish` those of close and kill; `BeginCancel`, `CancelLookup`,
`CancelTry`, `CancelNotified`, `CancelRecord` that of cancel. `KillRemove` and
`KillReap` are `kill_worker` for all its callers. The actions whose names end in
`Fails` are the early returns through `?` when a file cannot be read or written;
`IoMayFail` switches them off.

Abstractions: an answer is `Reply` (the expected kind), `Failed`
(`WorkerResponse::Failed` or another kind; the two arms differ only in whether
artifacts are registered) or `Err`. debug.eval without timeout, modules, threads,
stack, add_symbols and read_memory are one kind of command: they take the same
steps, in `finish_command_worker_response` and its copy
`finish_memory_worker_response`. A worker never answers CloseSession with
`Failed`, so that arm of `finish_session` is unreachable. Mutex poisoning
(a panicking handler) and the failure of `kill`/`wait` on a child, whose results the code
ignores, are left out. The command audit file follows the operation record and
is not kept.

### SessionCreate

`cpc` walks through `debug_session_create` and, for each attempt, through
`create_worker` and `try_start_debug_worker`. Workers are numbered by attempt
(`slot`), because all attempts share one registry key: `registry` says whose entry it is. `proc`
and `inJob` say which processes live and which the job object will take down
with the service. `DebugSession` begins where `Publish` ends: its `Init` is the
state of a session just published. The process ends in three ways: killed by the
handler, by itself (`WorkerCrash`), or, once the service is gone, with the job
(`JobCloses`) or because its pipe is closed (`PipeCloses`; not while it executes
StartDebugSession). No other RPC takes part: session ids are fresh, and nobody
learns this one before `Publish`. The service ends at any moment (`ServiceDies`)
or in order (`ServiceStops`, the supervisor's `Drop`).

### EtwRecording

`etw` and `consumer` are the kernel session and the adapter's thread, `owner` says
which value holds the `EtwFileSession`, `child` is the launched target, `trace`
what `trace.etl` contains, `meta` the state in `recording.json`, `audit` the
record of each finishing operation. `spc` walks through `recording_start`, `pc`
through `finish_recording`; `StopControl` and `JoinConsumer` are the two halves
of `da_etw_session_stop`. `AbandonStart` is what an early return of
`recording_start` does to the trace session, by `stop()` or by `Drop`; its steps
are not interleaved with others because nobody else knows the recording yet.
Assumed: ControlTrace stops a session that is running (a stop that fails on a
running session would hang the join; this is listed as a hazard).

### EvalSteps

The batch holds `request_lock` from beginning to end, so no other command and no
close comes in between; that is `DebugSession`'s subject, and `Init` is the state
after the lock was taken and the batch's operation inserted. Operation 0 is the
batch, 1 to `Steps` are the steps; `op` and `log` are the status in memory and
the statuses in `operations.jsonl`. `result`, `was`, `failedAt`, `canceledAt` are
the locals that can be stale. `BeginStep` to `CommitStep` are one turn of the loop
(`finish_command_worker_response` included), `StepError` its `Err` arm,
`CheckSession` the look at the session before the next turn. The batch's
parameters are chosen in `Init`. A step that was never begun is `"none"`.

### ReverseSession

`sess`, `requestLock`, `op`, `log`, `lastOp` as in `DebugSession`; `ida` is
`WorkerState.reverse_session` with its thread: after a close that IDA answered
with an error the thread is gone (`"stopped"`), and the next close succeeds
because there is nobody to ask. `after` is where a handler goes on when it is
done with the worker: the open that could not be published cleans up and returns
its first error. Different from debug sessions, and modelled as it is: the session
is looked at before `request_lock` and not again; the lock is released before the
outcome is recorded; a failed lookup or close updates an operation that was never
inserted, so nothing of it is kept in memory (`Kept`).

### EtwExtraction and EtwFilter

`EtwExtraction` has no state of its own: `ExtractionContext` is a record, and each
function of the source that changes it is an operator that returns the context it
leaves. `out` holds the rows written for the record at hand and `written` their
number. Records are decoded already; a stack address is named by the image base
it lies above.

`EtwFilter` lets a machine run: processes start, end and give up their pid, files
are created, used, renamed, cleaned up and closed under IRPs that are used again,
images come and go. Each record reaches `raw` (the real-time consumer), the relogger with
its own tree (`ftree`) and, if that keeps it, `filt` (the extraction after the
stop). The machine's variables are the truth the rows are compared with; a record
carries it along as a ghost field that no operator of `EtwExtraction` looks at
except to copy it. Faults are taken from `Faults`, and each property says which
faults it excludes: a property about paths does not hold after a lost CLOSE, and
says so.

Two things the code does are no faults, and the properties are stated around them:

- A RENAME leaves both path caches as they are. `names` holds all paths the file's
  control block has had, and `PathTrue` asks for one of them: a row may have an
  earlier name of its own file, never the name of another.
- The tree is asked about the process in a record's header (etw.cpp:1413), the row
  names the one in the payload (etw.cpp:1430), if there is one. `Other` and
  `ImageRecord` choose the two independently, for the categories in `PayloadNames`
  (a thread created in another process, a packet handled in whatever context, an
  image mapped into another process or the kernel). A row of these can name a
  process outside the tree. `OnlyTree` therefore speaks of the process the record
  was logged in, for every row that is not of file I/O, and of the process the row
  names, for every other category. File records have no process id of their own.

Left out of `FilterFaithful`: `completion_sequence`, the number of the completing
record among the file records an extraction sees, and the counts of skipped events
and dropped stacks. They differ between the two extractions, because the second
never sees what the relogger has dropped.

### TtdRecording

`active` is `active_ttd_recording`, `recorder` and `helper` are the processes of
each RPC (with the identity of the interactive user the service starts a helper,
which starts TTD.exe and puts it into a job), `code` the exit code the service
gets to see, `exit` what `run_ttd_process` returned. `PollExited`, `Deadline`,
`StopCommand`, `ExitDeadline`, `Kill`, `Reap` are `run_ttd_process`. The wait in `Reap`
can fail: its error is dropped and there is no exit code (`"unknown"`), which the
status then takes for no failure; `StatusHonest` names this. `lock` is the
state mutex where it is held across steps: in `recording_ttd` it is still held when the
locals are dropped, and the guard's `Drop` takes it again, which works because
it was declared earlier and is dropped later.

### ServiceUpdate

A directory is absent or a tree with a version and a completeness (`"copying"`,
`"whole"`, `"damaged"`); renames are atomic, copies and removals take two steps.
`refused` remembers a rename back that failed, which the code ignores.
Updates do not overlap in the run and in the theorems (`Overlap = FALSE`):
`request_update` does not refuse a second one, and then `cleanup_update_dirs` of
the first can remove what the second has moved away. With `Overlap = TRUE`
`PayloadKept` is violated; it is listed as a hazard.

Definitions ending in `X` are seeded faults: each replaces the definition after
it, and the run must then fail. They show that a property says something about
the code; `Next` never uses them.

## Runs

| Run | Bounds | Shows |
|---|---|---|
| `debug_session` | 4 threads: two commands, a close or cancel, a kill; file faults on; symmetry of the two commands (about 2 million states) | `SerialisedRequests`, `TerminalUnregistered`, `OrphanHasReaper`, `WriteAhead`, `NeverRevived`, `OutcomeStable`, and `ImplementsContract`: every step is a step of `SessionContract` |
| `debug_liveness` | 3 threads, no file faults, fairness, no symmetry | `OneRunning`; `KillReturns`, `TimedEvalReturns`, `TerminalDrains` |
| `recording` | 3 ending RPCs, launch and attach, file faults on, fairness | `TraceOwned`, `NoSuspendedTarget`, `OneEnder`, `EndReturns` |
| `session_create` | 3 engines, 2 identities, all targets, file faults on, fairness of the operating system only | `OneWorkerAtATime`, `FailureLeavesNoWorker`, `SessionBound`, `NoSurvivors` |
| `eval_steps` | 2 commands, a cancel of any of the 3 operations, a kill, file faults on, fairness (636,000 states) | `BatchTruth`: the outcome is true of the steps; `BatchSettles`: a timed batch ends and leaves no step Running |
| `reverse_session` | the open and 3 RPCs of any kind, file faults on, fairness (246,000 states) | `ClosedMeansGone`, `WorkerOwned`, `RpcReturns` |
| `etw_files` | 5 file records, 1 IRP, 1 file object, 1 key, 2 paths, renames, 1 kind of fault per trace (463,000 states) | `FilterFaithful`, `PathTrue`, `PairedRight`, `RowPerRecord`, `NothingLost` |
| `etw_tree` | 5 records of processes, threads, images, stacks and I/O, payloads that name any process, 2 time stamps and a cache for 1, pid reuse (751,000 states) | `OnlyTree`, `TreeFollowed`, `FilterFaithful`, `CacheBounded` |
| `ttd_recording` | 2 RPCs of either identity, file, poll and wait faults on, fairness (273,000 states) | `OneRecorder`, `StatusHonest`, `RecordingReturns` |
| `service_update` | 2 updates one after the other, one with a configuration, one with restart, fairness (11,000 states) | `PayloadKept`, `BinBack`, `UpdateEnds` |
| `cancel_is_final` | 3 threads | violated: a cancelled operation becomes Success or Failed |
| `one_row_per_event` | 6 records | violated: an event has two rows |

Bounds. A thread handles one RPC, so the number of threads is the number of RPCs
in a behaviour. The races are between a command, the command queued behind it,
something that ends the session and something that ends the command: four RPCs
hold each of these at once. Three suffice for liveness, where one waits for a
second and a third takes the worker away. `Quiet` stutters when all RPCs have
been served: without it the bound on their number would look like a deadlock.
Deadlock is checked in the passing runs. Two commands are enough for a batch: one
before and one after the event. Two TTD recordings are the active one and the one
it refuses, two updates the one that failed and the one that finds what it left.
One IRP, one file object and one key are the hardest case for pairing and path
caches, because everything is reused at once. Five records are a CREATE, I/O or a
RENAME, CLEANUP, CLOSE and the CREATE of another file on the same object, under the
path the first has or had; a trace may also begin with the file open, which leaves
room for I/O on the second and its completion. `IInv` was checked on six.

Fairness. The operating system schedules the service's threads and mutexes are
eventually granted when they stay free (weak fairness of each thread's steps),
and `recv_timeout` eventually fires. Nothing is assumed of a worker that executes
a command or closes its debug session: it may hang in the engine for ever. A worker in its read
loop acknowledges a cancel, and one that has answered CloseSession leaves `main`.
In `EtwRecording`, ProcessTrace returns once the session is stopped. In
`SessionCreate` only the operating system is fair: it ends the processes of a
closed job, and a read from a closed pipe returns. Kill and
timed eval return under this fairness; a plain eval need not, and none of the
properties says so. `EvalSteps` and `TtdRecording` assume nothing of the worker
and of TTD.exe: only the service's threads and timers. `ServiceUpdate` assumes
that the updater is scheduled and that time passes, not that the service stops or
a rename is granted. `ReverseSession` assumes that IDA answers or takes the
process down: its RPCs have no timeout, and `RpcReturns` is about everything else
that could keep them.

Findings. The two violated properties are statements of a test and of a document
that the code does not keep; `PROJECT.json` quotes each. `CancelIsFinal`: the
handler reads "cancelled?", writes files without the lock, and then sets the
status from what it read. `OneRowPerEvent`: the events files are written while
the recording runs, and a second time after the stop. The proofs show that this is
no accident of a short trace: `EveryEventTwice`.

Known divergences. The models also show the following behaviours of the code; the
properties are stated so that they hold of the code as it is, and no run is kept
for these:

- `operation.cancel` can find the transport held by another request than the one
  it cancels, and kills the worker under it (lib.rs:3974; the comment at
  lib.rs:3990 says otherwise).
- An operation whose record cannot be written stays Running for ever
  (lib.rs:2838); so does a batch whose own record cannot be written (lib.rs:1830).
- A batch that is cancelled between two steps goes on with the next step, and is
  Canceled only in its outcome (lib.rs:1683).
- A recording whose stop failed on a file stays Stopping, and kill is refused
  (lib.rs:1112); a complete trace.etl is overwritten with a fallback text when
  stopping it reports an error (lib.rs:4263).
- debug.session.create leaves its worker registered without a session when the
  artifacts or the record cannot be written (lib.rs:1278).
- A reverse session whose worker died cannot be closed (lib.rs:2493).
- run_ttd_process leaves the recorder running when try_wait fails (lib.rs:4802), and
  a helper killed between spawning TTD.exe and putting it into the job leaves it, too
  (lib.rs:126). `OneRecorder` names both exceptions.
- When waiting for a killed recorder fails (lib.rs:4844), its exit code is missing,
  and a missing code is not a failure (lib.rs:956): with a trace file on disk the
  recording is reported as timed_out, and its operation as Success.
- After a failed update a bin.old-* can be the only copy of the payload, while
  docs/runtime-model.md:63 says that such a directory means that the new payload
  has taken over.
- A path in an event row can be that of another file after a failed CREATE, a
  cleanup by another process, a deleted name or a lost record (etw.cpp:1053);
  `PathTrue` excludes these.
- After a RENAME the rows go on with the old name until the file is opened or named
  again: the record is decoded (etw.cpp:988), the caches are not refreshed.
- Thread, network and image rows can name a process outside the tree, and what such
  a record says about a process of the tree is missed when it was logged in another
  process (etw.cpp:1413, 1430).
- The tree only grows (etw.cpp:658): a stranger that gets the pid of an ended process
  of the tree has rows. `OnlyTree` excludes reused pids.
- A CLOSE with the IRP of a record whose completion was lost drops that record
  (etw.cpp:1300); `NothingLost` names it.

## Proofs

`DebugSessionProofs` proves, for any set of threads and any assignment of RPCs to
them (`ThreadsAssumption`, `SessionAssumption` are the only assumptions):
`TypeOK`, `SerialisedRequests`, `TerminalUnregistered`, `OrphanHasReaper`,
`WriteAhead`, `NeverRevived`, `OutcomeStable`, the refinement `ImplementsContract`, and
`OneRunning` when the workspace can be written.

None of the invariants is inductive. `SerialisedRequests` needs to know that only
an RPC in its critical section has a request under way, or one that has timed out
and whose session is already over (`LockInv`, `RequestInv`);
`TerminalUnregistered` needs that whoever is about to change the session's state
has removed the worker before (`RegistryInv`); `WriteAhead` needs that the record
is in the file at the step before memory changes (`LogInv`), and `OneRunning`
that an operation is running only while its RPC is between insertion and commit
(`OpInv`), together with `LockInv`. `IInv` is their conjunction with `KindInv`,
which says which RPC can be at which step. The proof that `Next` preserves `IInv`
has one lemma per group of actions and one step per conjunct an action can
disturb. The refinement maps `current` to the holder of `request_lock` once it
has looked at the session a second time, `usable` to "the session is Ready" and
`status` to the operations' status; each action is then a step of the contract or
a stutter.

`SessionCreateProofs` proves, for any number of engines (`CreateAssumption`),
`TypeOK`, `OneWorkerAtATime`, `FailureLeavesNoWorker` and `SessionBound`. `TypeOK`
contains the bound on the number of workers, so it needs the relation between
`slot`, `attempt` and the round (`RoundInv`); the others need who is alive and
registered at each step (`WorkerInv`) and what has been written down
(`OutcomeInv`).

`EtwRecordingProofs`: `TraceOwned`, `NoSuspendedTarget`, `OneEnder` for any set of
RPCs that end the recording. `StartInv` says who owns the trace and what the
target is at each step of the start; `EndInv` that one RPC is between Stopping and
the end, that it has given up the trace before it writes and has written before
it publishes.

`TtdRecordingProofs`: `OneRecorder` and `StatusHonest` for any number of RPCs
(`TtdAssumption`). `ActiveInv`: an RPC let through owns the guard; `ProcessInv`: what
helper, job and exit code say of TTD.exe; `ExitInv`: Ok is returned only for a
process that has ended; `OutcomeInv`: what is written down, and from what.

`EvalStepsProofs`: `BatchTruth` for any number of commands and cancels
(`StepsAssumption`). `OrderInv`: every step left behind is finished and has left
its mark in `failedAt` or `canceledAt`, every later one is untouched; `AtStepInv`:
the life of the current step; `EndInv`: the loop is left early only with a mark.

`ReverseSessionProofs`: `ClosedMeansGone` and `WorkerOwned` for any number of RPCs
(`ReverseAssumption`). The core is `CloseInv`: the worker answers at most one
close, because it leaves its loop then, so that close alone removes the worker and
waits for it, although several closes may have passed the check of the session.

`ServiceUpdateProofs`: `PayloadKept` and `BinBack` for any number of updates that do
not overlap (hypothesis `~Overlap`). `StagingInv`: what an updater has staged and
moved away is whole, and bin is there before anything is removed; `MissingInv`: why
bin can be missing.

`EtwFilterProofs`: `FilterFaithful`, `PathTrue`, `PairedRight`, `OnlyTree`,
`TreeFollowed`, `CacheBounded`, `RowPerRecord` and the action property `NothingLost`
for traces of any length, any number of processes, threads, files, IRPs and time
stamps, any categories and all faults. The constants are only typed
(`ExtractionAssumption`, `PresetsAssumption`, `FilterAssumption`), with a finite set
of IRPs, cache limits that are not 0, and a `None` that is no pid, IRP or record
(`NoneAssumption`). Its parts:

- `ContextInv` is what `event_record_callback` maintains whatever records it is
  given. The core is that what waits in a context for a later record (a pending
  IRP, a cached stack) is of a process of the tree, so that what the relogger
  drops before any pairing is known (records and stacks of other processes, while it
  keeps every file completion) would have changed nothing. `FilterFaithful` then says
  that both contexts stay equal.
- `PendingInFlight` (a pending record is that of the I/O now in flight under its
  IRP) is what `PairedRight` needs: an IRP is used again only after its completion,
  which has taken the entry.
- `KeysFit` and `CachesTrue` (a cached path is a name of a file a process of the tree
  has open; files in use share a key exactly if they share a path, and then all
  names) are what `PathTrue` needs: a RENAME adds a name to every file object of
  the control block, so what is cached for any of them stays a name of it. `CachesTrue` also speaks of the path a pending record will
  be written with, because the row comes after the cache may have changed.
- `TreeIsKin`, `TreeFollowed` and `AllKin` bound the tree from both sides by the
  real descendants; `OnlyTree` needs the one and `RowPerRecord` both. For `OnlyTree`
  the ghost of a record carries the process it was logged in, which is the one
  `process_tree_allows_event` was asked about.
- `Flushed` says that nothing is pending after the flush; with `RowPerRecord` it
  gives `TwoRowsPerEvent`: without the faults it names, both contexts have
  written a row for every event (`EveryEventTwice`).

The operators of `EtwExtraction` come first, each with a lemma on its type and on
what it leaves alone; then one summary for each kind of record
(`Passed`, `Walked`, `Extracted`, `Completed`, `Started`) says what it does to both
contexts; then there is one lemma per action of the machine.

Each inductive invariant was also checked with TLC on its run's instance.

Only model-checked: the liveness properties `KillReturns`, `TimedEvalReturns`,
`TerminalDrains`, `EndReturns`, `NoSurvivors`, `BatchSettles`, `RpcReturns`,
`RecordingReturns` and `UpdateEnds`. Fairness and ENABLED are out of the prover's
reach.

## Plan

Done: all modules above. Next, in this order:

1. `ServiceUpdate` with the guard a fix for overlapping updates would add.
2. The paging of the IDA core functions as a pure algorithm.

## Not modelled

- HTTP and MCP framing, CLI, doctor, log pruning and tool discovery: no state
  beyond a request, or reports only.
- The workspace store keeps nothing in memory; its appends are steps of the other
  modules, where they can fail. Whether two appends by two processes can mix is
  decided by the file system, not by this code.
- install and uninstall: run once by an administrator, step by step, without
  concurrency.
- The dbgeng and IDA wrappers: one call at a time on one thread, each passes its
  arguments to the engine and its result back. Their outcomes are the worker's
  answers.
- Decoding of ETW payloads and the text of rows; `completion_sequence` and the counts
  of skipped events and dropped stacks.
- A `kill` of a recorder that fails: TerminateProcess on a child the service has a
  handle of is taken to succeed, as for the workers.
- Everything under `3rdpart` (IDA SDK headers, nlohmann/json): vendored, about 95%
  of the C and C++ lines in the repository. The program's own C++ is the three
  adapters; its core logic is written in Rust. The map therefore covers only a small share of
  all C and C++ lines.
