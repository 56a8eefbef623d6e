----------------------------- MODULE EtwFilter -----------------------------
(***************************************************************************)
(* One kernel trace, read twice.  The records the kernel emits go          *)
(*   - to the real-time consumer (run_realtime_consumer), which extracts   *)
(*     rows from them while the recording runs (raw), and                  *)
(*   - into trace.etl.  When the recording stops, da_etw_filter_trace_file *)
(*     passes them through FilteringReloggerCallback, whose own process    *)
(*     tree (ftree) decides which ones stay in trace.etl, and then         *)
(*     da_etw_extract_file_events runs the extraction again on what is     *)
(*     left (filt).  Both append to the same events/*.jsonl.               *)
(* Every record reaches the three in the same step: each of them handles   *)
(* the records one by one and in the order of the trace, so this is the    *)
(* same as running them one after the other.                               *)
(*                                                                         *)
(* The environment is the machine under the trace: processes that start,   *)
(* end and give up their pid, files and IRPs, images, StackWalk records.   *)
(* Its variables (live, kin, used, files, inflight, gen) are the truth the *)
(* rows are compared with; the adapter never sees them.  faults remembers  *)
(* which faults have happened, of those that Faults allows:                *)
(*   "lost"     ETW drops a record before anybody sees it                  *)
(*   "inject"   ITraceRelogger::Inject refuses a record                    *)
(*   "pid"      a pid is given to another process                          *)
(*   "create"   a CREATE fails and its file object is freed                *)
(*   "foreign"  a file is cleaned up by a process that did not open it     *)
(*   "delete"   a control block is discarded, with a record of its name    *)
(* A rename is no fault: the rows then have a name the file once had.      *)
(*                                                                         *)
(* Definitions that end in X are seeded faults, as in EtwExtraction.       *)
(***************************************************************************)
EXTENDS EtwExtraction

CONSTANTS
    Faults,         \* the faults that may happen
    Records,        \* the kinds of record the machine emits
    MaxFaults,      \* bound: kinds of fault in one trace
    MaxEvents       \* bound: records in a trace

ASSUME FilterAssumption ==
    /\ MaxEvents \in Nat
    /\ "t" \in Tids           \* the one thread a process issues its own records from
    /\ Stamps # {}

VARIABLES
    raw,            \* the extraction context of the raw trace
    filt,           \* the extraction context of the filtered trace
    ftree,          \* process_tree_pids of the relogger's context_
    done,           \* the trace has ended, and both contexts were flushed
    n,              \* records so far
    faults,         \* the faults that have happened
    live,           \* the processes that run
    kin,            \* pids whose last process is the root or a descendant of it
    used,           \* pids that have been given to a process
    files,          \* what each file object is
    inflight,       \* the IRPs of I/O that has begun and not ended
    gen,            \* per IRP: parity of the number of times it was used
    seen            \* enabled, delivered records of the tree, OP_END aside

readers == <<raw, filt, ftree>>
machine == <<live, kin, used, files, inflight, gen>>
vars == <<readers, done, n, faults, machine, seen>>

Free == [state |-> "free", path |-> None, names |-> {}, key |-> None, pid |-> None]

Event ==
    [kind |-> "none", hdr |-> ZeroPid, pid |-> None, parent |-> None, tid |-> None,
     stamp |-> CHOOSE s \in Stamps : TRUE, stack |-> {}, ghost |-> None,
     base |-> None, image |-> None,
     op |-> None, irp |-> None, object |-> None, key |-> None, path |-> None,
     address |-> None, target |-> None]

---------------------------------------------------------------------------
(***************************************************************************)
(* FilteringReloggerCallback::OnEvent                                      *)
(***************************************************************************)
\* The process is taken from the header, as for other records, not from the payload.
keep_stack_walk_for_filterX(tree, e) ==
    e.kind = "stack" /\ (~Rooted \/ e.hdr \in tree)

keep_stack_walk_for_filter(tree, e) ==
    e.kind = "stack" /\ (~Rooted \/ e.pid \in tree)

\* An OP_END record is kept only if the completing process is in the tree.
keep_file_completion_for_filterX(tree, e) ==
    /\ "file" \in Presets /\ e.kind = "file" /\ e.op = "op_end"
    /\ ~Rooted \/ e.hdr \in tree

keep_file_completion_for_filter(tree, e) ==
    "file" \in Presets /\ e.kind = "file" /\ e.op = "op_end"

KeepForOutputOrModules(e) == e.kind \in Presets \/ e.kind = "image"

NeedsTree(tree, e) ==
    ~keep_stack_walk_for_filter(tree, e) /\ ~keep_file_completion_for_filter(tree, e)

Keep(tree, e) ==
    IF NeedsTree(tree, e)
    THEN KeepForOutputOrModules(e) /\ process_tree_allows_event(tree, e)
    ELSE TRUE

\* The tree grows as a side effect of asking it, and only when it is asked.
FilterTree(tree, e) ==
    IF NeedsTree(tree, e) /\ KeepForOutputOrModules(e) THEN TreeAfter(tree, e) ELSE tree

Skip(c) == [c EXCEPT !.out = {}]

(***************************************************************************)
(* A record e is emitted, by the tree if member says so; new is the set of *)
(* faults the machine committed to get there.                              *)
(***************************************************************************)
MayFault(new) == new \subseteq Faults /\ Cardinality(faults \cup new) <= MaxFaults

Deliver(e, member, new) ==
    /\ MayFault(new)
    /\ raw' = event_record_callback(raw, e)
    /\ ftree' = FilterTree(ftree, e)
    /\ seen' = IF member /\ e.kind \in Presets /\ e.op # "op_end" THEN seen + 1 ELSE seen
    /\ \/ /\ filt' = IF Keep(ftree, e) THEN event_record_callback(filt, e) ELSE Skip(filt)
          /\ faults' = faults \cup new
       \/ /\ MayFault(new \cup {"inject"})
          /\ Keep(ftree, e)
          /\ filt' = Skip(filt)
          /\ faults' = faults \cup new \cup {"inject"}

Lose(new) ==
    /\ MayFault(new \cup {"lost"})
    /\ raw' = Skip(raw)
    /\ filt' = Skip(filt)
    /\ faults' = faults \cup new \cup {"lost"}
    /\ UNCHANGED <<ftree, seen>>

Emit(e, member, new) ==
    /\ ~done /\ n < MaxEvents
    /\ n' = n + 1
    /\ Deliver(e, member, new) \/ Lose(new)
    /\ UNCHANGED done

---------------------------------------------------------------------------
(***************************************************************************)
(* Processes.  provider_specs enables process records only if "process" is *)
(* asked for; the machine goes on all the same.  The ghost of a record is  *)
(* the process it was logged in.                                           *)
(***************************************************************************)
Silent(new) ==
    /\ ~done /\ n < MaxEvents
    /\ MayFault(new)
    /\ n' = n + 1
    /\ raw' = Skip(raw) /\ filt' = Skip(filt)
    /\ faults' = faults \cup new
    /\ UNCHANGED <<ftree, done, seen>>

ProcessRecord(e, member, new) ==
    IF "process" \in Presets THEN Emit(e, member, new) ELSE Silent(new)

ProcessStart(p, parent) ==
    /\ "process" \in Records
    /\ parent \in live /\ p \notin live
    /\ live' = live \cup {p}
    /\ used' = used \cup {p}
    /\ kin' = IF parent \in kin THEN kin \cup {p} ELSE kin \ {p}
    /\ ProcessRecord([Event EXCEPT !.kind = "process", !.hdr = parent, !.pid = p,
                                   !.parent = parent, !.ghost = [by |-> parent]],
                     parent \in kin, IF p \in used THEN {"pid"} ELSE {})
    /\ UNCHANGED <<files, inflight, gen>>

ProcessEnd(p) ==
    /\ "process" \in Records
    /\ p \in live \ {ZeroPid}
    /\ live' = live \ {p}
    /\ ProcessRecord([Event EXCEPT !.kind = "process", !.hdr = p, !.pid = p,
                                   !.ghost = [by |-> p]],
                     p \in kin, {})
    /\ UNCHANGED <<kin, used, files, inflight, gen>>

\* The categories whose payload names a process of its own: a thread is created in
\* another process, a packet handled or an image mapped on behalf of one.
PayloadNames == {"thread", "image", "network"}

\* A thread, registry or network record, or a file record of an unknown opcode,
\* logged in process p; owner is the process its payload names.
Other(p, owner, kind) ==
    /\ kind \in Records
    /\ p \in live
    /\ owner \in IF kind \in PayloadNames THEN live ELSE {None}
    /\ \E s \in Stamps :
         Emit([Event EXCEPT !.kind = kind, !.hdr = p, !.pid = owner, !.tid = "t",
                            !.stamp = s, !.ghost = [by |-> p]], p \in kin, {})
    /\ UNCHANGED machine

\* An image is loaded into or (image = None) leaves a process, or the kernel.
ImageRecord(p, owner, base, image) ==
    /\ "image" \in Records
    /\ p \in live /\ owner \in live
    /\ Emit([Event EXCEPT !.kind = "image", !.hdr = p, !.pid = owner, !.base = base,
                          !.image = image, !.ghost = [by |-> p]], p \in kin, {})
    /\ UNCHANGED machine

StackWalk(p, tid, stamp, address, target) ==
    /\ "stack" \in Records
    /\ p \in live
    /\ Emit([Event EXCEPT !.kind = "stack", !.pid = p, !.tid = tid, !.stamp = stamp,
                          !.address = address, !.target = target], FALSE, {})
    /\ UNCHANGED machine

---------------------------------------------------------------------------
(***************************************************************************)
(* Files.  A file's key stands for the control block the file system keeps *)
(* for a path while it is in use, and is free for another path after that; *)
(* CREATE does not carry it.  names holds the paths the block has had: one *)
(* unless the file was renamed.  It travels with a record as its ghost,    *)
(* and so does the parity of the IRP.  Records of the kernel's file        *)
(* provider have no process id of their own.                               *)
(***************************************************************************)
FileRecord(p, op, irp, o, file, stamp) ==
    [Event EXCEPT !.kind = "file", !.hdr = p, !.tid = "t", !.stamp = stamp, !.op = op,
                  !.irp = irp, !.object = o, !.key = file.key,
                  !.ghost = [names |-> file.names,
                             gen |-> IF irp = None THEN None ELSE 1 - gen[irp]]]

\* The I/O begins under irp, which no other I/O has.
UseIrp(irp) ==
    /\ irp \notin inflight
    /\ inflight' = IF irp = None THEN inflight ELSE inflight \cup {irp}
    /\ gen' = [i \in Irps |-> IF i = irp THEN 1 - gen[i] ELSE gen[i]]

KeyFits(key, path) ==
    \A o \in Objects :
        files[o].state # "free" => (files[o].key = key <=> files[o].path = path)

InUse(key) == {o \in Objects : files[o].state # "free" /\ files[o].key = key}

NamesOf(key, path) == {path} \cup UNION {files[o].names : o \in InUse(key)}

Create(p, irp, o, path, key, shown, fails, stamp) ==
    LET file == [state |-> "open", path |-> path, names |-> NamesOf(key, path),
                 key |-> key, pid |-> p]
    IN  /\ "open" \in Records
        /\ p \in live
        /\ files[o].state = "free" /\ KeyFits(key, path)
        /\ UseIrp(irp)
        /\ files' = [files EXCEPT ![o] = IF fails THEN @ ELSE file]
        /\ Emit([FileRecord(p, "create", irp, o, file, stamp) EXCEPT
                   !.key = None, !.path = IF shown THEN path ELSE None],
                p \in kin, IF fails THEN {"create"} ELSE {})
        /\ UNCHANGED <<live, kin, used>>

\* A read, write, flush, query or set_info, a delete (which marks the file); handles
\* can be inherited or duplicated.
Io(p, irp, o, stamp) ==
    /\ "io" \in Records
    /\ p \in live
    /\ files[o].state = "open"
    /\ UseIrp(irp)
    /\ Emit(FileRecord(p, "read", irp, o, files[o], stamp), p \in kin, {})
    /\ UNCHANGED <<live, kin, used, files>>

\* RENAME to a path not in use; one that fails leaves the path as it is.  The record
\* does not carry the new path.
Rename(p, irp, o, path, stamp) ==
    /\ "rename" \in Records
    /\ p \in live
    /\ files[o].state = "open"
    /\ \A x \in Objects \ InUse(files[o].key) : files[x].state # "free" => files[x].path # path
    /\ UseIrp(irp)
    /\ files' = [x \in Objects |-> IF x \in InUse(files[o].key)
                   THEN [files[x] EXCEPT !.path = path, !.names = @ \cup {path}] ELSE files[x]]
    /\ Emit(FileRecord(p, "rename", irp, o, files[o], stamp), p \in kin, {})
    /\ UNCHANGED <<live, kin, used>>

\* The last handle is closed, by the opener or by another process.
Cleanup(p, irp, o, stamp) ==
    /\ "open" \in Records
    /\ p \in live
    /\ files[o].state = "open"
    /\ UseIrp(irp)
    /\ files' = [files EXCEPT ![o].state = "cleaned"]
    /\ Emit(FileRecord(p, "cleanup", irp, o, files[o], stamp), p \in kin,
            IF p = files[o].pid THEN {} ELSE {"foreign"})
    /\ UNCHANGED <<live, kin, used>>

\* The last reference goes, in whatever process that happens.
CloseFile(p, irp, o, stamp) ==
    /\ "open" \in Records
    /\ p \in live
    /\ files[o].state = "cleaned"
    /\ UseIrp(irp)
    /\ files' = [files EXCEPT ![o].state = "free"]
    /\ Emit(FileRecord(p, "close", irp, o, files[o], stamp), p \in kin, {})
    /\ UNCHANGED <<live, kin, used>>

\* FILE_CREATE_NAME, in the process that opens a file: the path of its key.
Name(p, o, stamp) ==
    /\ "name" \in Records
    /\ p \in live
    /\ files[o].state = "open" /\ files[o].pid = p
    /\ Emit([FileRecord(p, "name", None, None, files[o], stamp) EXCEPT !.path = files[o].path],
            p \in kin, {})
    /\ UNCHANGED machine

\* The control block goes some time after the last close: FILE_DELETE_NAME, with
\* its path.  It may also go unnoticed.
NameDelete(p, o, stamp) ==
    /\ "name" \in Records
    /\ p \in live
    /\ files[o].state = "free" /\ files[o].key # None
    /\ \A x \in Objects \ {o} : files[x].state # "free" => files[x].key # files[o].key
    /\ files' = [files EXCEPT ![o] = Free]
    /\ Emit([FileRecord(p, "name", None, None, files[o], stamp) EXCEPT !.path = files[o].path],
            p \in kin, {"delete"})
    /\ UNCHANGED <<live, kin, used, inflight, gen>>

\* The I/O under irp completes, in whatever process that happens.
Completion(p, irp) ==
    /\ "io" \in Records
    /\ p \in live
    /\ irp \in inflight
    /\ inflight' = inflight \ {irp}
    /\ Emit([Event EXCEPT !.kind = "file", !.hdr = p, !.tid = "t", !.op = "op_end",
                          !.irp = irp, !.ghost = [names |-> {}, gen |-> gen[irp]]], FALSE, {})
    /\ UNCHANGED <<live, kin, used, files, gen>>

---------------------------------------------------------------------------
\* ProcessTrace returns and the records still pending are written.
Finish ==
    /\ ~done
    /\ done' = TRUE
    /\ raw' = flush_pending_file_events(raw)
    /\ filt' = flush_pending_file_events(filt)
    /\ UNCHANGED <<ftree, n, faults, machine, seen>>

Quiet == done /\ UNCHANGED vars

Init ==
    /\ raw = NewContext /\ filt = NewContext
    /\ ftree = NewContext.tree
    /\ done = FALSE
    /\ n = 0
    /\ faults = {}
    /\ live = {RootPid, ZeroPid}
    /\ used = {RootPid, ZeroPid}
    /\ kin = IF Rooted THEN {RootPid} ELSE {RootPid, ZeroPid}
    /\ \E S \in SUBSET Objects, p \in Paths, k \in Keys :   \* files open before the trace
         files = [o \in Objects |-> IF o \in S
                    THEN [state |-> "open", path |-> p, names |-> {p}, key |-> k, pid |-> RootPid]
                    ELSE Free]
    /\ inflight = {}
    /\ gen = [i \in Irps |-> 0]
    /\ seen = 0

Machine ==
    \/ \E p, q \in Pids : ProcessStart(p, q)
    \/ \E p \in Pids : ProcessEnd(p)
    \/ \E p \in Pids, q \in Pids \cup {None}, kind \in Categories \ {"process", "image"} :
         Other(p, q, kind)
    \/ \E p, q \in Pids, b \in Bases, i \in Images \cup {None} : ImageRecord(p, q, b, i)
    \/ \E p \in Pids, t \in Tids, s \in Stamps, a \in Bases, i \in Irps : StackWalk(p, t, s, a, i)

FileIo ==
    \E p \in Pids, o \in Objects, s \in Stamps :
      \/ \E irp \in Irps \cup {None}, path \in Paths, key \in Keys, shown, fails \in BOOLEAN :
           Create(p, irp, o, path, key, shown, fails, s)
      \/ \E irp \in Irps \cup {None} :
           Io(p, irp, o, s) \/ Cleanup(p, irp, o, s) \/ CloseFile(p, irp, o, s)
      \/ \E irp \in Irps \cup {None}, path \in Paths : Rename(p, irp, o, path, s)
      \/ Name(p, o, s)
      \/ NameDelete(p, o, s)

Next ==
    \/ Machine
    \/ FileIo
    \/ \E p \in Pids, irp \in Irps : Completion(p, irp)
    \/ Finish
    \/ Quiet

Spec == Init /\ [][Next]_vars

---------------------------------------------------------------------------
(***************************************************************************)
(* Properties                                                              *)
(***************************************************************************)
Happened(F) == faults \cap F # {}

FileStates == [state : {"free", "open", "cleaned"}, path : Opt(Paths), names : SUBSET Paths,
               key : Opt(Keys), pid : Opt(Pids)]

\* Both contexts are of the type of an ExtractionContext, the machine of its own.
TypeOK ==
    /\ IsContext(raw) /\ IsContext(filt)
    /\ ftree \subseteq Pids
    /\ done \in BOOLEAN
    /\ live \subseteq used /\ kin \subseteq used /\ used \subseteq Pids
    /\ faults \subseteq Faults
    /\ files \in [Objects -> FileStates]
    /\ inflight \subseteq Irps
    /\ gen \in [Irps -> {0, 1}]
    /\ n \in Nat /\ n <= MaxEvents /\ seen \in Nat /\ seen <= n

\* Extracting from the filtered trace gives, record by record, the rows (but for
\* completion_sequence), the counts of pairing and the caches that extracting from
\* the raw trace gives, unless Inject refused a record: the relogger drops nothing
\* the extraction would still have needed.
FilterFaithful == ~Happened({"inject"}) => filt = raw /\ ftree = raw.tree

\* A path in a row is one its file has, or has had before a rename, which leaves the
\* caches as they are, or none: the caches never name another file.  Not so once a
\* CREATE failed, a file was cleaned up by a process that did not open it, a key was
\* given up or a record was lost.
PathTrue ==
    ~Happened({"create", "foreign", "delete", "lost"}) =>
        \A r \in raw.out : "op" \in DOMAIN r => r.path = None \/ r.path \in r.ghost.names

\* The completion merged into a row is that of the row's own I/O, however often
\* its IRP has been used before (unless a record was lost).
PairedRight ==
    ~Happened({"lost"}) =>
        \A r \in raw.out : "op" \in DOMAIN r /\ r.end # None => r.end.ghost.gen = r.ghost.gen

\* Each enabled record logged in the tree is one row or is pending, and at the end it is
\* one row: pairing, IRP reuse, CLOSE and the final flush neither lose nor double one.
RowPerRecord ==
    (~Happened({"lost", "pid"}) /\ "process" \in Presets) =>
        seen = raw.written + Cardinality({i \in Irps : raw.pending[i] # None})

WrittenWhenGone(i) ==
    LET was == raw.pending[i]
        is  == raw.pending'[i]
    IN  was # None /\ (is = None \/ is.ghost # was.ghost) =>
          \E r \in raw.out' : /\ "op" \in DOMAIN r
                              /\ r.irp = i
                              /\ r.ghost = was.ghost \/ r.op = "close"

\* Whatever is lost, a pending record leaves the map only into a row, or under a
\* CLOSE that reuses its IRP.
NothingLost == [][\A i \in Irps : WrittenWhenGone(i)]_vars

StacksBounded(c) ==
    /\ Len(c.order) <= MaxStamps
    /\ \A s \in Stamps : /\ Len(c.stacks[s]) <= MaxPerStamp
                         /\ c.stacks[s] # << >> => s \in Range(c.order)

\* The cache of StackWalk records is bounded, and nothing stays in it that is not
\* queued for eviction.
CacheBounded == StacksBounded(raw)

\* Only records that were logged in the root or a descendant of it have rows, until a
\* pid is reused.  The process a row names is one of these as well, but for the
\* categories whose payload names a process: the tree is not asked about that one.
OnlyTree ==
    (~Happened({"pid", "lost"}) /\ Rooted) =>
        \A r \in raw.out :
            /\ r.pid \in kin \/ ("op" \notin DOMAIN r /\ r.kind \in PayloadNames)
            /\ "op" \notin DOMAIN r => r.ghost.by \in kin

\* Every descendant of the root is in the tree the rows are filtered by.
TreeFollowed ==
    (~Happened({"lost"}) /\ Rooted /\ "process" \in Presets) => kin \subseteq raw.tree

(***************************************************************************)
(* The inductive invariant.  Its parts say what a later record will find   *)
(* in the context: the properties above speak of the rows only.            *)
(***************************************************************************)
\* A pending record is filed under its own IRP and has no completion yet.
PendingFiled(c) ==
    \A i \in Irps : c.pending[i] # None => c.pending[i].irp = i /\ c.pending[i].end = None

PendingIn(c, tree) == \A i \in Irps : c.pending[i] # None => c.pending[i].pid \in tree

StacksIn(c, tree) ==
    \A s \in Stamps : \A j \in DOMAIN c.stacks[s] : c.stacks[s][j].pid \in tree

\* Without the file category nothing is pending, and no path is known.
FilesOff(c) ==
    "file" \notin Presets => /\ \A i \in Irps : c.pending[i] = None
                             /\ \A o \in Objects : c.byObject[o] = None
                             /\ \A k \in Keys : c.byKey[k] = None

\* What event_record_callback maintains, whatever records it is given.  What waits in
\* the context for a later record is of a process of the tree.
ContextInv(c) ==
    /\ IsContext(c)
    /\ StacksBounded(c)
    /\ PendingFiled(c)
    /\ Rooted => PendingIn(c, c.tree) /\ StacksIn(c, c.tree)
    /\ FilesOff(c)

Pending(i) == raw.pending[i] # None

\* The tree has no pid that is not, by now, of the root or a descendant.
TreeIsKin == (~Happened({"pid", "lost"}) /\ Rooted) => raw.tree \subseteq kin

\* Without a root every process is recorded.
AllKin == ~Rooted => kin = used

\* A pending record is that of the I/O now in flight under its IRP.
PendingInFlight ==
    ~Happened({"lost"}) =>
        \A i \in Irps : Pending(i) => /\ i \in inflight
                                      /\ raw.pending[i].ghost.gen = gen[i]

\* Files in use share their key exactly if they share their path, and then its names.
KeysFit ==
    \A o, x \in Objects :
        files[o].state # "free" /\ files[x].state # "free" =>
            /\ files[o].path \in files[o].names
            /\ files[o].key = files[x].key <=> files[o].path = files[x].path
            /\ files[o].key = files[x].key => files[o].names = files[x].names

OpenInTree(o) == files[o].state = "open" /\ (Rooted => files[o].pid \in raw.tree)

\* A cached path is a name of a file which a process of the tree still has open.
CachesTrue ==
    ~Happened({"create", "foreign", "delete", "lost"}) =>
        /\ \A o \in Objects : raw.byObject[o] # None =>
              OpenInTree(o) /\ raw.byObject[o] \in files[o].names
        /\ \A k \in Keys : raw.byKey[k] # None =>
              \E o \in Objects : /\ OpenInTree(o)
                                 /\ files[o].key = k /\ raw.byKey[k] \in files[o].names
        /\ \A i \in Irps : Pending(i) =>
              \/ raw.pending[i].path = None
              \/ raw.pending[i].path \in raw.pending[i].ghost.names

\* Nothing is left pending at the end.
Flushed == done => \A i \in Irps : ~Pending(i)

IInv ==
    /\ TypeOK /\ ContextInv(raw) /\ ContextInv(filt) /\ FilterFaithful
    /\ TreeFollowed /\ TreeIsKin /\ AllKin /\ OnlyTree
    /\ PendingInFlight /\ PairedRight
    /\ KeysFit /\ CachesTrue /\ PathTrue
    /\ RowPerRecord /\ Flushed

(* What the repository says and the code does not do; see the findings.    *)

\* recording-model.md: a line of events/*.jsonl is one event.  The files get the
\* rows of the real-time consumer and those of the extraction that follows it.
OneRowPerEvent == ~Happened({"pid"}) => raw.written + filt.written <= seen

\* What they get instead: in the end each event has a row of each of the two.
TwoRowsPerEvent ==
    (done /\ ~Happened({"lost", "pid", "inject"}) /\ "process" \in Presets) =>
        raw.written = seen /\ filt.written = seen
=============================================================================
