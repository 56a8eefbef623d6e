--------------------------- MODULE EtwExtraction ---------------------------
(***************************************************************************)
(* The consumer of ETW records: event_record_callback and everything it    *)
(* calls on an ExtractionContext (native/adapters/etw/dbgatlas_etw.cpp).   *)
(* It turns a stream of kernel records into the rows of events/*.jsonl:    *)
(* begin and OP_END records of one I/O are paired by IRP, paths are        *)
(* recovered from caches keyed by file object and file key, StackWalk      *)
(* records are attached to the record they belong to, and records of       *)
(* processes outside the recorded process tree are left out.               *)
(*                                                                         *)
(* A function f(context, ...) of the source is an operator f(c, ...) here  *)
(* that returns the context it leaves behind.  Module EtwFilter runs two   *)
(* of these contexts and the relogger that filters the trace between them. *)
(*                                                                         *)
(* A record's payload is decoded already (event_metadata).  Every event    *)
(* has .kind, one of the six categories, "stack" for a StackWalk record or *)
(* "none" for one of no category.  A stack address is named by the image   *)
(* base it lies above, so a frame resolves to the image loaded there.      *)
(* Left out because nothing reads them back: skipped_events, the counters  *)
(* of frames and paths, and completion_sequence, which numbers the file    *)
(* records of the stream being read.                                       *)
(*                                                                         *)
(* Definitions that end in X are seeded faults: each stands in for the     *)
(* definition after it to show that a property notices the difference.     *)
(***************************************************************************)
EXTENDS Integers, Sequences, FiniteSets, SequencesExt

CONSTANTS
    Pids, Tids, Irps, Objects, Keys, Paths, Stamps, Bases, Images,
    None,           \* an absent optional field
    ZeroPid,        \* the pid under which kernel images are kept
    Rooted,         \* has_root_pid
    RootPid,        \* root_pid
    Presets,        \* the categories preset_flags enables
    MaxStamps,      \* DA_MAX_PENDING_STACK_TIMESTAMPS
    MaxPerStamp     \* DA_MAX_PENDING_STACKS_PER_TIMESTAMP

ASSUME ExtractionAssumption ==
    /\ Rooted \in BOOLEAN
    /\ RootPid \in Pids
    /\ ZeroPid \in Pids
    /\ MaxStamps \in Nat \ {0}
    /\ MaxPerStamp \in Nat \ {0}
    /\ IsFiniteSet(Irps)
    /\ None \notin Pids \cup Irps \cup Objects \cup Keys

Categories == {"process", "thread", "image", "file", "registry", "network"}

ASSUME PresetsAssumption == Presets \subseteq Categories

Opt(S) == S \cup {None}

(***************************************************************************)
(* The records.  ghost is what the machine knows of a record and the       *)
(* adapter only carries along: see EtwFilter.                              *)
(***************************************************************************)
Opcodes == {"create", "read", "rename", "cleanup", "close", "name", "op_end"}

Ghosts == Opt([by : Pids] \cup [names : SUBSET Paths, gen : Opt({0, 1})])

EventRecords ==
    [kind : Categories \cup {"stack", "none"}, hdr : Pids, pid : Opt(Pids),
     parent : Opt(Pids), tid : Opt(Tids), stamp : Stamps, stack : SUBSET Bases,
     ghost : Ghosts, base : Opt(Bases), image : Opt(Images), op : Opt(Opcodes),
     irp : Opt(Irps), object : Opt(Objects), key : Opt(Keys), path : Opt(Paths),
     address : Opt(Bases), target : Opt(Irps)]

\* DecodedStackWalkEvent
StackRecords == [pid : Pids, tid : Opt(Tids), address : Opt(Bases)]

\* what an OP_END record adds to the record it completes
Completions == [pid : Pids, tid : Opt(Tids), ghost : Ghosts]

\* FileEventRecord
FileRecords ==
    [op : Opcodes, pid : Pids, tid : Opt(Tids), stamp : Stamps, irp : Opt(Irps),
     object : Opt(Objects), key : Opt(Keys), path : Opt(Paths),
     source : Opt({"record", "file_object_cache", "file_key_cache"}),
     stack : SUBSET Opt(Bases), end : Opt(Completions), ghost : Ghosts]

ASSUME NoneAssumption == None \notin FileRecords /\ None \notin Opcodes

(***************************************************************************)
(* ExtractionContext.  A map of the source is a total function with None   *)
(* (or <<>> for the stacks of a timestamp) where it has no entry: an entry *)
(* of pending_stacks_by_timestamp is erased when its vector runs empty.    *)
(* out is the set of rows the last record made it write, written their     *)
(* number since the start (events_written); a record writes at most one.   *)
(***************************************************************************)
NewContext ==
    [tree       |-> IF Rooted THEN {RootPid} ELSE {},
     modules    |-> [p \in Pids |-> [b \in Bases |-> None]],
     pending    |-> [i \in Irps |-> None],
     ignored    |-> {},
     byObject   |-> [o \in Objects |-> None],
     byKey      |-> [k \in Keys |-> None],
     stacks     |-> [s \in Stamps |-> << >>],
     order      |-> << >>,
     matched    |-> 0, unmatched |-> 0, incomplete |-> 0, reused |-> 0,
     written    |-> 0,
     out        |-> {}]

ContextFields ==
    {"tree", "modules", "pending", "ignored", "byObject", "byKey", "stacks", "order",
     "matched", "unmatched", "incomplete", "reused", "written", "out"}

IsContext(c) ==
    /\ DOMAIN c = ContextFields
    /\ c.tree \subseteq Pids
    /\ c.modules \in [Pids -> [Bases -> Opt(Images)]]
    /\ c.pending \in [Irps -> Opt(FileRecords)]
    /\ c.ignored \subseteq Irps
    /\ c.byObject \in [Objects -> Opt(Paths)]
    /\ c.byKey \in [Keys -> Opt(Paths)]
    /\ c.stacks \in [Stamps -> Seq(StackRecords)]
    /\ c.order \in Seq(Stamps)
    /\ c.matched \in Nat /\ c.unmatched \in Nat /\ c.incomplete \in Nat
    /\ c.reused \in Nat /\ c.written \in Nat

---------------------------------------------------------------------------
(***************************************************************************)
(* The process tree                                                        *)
(***************************************************************************)
ProcessPid(e) == IF e.pid # None THEN e.pid ELSE e.hdr


process_tree_allows_event(tree, e) ==
    \/ ~Rooted
    \/ /\ e.kind = "process"
       /\ ProcessPid(e) \in tree \/ (e.parent # None /\ e.parent \in tree)
    \/ e.kind # "process" /\ e.hdr \in tree

\* A child of the tree passes and is not remembered.
TreeAfterX(tree, e) == tree

TreeAfter(tree, e) ==
    IF Rooted /\ e.kind = "process" /\ process_tree_allows_event(tree, e)
    THEN tree \cup {ProcessPid(e)}
    ELSE tree

---------------------------------------------------------------------------
(***************************************************************************)
(* Images and stack frames                                                 *)
(***************************************************************************)
update_module_map(c, e) ==
    IF e.base = None
    THEN c
    ELSE [c EXCEPT !.modules[ProcessPid(e)][e.base] = e.image]

find_module(c, pid, address) ==
    IF c.modules[pid][address] # None
    THEN c.modules[pid][address]
    ELSE c.modules[ZeroPid][address]

stack_frames_from_addresses(c, addresses, pid) ==
    [a \in addresses |-> find_module(c, pid, a)]

\* The pending StackWalk of a record: same thread first, then same process.
MatchingStack(c, stamp, pid, tid) ==
    LET s     == c.stacks[stamp]
        same  == {j \in DOMAIN s : s[j].pid = pid}
        exact == {j \in same : s[j].tid = tid}
        first(S) == CHOOSE j \in S : \A k \in S : j <= k
    IN  IF exact # {} THEN first(exact) ELSE IF same # {} THEN first(same) ELSE 0

TakenAddresses(c, stamp, pid, tid) ==
    LET j == MatchingStack(c, stamp, pid, tid)
    IN  IF j = 0 THEN {} ELSE {c.stacks[stamp][j].address}

take_matching_pending_stack(c, stamp, pid, tid) ==
    LET j == MatchingStack(c, stamp, pid, tid)
    IN  IF j = 0 THEN c ELSE [c EXCEPT !.stacks[stamp] = RemoveAt(@, j)]

\* The oldest timestamp leaves the queue and its stacks stay in the map.
EvictStackX(c, stamp) ==
    [c EXCEPT !.order = Append(IF Len(@) >= MaxStamps THEN Tail(@) ELSE @, stamp)]

EvictStack(c, stamp) ==
    IF Len(c.order) >= MaxStamps
    THEN [c EXCEPT !.order = Append(Tail(@), stamp), !.stacks[Head(c.order)] = << >>]
    ELSE [c EXCEPT !.order = Append(@, stamp)]

cache_pending_stack(c, s) ==
    LET room == IF c.stacks[s.stamp] = << >> THEN EvictStack(c, s.stamp) ELSE c
    IN  IF Rooted /\ s.pid \notin c.tree
        THEN c
        ELSE IF Len(room.stacks[s.stamp]) >= MaxPerStamp
        THEN room
        ELSE [room EXCEPT !.stacks[s.stamp] =
                 Append(@, [pid |-> s.pid, tid |-> s.tid, address |-> s.address])]

(***************************************************************************)
(* attach_stack_to_pending_file takes the first pending record of the      *)
(* thread, or else the last one of the process, in the iteration order of  *)
(* an unordered map: any of AttachTargets.  That order is a function of    *)
(* the map's history, so the choice is a field of the event (target, the   *)
(* record that comes up first): two contexts that went through the same    *)
(* insertions make the same choice.                                        *)
(***************************************************************************)
AttachTargets(c, s) ==
    LET same  == {i \in Irps : /\ c.pending[i] # None
                               /\ c.pending[i].stamp = s.stamp
                               /\ c.pending[i].pid = s.pid}
        exact == {i \in same : c.pending[i].tid = s.tid}
    IN  IF exact # {} THEN exact ELSE same

process_stack_walk_event(c, s) ==
    LET targets == AttachTargets(c, s)
        first   == IF s.target \in targets THEN s.target ELSE CHOOSE i \in targets : TRUE
    IN  IF targets # {}
        THEN [c EXCEPT !.pending[first].stack = @ \cup {s.address}]
        ELSE cache_pending_stack(c, s)

---------------------------------------------------------------------------
(***************************************************************************)
(* File records                                                            *)
(***************************************************************************)
decoded_file_event(c, e) ==
    [op |-> e.op, pid |-> ProcessPid(e), tid |-> e.tid, stamp |-> e.stamp,
     irp |-> e.irp, object |-> e.object, key |-> e.key,
     path |-> e.path, source |-> IF e.path = None THEN None ELSE "record",
     stack |-> IF e.op = "op_end" THEN {}
               ELSE e.stack \cup TakenAddresses(c, e.stamp, ProcessPid(e), e.tid),
     end |-> None, ghost |-> e.ghost]

file_event_allowed(c, r) == ~Rooted \/ r.pid \in c.tree

cache_file_path(c, r) ==
    IF r.path = None
    THEN c
    ELSE [c EXCEPT
            !.byObject = [o \in Objects |-> IF o = r.object THEN r.path ELSE @[o]],
            !.byKey    = [k \in Keys |-> IF k = r.key THEN r.path ELSE @[k]]]

\* Only the key's entry goes when a file is cleaned up or closed.
remove_file_pathX(c, r) ==
    [c EXCEPT !.byKey = [k \in Keys |-> IF k = r.key THEN None ELSE @[k]]]

remove_file_path(c, r) ==
    [c EXCEPT !.byObject = [o \in Objects |-> IF o = r.object THEN None ELSE @[o]],
              !.byKey    = [k \in Keys |-> IF k = r.key THEN None ELSE @[k]]]

resolve_file_path(c, r) ==
    IF r.path # None
    THEN r
    ELSE IF r.object # None /\ c.byObject[r.object] # None
    THEN [r EXCEPT !.path = c.byObject[r.object], !.source = "file_object_cache"]
    ELSE IF r.key # None /\ c.byKey[r.key] # None
    THEN [r EXCEPT !.path = c.byKey[r.key], !.source = "file_key_cache"]
    ELSE r

\* The row a file record becomes: its stack is resolved when it is written.
FileRow(c, r) == [r EXCEPT !.stack = stack_frames_from_addresses(c, @, r.pid)]

write_file_event(c, r) ==
    [c EXCEPT !.out = @ \cup {FileRow(c, r)}, !.written = @ + 1]

\* The completion is merged, but the record stays pending until its IRP is reused.
CompleteX(c, r) ==
    [c EXCEPT !.pending[r.irp].end = [pid |-> r.pid, tid |-> r.tid, ghost |-> r.ghost],
              !.matched = @ + 1]

\* process_file_io_event, OP_END of a pending record
Complete(c, r) ==
    [write_file_event(c, [c.pending[r.irp] EXCEPT
                            !.end = [pid |-> r.pid, tid |-> r.tid, ghost |-> r.ghost]])
     EXCEPT !.matched = @ + 1, !.pending[r.irp] = None]

OpEnd(c, r) ==
    IF r.irp = None
    THEN [c EXCEPT !.unmatched = @ + 1]
    ELSE IF c.pending[r.irp] # None
    THEN Complete(c, r)
    ELSE IF r.irp \in c.ignored
    THEN [c EXCEPT !.ignored = @ \ {r.irp}]
    ELSE [c EXCEPT !.unmatched = @ + 1]

\* process_file_io_event, CLOSE: what is pending under its IRP is dropped
Close(c, r) ==
    LET taken == IF r.irp = None
                 THEN c
                 ELSE [c EXCEPT !.reused = @ + (IF c.pending[r.irp] # None THEN 1 ELSE 0),
                                !.pending[r.irp] = None,
                                !.ignored = @ \cup {r.irp}]
    IN  remove_file_path(write_file_event(taken, r), r)

\* The record an IRP is reused over is replaced without being written.
HoldX(c, r) ==
    [c EXCEPT !.pending[r.irp] = r,
              !.reused = @ + (IF c.pending[r.irp] # None THEN 1 ELSE 0)]

\* process_file_io_event, the other opcodes with an IRP
Hold(c, r) ==
    IF c.pending[r.irp] # None
    THEN [write_file_event(c, c.pending[r.irp]) EXCEPT
            !.reused = @ + 1, !.pending[r.irp] = r]
    ELSE [c EXCEPT !.pending[r.irp] = r]

Begin(c, r) ==
    LET held == IF r.irp # None THEN Hold(c, r) ELSE write_file_event(c, r)
    IN  IF r.op = "cleanup" THEN remove_file_path(held, r) ELSE held

process_file_io_event(c, e) ==
    LET r      == decoded_file_event(c, e)
        taken  == take_matching_pending_stack(c, e.stamp, ProcessPid(e), e.tid)
        cached == cache_file_path(taken, r)
        path   == resolve_file_path(cached, r)
    IN  IF "file" \notin Presets
        THEN c
        ELSE IF e.op = "op_end"
        THEN OpEnd(c, r)
        ELSE IF ~file_event_allowed(taken, r)
        THEN taken
        ELSE IF e.op = "close"
        THEN Close(cached, path)
        ELSE Begin(cached, path)

\* The records still pending are cleared and never reach file.jsonl.
flush_pending_file_eventsX(c) ==
    LET left == {i \in Irps : c.pending[i] # None}
    IN  [c EXCEPT !.incomplete = @ + Cardinality(left),
                  !.pending = [i \in Irps |-> None],
                  !.out = {}]

flush_pending_file_events(c) ==
    LET left == {i \in Irps : c.pending[i] # None}
    IN  [c EXCEPT !.incomplete = @ + Cardinality(left),
                  !.pending = [i \in Irps |-> None],
                  !.written = @ + Cardinality(left),
                  !.out = {FileRow(c, c.pending[i]) : i \in left}]

---------------------------------------------------------------------------
(***************************************************************************)
(* The other categories, and the dispatch                                  *)
(***************************************************************************)
write_extracted_event(c, e) ==
    LET pid    == ProcessPid(e)
        frames == stack_frames_from_addresses(
                      c, e.stack \cup TakenAddresses(c, e.stamp, pid, e.tid), pid)
        row    == [kind |-> e.kind, pid |-> pid, tid |-> e.tid, stack |-> frames,
                   ghost |-> e.ghost]
        taken  == take_matching_pending_stack(c, e.stamp, pid, e.tid)
    IN  IF process_tree_allows_event(c.tree, e)
        THEN [taken EXCEPT !.tree = TreeAfter(@, e),
                           !.out = @ \cup {row}, !.written = @ + 1]
        ELSE c

(***************************************************************************)
(* event_record_callback.  An image record updates the module map whether  *)
(* or not images are an output category; doing it again when the record is *)
(* written changes nothing.  A file record of an opcode the adapter does   *)
(* not know (op = None) is a row like that of any other category.          *)
(***************************************************************************)
event_record_callback(context, e) ==
    LET c     == [context EXCEPT !.out = {}]
        image == IF e.kind = "image" /\ process_tree_allows_event(c.tree, e)
                 THEN update_module_map(c, e) ELSE c
    IN  IF e.kind = "stack"
        THEN process_stack_walk_event(c, e)
        ELSE IF e.kind = "file" /\ e.op # None
        THEN process_file_io_event(c, e)
        ELSE IF e.kind \in Presets
        THEN write_extracted_event(image, e)
        ELSE image
=============================================================================
