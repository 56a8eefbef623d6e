--------------------------- MODULE ServiceUpdate ---------------------------
(***************************************************************************)
(* service.update: the service starts an updater ("service apply-update"), *)
(* a process of its own, which copies the new payload to bin.next-<id>,    *)
(* overwrites runtime.toml, stops the service, swaps the directories by    *)
(* renames (bin -> bin.old-<id>, bin.next-<id> -> bin) with retries up to  *)
(* a deadline, starts the service and removes what is left of updates.     *)
(*                                                                         *)
(* A directory or file is Absent or a Tree: the updater whose payload it   *)
(* holds and how much of it is there.  A rename is atomic; copying and     *)
(* removing a tree take two steps each.  An updater may die between any    *)
(* two steps.                                                              *)
(*                                                                         *)
(* Definitions that end in X are seeded faults.                            *)
(***************************************************************************)
EXTENDS FiniteSets

CONSTANTS
    Updaters,       \* the updates, each with a suffix (time and pid) of its own
    WithConfig,     \* those whose payload has a runtime.toml
    WithRestart,    \* those without --no-restart
    Overlap,        \* a second update may be requested while one is running
    Shipped,        \* the version that was installed
    Absent

VARIABLES
    bin, old, next,     \* bin, bin.old-<u>, bin.next-<u>
    config,             \* etc\runtime.toml
    svc,                \* the service as the SCM sees it
    pc,
    late,               \* the deadline of the updater has passed
    refused             \* updaters whose last rename back to bin was refused

vars == <<bin, old, next, config, svc, pc, late, refused>>
dirs == <<bin, old, next>>

\* "copying": files are still missing; "damaged": files have been removed.
Parts      == {"copying", "whole", "damaged"}
Tree(v, p) == [ver |-> v, part |-> p]
Trees      == [ver : Updaters \cup {Shipped}, part : Parts]
Whole(t)   == t # Absent /\ t.part = "whole"

ASSUME UpdateAssumption ==
    /\ WithConfig \subseteq Updaters /\ WithRestart \subseteq Updaters
    /\ Shipped \notin Updaters
    /\ Absent \notin Trees
    /\ Overlap \in BOOLEAN

Running == {"copy", "copying", "config", "configuring", "stop", "stopping", "swap", "movein",
            "restore", "retry", "start", "starting", "cleanup"}
Over    == {"ok", "failed", "crashed"}

TypeOK ==
    /\ bin \in Trees \cup {Absent} /\ config \in Trees
    /\ old \in [Updaters -> Trees \cup {Absent}]
    /\ next \in [Updaters -> Trees \cup {Absent}]
    /\ svc \in {"running", "stopping", "stopped"}
    /\ pc \in [Updaters -> {"idle"} \cup Running \cup Over]
    /\ late \in [Updaters -> BOOLEAN]
    /\ refused \subseteq Updaters

Init ==
    /\ bin = Tree(Shipped, "whole") /\ config = Tree(Shipped, "whole")
    /\ old = [u \in Updaters |-> Absent]
    /\ next = [u \in Updaters |-> Absent]
    /\ svc = "running"
    /\ pc = [u \in Updaters |-> "idle"]
    /\ late = [u \in Updaters |-> FALSE]
    /\ refused = {}

Goto(u, p) == pc' = [pc EXCEPT ![u] = p]

-----------------------------------------------------------------------------
(***************************************************************************)
(* Up to the swap                                                          *)
(***************************************************************************)
\* request_update, and the start of apply_update in the new process
Request(u) ==
    /\ pc[u] = "idle" /\ svc = "running"
    /\ Overlap \/ \A v \in Updaters : pc[v] \notin Running
    /\ Goto(u, "copy")
    /\ UNCHANGED <<dirs, config, svc, late, refused>>

AfterCopy(u) == IF u \in WithConfig THEN "config" ELSE "stop"

\* copy_update_payload_to_staging, then the WinDbg runtime in the staged tree
CopyPayload(u) ==
    /\ \/ pc[u] = "copy" /\ next' = [next EXCEPT ![u] = Tree(u, "copying")] /\ Goto(u, "copying")
       \/ /\ pc[u] = "copying" /\ next[u] # Absent
          /\ next' = [next EXCEPT ![u].part = IF @ = "copying" THEN "whole" ELSE @]
          /\ Goto(u, AfterCopy(u))
       \/ pc[u] = "copying" /\ next[u] = Absent /\ Goto(u, "failed") /\ UNCHANGED next
    /\ UNCHANGED <<bin, old, config, svc, late, refused>>

\* apply_update_config_payload
CopyConfig(u) ==
    /\ \/ pc[u] = "config" /\ config' = Tree(u, "copying") /\ Goto(u, "configuring")
       \/ pc[u] = "configuring" /\ config' = Tree(u, "whole") /\ Goto(u, "stop")
    /\ UNCHANGED <<dirs, svc, late, refused>>

\* stop_service_with_timeout: the service is asked to stop and waited for.
StopService(u) ==
    /\ ~late[u]
    /\ \/ pc[u] = "stop" /\ svc # "stopped" /\ svc' = "stopping" /\ Goto(u, "stopping")
       \/ pc[u] \in {"stop", "stopping"} /\ svc = "stopped" /\ Goto(u, "swap") /\ UNCHANGED svc
    /\ UNCHANGED <<dirs, config, late, refused>>

\* `?` after an error of the file system or the service control manager
Fails(u) ==
    /\ pc[u] \in {"copy", "copying", "config", "configuring", "stop", "stopping", "start",
                 "starting"}
    /\ Goto(u, "failed")
    /\ UNCHANGED <<dirs, config, svc, late, refused>>

\* remaining_update_timeout and wait_for_state_with_timeout
TimesOut(u) ==
    /\ pc[u] \in {"stop", "stopping", "start", "starting"} /\ late[u]
    /\ Goto(u, "failed")
    /\ UNCHANGED <<dirs, config, svc, late, refused>>

-----------------------------------------------------------------------------
(***************************************************************************)
(* The swap                                                                *)
(***************************************************************************)
\* bin is removed, as install_payload does, instead of being moved away.
MoveOutX(u) ==
    /\ pc[u] = "swap"
    /\ \/ old[u] = Absent /\ bin # Absent /\ svc = "stopped" /\ bin' = Absent /\ Goto(u, "movein")
       \/ old[u] = Absent /\ bin # Absent /\ Goto(u, "retry") /\ UNCHANGED bin
       \/ (old[u] # Absent \/ bin = Absent) /\ Goto(u, "movein") /\ UNCHANGED bin
    /\ UNCHANGED <<old, next, config, svc, late, refused>>

\* replace_installed_bin_once, first rename: it is refused while a process runs
\* from bin, and whenever another program has a file of it open.
MoveOut(u) ==
    /\ pc[u] = "swap"
    /\ \/ /\ old[u] = Absent /\ bin # Absent /\ svc = "stopped"
          /\ old' = [old EXCEPT ![u] = bin] /\ bin' = Absent
          /\ Goto(u, "movein")
       \/ old[u] = Absent /\ bin # Absent /\ Goto(u, "retry") /\ UNCHANGED <<bin, old>>
       \/ (old[u] # Absent \/ bin = Absent) /\ Goto(u, "movein") /\ UNCHANGED <<bin, old>>
    /\ UNCHANGED <<next, config, svc, late, refused>>

\* Second rename.
MoveIn(u) ==
    /\ pc[u] = "movein"
    /\ \/ /\ next[u] # Absent /\ bin = Absent
          /\ bin' = next[u] /\ next' = [next EXCEPT ![u] = Absent]
          /\ Goto(u, IF u \in WithRestart THEN "start" ELSE "cleanup")
       \/ Goto(u, "restore") /\ UNCHANGED <<bin, next>>
    /\ UNCHANGED <<old, config, svc, late, refused>>

\* The rename back, which may be refused as well and is not looked at.
PutBack(u) ==
    \/ /\ old[u] # Absent /\ bin = Absent
       /\ bin' = old[u] /\ old' = [old EXCEPT ![u] = Absent] /\ refused' = refused \ {u}
    \/ /\ old[u] # Absent /\ bin = Absent
       /\ refused' = refused \cup {u} /\ UNCHANGED <<bin, old>>
    \/ (old[u] = Absent \/ bin # Absent) /\ UNCHANGED <<bin, old, refused>>

\* Nothing is put back when the second rename fails.
RestoreX(u) ==
    /\ pc[u] = "restore"
    /\ Goto(u, "retry")
    /\ UNCHANGED <<dirs, config, svc, late, refused>>

Restore(u) ==
    /\ pc[u] = "restore"
    /\ PutBack(u)
    /\ Goto(u, "retry")
    /\ UNCHANGED <<next, config, svc, late>>

\* The deadline is not looked at before the next attempt.
RetryX(u) ==
    /\ pc[u] = "retry"
    /\ PutBack(u) /\ Goto(u, "swap")
    /\ UNCHANGED <<next, config, svc, late>>

\* replace_installed_bin_with_staging: another attempt, or the error
Retry(u) ==
    /\ pc[u] = "retry"
    /\ \/ ~late[u] /\ PutBack(u) /\ Goto(u, "swap")
       \/ late[u] /\ Goto(u, "failed") /\ UNCHANGED <<bin, old, refused>>
    /\ UNCHANGED <<next, config, svc, late>>

-----------------------------------------------------------------------------
(***************************************************************************)
(* After the swap                                                          *)
(***************************************************************************)
\* start_service_with_timeout: what is in bin is started.
StartService(u) ==
    /\ \/ pc[u] = "start" /\ ~late[u] /\ Goto(u, "starting") /\ UNCHANGED svc
       \/ /\ pc[u] = "starting" /\ Whole(bin) /\ svc = "stopped"
          /\ svc' = "running" /\ Goto(u, "cleanup")
       \/ pc[u] = "starting" /\ svc = "running" /\ Goto(u, "cleanup") /\ UNCHANGED svc
    /\ UNCHANGED <<dirs, config, late, refused>>

\* remove_dir_all, entry by entry: the directory is emptied and then removed.
Removed(t) == IF t.part = "damaged" THEN Absent ELSE [t EXCEPT !.part = "damaged"]

\* cleanup_update_dirs, of every update, not only of this one
Cleanup(u) ==
    /\ pc[u] = "cleanup"
    /\ \E v \in Updaters :
         \/ old[v] # Absent /\ old' = [old EXCEPT ![v] = Removed(@)] /\ UNCHANGED next
         \/ next[v] # Absent /\ next' = [next EXCEPT ![v] = Removed(@)] /\ UNCHANGED old
    /\ UNCHANGED <<bin, config, svc, pc, late, refused>>

\* Nothing is left, or an entry could not be removed, which is only logged.
CleanupEnds(u) ==
    /\ pc[u] = "cleanup"
    /\ Goto(u, "ok")
    /\ UNCHANGED <<dirs, config, svc, late, refused>>

-----------------------------------------------------------------------------
(***************************************************************************)
(* Around the updater                                                      *)
(***************************************************************************)
Deadline(u) ==
    /\ pc[u] \in Running /\ ~late[u]
    /\ late' = [late EXCEPT ![u] = TRUE]
    /\ UNCHANGED <<dirs, config, svc, pc, refused>>

Crash(u) ==
    /\ pc[u] \in Running
    /\ Goto(u, "crashed")
    /\ UNCHANGED <<dirs, config, svc, late, refused>>

ServiceStopped ==
    /\ svc = "stopping" /\ svc' = "stopped"
    /\ UNCHANGED <<dirs, config, pc, late, refused>>

\* The operator, or the next boot, starts the service: possible if bin is there.
ServiceStarted ==
    /\ svc = "stopped" /\ Whole(bin) /\ svc' = "running"
    /\ UNCHANGED <<dirs, config, pc, late, refused>>

Updater(u) ==
    \/ CopyPayload(u) \/ CopyConfig(u) \/ StopService(u) \/ MoveOut(u) \/ MoveIn(u)
    \/ Restore(u) \/ Retry(u) \/ StartService(u) \/ Cleanup(u) \/ CleanupEnds(u) \/ TimesOut(u)

Quiet ==
    /\ \A u \in Updaters : pc[u] \notin Running
    /\ UNCHANGED vars

Next ==
    \/ \E u \in Updaters : Request(u) \/ Updater(u) \/ Fails(u) \/ Deadline(u) \/ Crash(u)
    \/ ServiceStopped \/ ServiceStarted \/ Quiet

Spec == Init /\ [][Next]_vars

\* The updater's process is scheduled and time passes; the service need not stop,
\* and no call need fail.
FairSpec ==
    /\ Spec
    /\ \A u \in Updaters : WF_vars(Updater(u)) /\ WF_vars(Deadline(u))

-----------------------------------------------------------------------------
(***************************************************************************)
(* Properties                                                              *)
(***************************************************************************)
\* Whatever fails and wherever an updater dies, no incomplete payload is in bin, and
\* if nothing is there a bin.old-* still holds a complete one to put back.
PayloadKept ==
    /\ bin # Absent => Whole(bin)
    /\ bin = Absent => \E u \in Updaters : Whole(old[u])

\* An update that fails puts the old payload back: with no updater at work bin is
\* missing only if one died in the swap or the rename back was refused.
BinBack ==
    (bin = Absent /\ \A u \in Updaters : pc[u] \notin Running) =>
        \E u \in Updaters : pc[u] = "crashed" \/ u \in refused

\* An updater ends by its deadline, even if the service does not stop and every
\* rename is refused.
UpdateEnds == \A u \in Updaters : pc[u] \in Running ~> pc[u] \in Over

-----------------------------------------------------------------------------
(***************************************************************************)
(* The inductive invariant behind the theorems of ServiceUpdateProofs, for *)
(* updates that do not overlap                                             *)
(***************************************************************************)
OneUpdater == \A u, v \in Updaters : pc[u] \in Running /\ pc[v] \in Running => u = v

\* What an updater at work has staged and moved away so far, and that there is a
\* payload in bin again before anything is removed.
StagingInv ==
    \A u \in Updaters :
        /\ pc[u] = "copying" => next[u] = Tree(u, "copying")
        /\ pc[u] \in {"config", "configuring", "stop", "stopping", "swap", "movein", "restore",
                     "retry"} => Whole(next[u])
        /\ pc[u] \in {"idle", "copy", "copying", "config", "configuring", "stop", "stopping"} =>
             old[u] = Absent
        /\ pc[u] \in {"swap", "movein", "restore", "retry"} => old[u] = Absent \/ Whole(old[u])
        /\ pc[u] \in {"start", "starting", "cleanup"} => bin # Absent

\* Why bin can be missing.
MissingInv ==
    bin = Absent =>
        \E u \in Updaters :
            \/ pc[u] = "crashed" \/ u \in refused
            \/ pc[u] \in {"movein", "restore"} /\ old[u] # Absent

IInv == TypeOK /\ OneUpdater /\ StagingInv /\ MissingInv /\ PayloadKept
=============================================================================
