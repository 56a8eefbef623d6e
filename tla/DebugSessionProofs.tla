------------------------- MODULE DebugSessionProofs -------------------------
(***************************************************************************)
(* Theorems about DebugSession for any set of threads, any Roles and both  *)
(* values of IoMayFail.  The inductive invariant IInv is shown to be kept  *)
(* conjunct by conjunct, each in a lemma with one step per action; the     *)
(* theorems follow from it.                                                *)
(***************************************************************************)
EXTENDS DebugSession, SequenceTheorems, TLAPS

-----------------------------------------------------------------------------
(* Types                                                                   *)

\* A handler that returns gives up the lock it holds, and only that.
LEMMA ReturnType ==
  ASSUME TypeOK, NEW t \in Threads, Return(t)
  PROVE  requestLock' \in Holder /\ pc' \in [Threads -> PCs]
BY DEF TypeOK, Return, Unlock, Goto, Holder, PCs

\* append_operation keeps a file of final records.
LEMMA AppendLogType ==
  ASSUME TypeOK, NEW t \in Threads, NEW s \in Final, AppendLog(t, s)
  PROVE  log' \in [Threads -> Seq(Final)]
BY DEF TypeOK, AppendLog

\* Steps go to known places.
LEMMA GotoType ==
  ASSUME TypeOK, NEW t \in Threads, NEW p \in PCs, Goto(t, p)
  PROVE  pc' \in [Threads -> PCs]
BY DEF TypeOK, Goto

\* Operations take known statuses.
LEMMA SetOpType ==
  ASSUME TypeOK, NEW t \in Threads, NEW s \in OpStates, SetOp(t, s)
  PROVE  op' \in [Threads -> OpStates]
BY DEF TypeOK, SetOp

\* The status a command's handler decides on is a final one.
LEMMA RecordStatusType ==
  ASSUME NEW t PROVE RecordStatus(t) \in Final /\ RecordStatus(t) \in OpStates
BY DEF RecordStatus, Final, OpStates

\* Every step keeps TypeOK.
LEMMA TypeStep ==
  ASSUME TypeOK, KindInv, [Next]_vars
  PROVE TypeOK'
<1> USE ThreadsAssumption, SessionAssumption
        DEF TypeOK, SupervisorTypeOK, Holder, ProcStates, ReqStates, Responses,
            SessionStates, OpStates, Final, PCs, Kinds, Commands, Finishers
<1>1. ASSUME NEW t \in Threads, NEW k \in Commands, BeginCommand(t, k) PROVE TypeOK'
  BY <1>1 DEF BeginCommand, Goto, supervisorVars
<1>2. ASSUME NEW t \in Threads, AcquireRequestLock(t) PROVE TypeOK'
  BY <1>2 DEF AcquireRequestLock, Goto, supervisorVars
<1>3. ASSUME NEW t \in Threads, RecheckCommand(t) PROVE TypeOK'
  <2>1. CASE sess \in Reusable
    BY <1>3, <2>1, ZenonT(40) DEF RecheckCommand, Goto, supervisorVars
  <2>2. CASE sess \notin Reusable
    BY <1>3, <2>2, ReturnType DEF RecheckCommand, supervisorVars
  <2> QED BY <2>1, <2>2
<1>4. ASSUME NEW t \in Threads, InsertRunning(t) PROVE TypeOK'
  BY <1>4 DEF InsertRunning, Goto, SetOp
<1>5. ASSUME NEW t \in Threads, OpenWorkspaceFails(t) PROVE TypeOK'
  BY <1>5, ReturnType DEF OpenWorkspaceFails, supervisorVars
<1>6. ASSUME NEW t \in Threads, TakeResponse(t) PROVE TypeOK'
  BY <1>6 DEF TakeResponse, Goto, supervisorVars
<1>7. ASSUME NEW t \in Threads, Timeout(t) PROVE TypeOK'
  BY <1>7 DEF Timeout, Goto, supervisorVars
<1>8. ASSUME NEW t \in Threads, ReadStatus(t) PROVE TypeOK'
  BY <1>8 DEF ReadStatus, Goto, supervisorVars
<1>9. ASSUME NEW t \in Threads, RegisterWritesFails(t) PROVE TypeOK'
  BY <1>9, ReturnType DEF RegisterWritesFails, supervisorVars
<1>10. ASSUME NEW t \in Threads, AppendOperation(t) PROVE TypeOK'
  <2>1. log' \in [Threads -> Seq(Final)]
    <3>1. RecordStatus(t) \in Final
      BY RecordStatusType
    <3> QED BY <1>10, <3>1, AppendLogType DEF AppendOperation
  <2> QED BY <1>10, <2>1 DEF AppendOperation, Goto, supervisorVars
<1>11. ASSUME NEW t \in Threads, AppendFails(t) PROVE TypeOK'
  <2>1. log' \in [Threads -> Seq(Final)]
    <3>1. RecordStatus(t) \in Final
      BY RecordStatusType
    <3> QED BY <1>11, <3>1, AppendLogType DEF AppendFails
  <2> QED BY <1>11, <2>1, ReturnType DEF AppendFails, supervisorVars
<1>12. ASSUME NEW t \in Threads, Commit(t) PROVE TypeOK'
  <2>1. op' \in [Threads -> OpStates]
    <3>1. RecordStatus(t) \in OpStates
      BY RecordStatusType
    <3> QED BY <1>12, <3>1, SetOpType DEF Commit
  <2>2. lastOp' \in Holder
    BY <1>12 DEF Commit
  <2> QED BY <1>12, <2>1, <2>2, ReturnType DEF Commit, supervisorVars
<1>13. ASSUME NEW t \in Threads, NEW k \in Finishers, BeginFinish(t, k) PROVE TypeOK'
  BY <1>13, ZenonT(40) DEF BeginFinish, Goto, supervisorVars
<1>14. ASSUME NEW t \in Threads, RecheckClose(t) PROVE TypeOK'
  <2>1. CASE sess \in Terminal /\ Return(t) /\ UNCHANGED req
    BY <1>14, <2>1, ReturnType DEF RecheckClose
  <2>2. CASE Goto(t, "await") /\ req' = [req EXCEPT ![t] = "lookup"] /\ UNCHANGED requestLock
    BY <1>14, <2>2 DEF RecheckClose, Goto
  <2> QED BY <1>14, <2>1, <2>2 DEF RecheckClose
<1>15. ASSUME NEW t \in Threads, RecheckKill(t) PROVE TypeOK'
  BY <1>15 DEF RecheckKill, Goto, supervisorVars
<1>16. ASSUME NEW t \in Threads, KillRemove(t) PROVE TypeOK'
  BY <1>16 DEF KillRemove, Goto, RemoveWorker, AfterKill
<1>17. ASSUME NEW t \in Threads, KillReap(t) PROVE TypeOK'
  BY <1>17 DEF KillReap, Goto, KillChild, AfterKill
<1>18. ASSUME NEW t \in Threads, MarkError(t) PROVE TypeOK'
  BY <1>18, ZenonT(40) DEF MarkError, Goto, Return, Unlock, supervisorVars
<1>19. ASSUME NEW t \in Threads, CloseRemove(t) PROVE TypeOK'
  BY <1>19 DEF CloseRemove, Goto, RemoveWorker
<1>20. ASSUME NEW t \in Threads, CloseReap(t) PROVE TypeOK'
  BY <1>20 DEF CloseReap, Goto, WaitChild, supervisorVars
<1>21. ASSUME NEW t \in Threads, RecordFinish(t) PROVE TypeOK'
  BY <1>21 DEF RecordFinish, Goto, AppendLog, supervisorVars
<1>22. ASSUME NEW t \in Threads, RecordFinishFails(t) PROVE TypeOK'
  BY <1>22, ReturnType DEF RecordFinishFails, supervisorVars
<1>23. ASSUME NEW t \in Threads, CommitFinish(t) PROVE TypeOK'
  <2>1. op' \in [Threads -> OpStates]
    BY <1>23 DEF CommitFinish, SetOp
  <2> QED BY <1>23, <2>1, ReturnType DEF CommitFinish, supervisorVars
<1>24. ASSUME NEW t \in Threads, NEW x \in Threads \ {t}, BeginCancel(t, x) PROVE TypeOK'
  <2>1. op' \in [Threads -> OpStates]
    BY <1>24, SetOpType DEF BeginCancel
  <2>2. pc' \in [Threads -> PCs]
    BY <1>24, GotoType DEF BeginCancel
  <2> QED BY <1>24, <2>1, <2>2 DEF BeginCancel, supervisorVars
<1>25. ASSUME NEW t \in Threads, CancelLookup(t) PROVE TypeOK'
  BY <1>25 DEF CancelLookup, Goto, supervisorVars
<1>26. ASSUME NEW t \in Threads, CancelTry(t) PROVE TypeOK'
  <2>1. pc' \in [Threads -> PCs]
    BY <1>26, GotoType DEF CancelTry
  <2>2. transport' \in Holder /\ req' \in [Threads -> ReqStates]
    BY <1>26, ZenonT(40) DEF CancelTry
  <2> QED BY <1>26, <2>1, <2>2 DEF CancelTry
<1>27. ASSUME NEW t \in Threads, CancelNotified(t) PROVE TypeOK'
  BY <1>27 DEF CancelNotified, Goto, supervisorVars
<1>28. ASSUME NEW t \in Threads, CancelRecord(t) PROVE TypeOK'
  <2>1. log' \in [Threads -> Seq(Final)]
    BY <1>28, AppendLogType DEF CancelRecord, KindInv
  <2>2. pc' \in [Threads -> PCs]
    BY <1>28 DEF CancelRecord, Goto
  <2> QED BY <1>28, <2>1, <2>2 DEF CancelRecord, supervisorVars
<1>29. ASSUME NEW t \in Threads, Lookup(t) PROVE TypeOK'
  BY <1>29, ZenonT(40) DEF Lookup, LookupWorker, sessionVars
<1>30. ASSUME NEW t \in Threads, Send(t) PROVE TypeOK'
  BY <1>30 DEF Send, LockTransport, sessionVars
<1>31. ASSUME NEW t \in Threads, AnswerCommand(t) PROVE TypeOK'
  BY <1>31 DEF AnswerCommand, WorkerAnswers, sessionVars
<1>32. ASSUME NEW t \in Threads, AnswerControl(t) PROVE TypeOK'
  BY <1>32 DEF AnswerControl, WorkerAnswers, sessionVars
<1>33. ASSUME NEW t \in Threads, Broken(t) PROVE TypeOK'
  BY <1>33 DEF Broken, PipeBroken, sessionVars
<1>34. CASE Crash
  BY <1>34 DEF Crash, WorkerCrash, sessionVars
<1>35. CASE Leave
  BY <1>35 DEF Leave, WorkerLeaves, sessionVars
<1>36. CASE UNCHANGED vars
  BY <1>36 DEF vars, supervisorVars, sessionVars
<1> QED
  BY <1>1, <1>2, <1>3, <1>4, <1>5, <1>6, <1>7, <1>8, <1>9, <1>10, <1>11, <1>12,
     <1>13, <1>14, <1>15, <1>16, <1>17, <1>18, <1>19, <1>20, <1>21, <1>22,
     <1>23, <1>24, <1>25, <1>26, <1>27, <1>28, <1>29, <1>30, <1>31, <1>32,
     <1>33, <1>34, <1>35, <1>36
  DEF Next, Begin, Progress, Faults, Request, Quiet

-----------------------------------------------------------------------------
(* Control and locks                                                       *)

\* Every step keeps KindInv: no RPC wanders into the code of another.
LEMMA KindStep ==
  ASSUME TypeOK, KindInv, [Next]_vars
  PROVE KindInv'
<1> USE DEF TypeOK, KindInv, Commands, Finishers, Lockers
<1>1. ASSUME NEW t \in Threads, NEW k \in Commands, BeginCommand(t, k) PROVE KindInv'
  BY <1>1 DEF BeginCommand, Goto, supervisorVars
<1>2. ASSUME NEW t \in Threads, AcquireRequestLock(t) PROVE KindInv'
  BY <1>2 DEF AcquireRequestLock, Goto, supervisorVars
<1>3. ASSUME NEW t \in Threads, RecheckCommand(t) PROVE KindInv'
  BY <1>3 DEF RecheckCommand, Goto, Return, Unlock, supervisorVars
<1>4. ASSUME NEW t \in Threads, InsertRunning(t) PROVE KindInv'
  BY <1>4 DEF InsertRunning, Goto, SetOp
<1>5. ASSUME NEW t \in Threads, OpenWorkspaceFails(t) PROVE KindInv'
  BY <1>5 DEF OpenWorkspaceFails, Goto, Return, Unlock, supervisorVars
<1>6. ASSUME NEW t \in Threads, TakeResponse(t) PROVE KindInv'
  BY <1>6 DEF TakeResponse, Goto, supervisorVars
<1>7. ASSUME NEW t \in Threads, Timeout(t) PROVE KindInv'
  BY <1>7 DEF Timeout, Goto, supervisorVars
<1>8. ASSUME NEW t \in Threads, ReadStatus(t) PROVE KindInv'
  BY <1>8 DEF ReadStatus, Goto, supervisorVars
<1>9. ASSUME NEW t \in Threads, RegisterWritesFails(t) PROVE KindInv'
  BY <1>9 DEF RegisterWritesFails, Goto, Return, Unlock, supervisorVars
<1>10. ASSUME NEW t \in Threads, AppendOperation(t) PROVE KindInv'
  BY <1>10 DEF AppendOperation, Goto, AppendLog, RecordStatus, supervisorVars
<1>11. ASSUME NEW t \in Threads, AppendFails(t) PROVE KindInv'
  BY <1>11 DEF AppendFails, Goto, Return, Unlock, AppendLog, RecordStatus, supervisorVars
<1>12. ASSUME NEW t \in Threads, Commit(t) PROVE KindInv'
  BY <1>12 DEF Commit, Goto, Return, Unlock, SetOp, RecordStatus, supervisorVars
<1>13. ASSUME NEW t \in Threads, NEW k \in Finishers, BeginFinish(t, k) PROVE KindInv'
  BY <1>13 DEF BeginFinish, Goto, supervisorVars
<1>14. ASSUME NEW t \in Threads, RecheckClose(t) PROVE KindInv'
  BY <1>14 DEF RecheckClose, Goto, Return, Unlock
<1>15. ASSUME NEW t \in Threads, RecheckKill(t) PROVE KindInv'
  BY <1>15 DEF RecheckKill, Goto, supervisorVars
<1>16. ASSUME NEW t \in Threads, KillRemove(t) PROVE KindInv'
  BY <1>16 DEF KillRemove, Goto, RemoveWorker, AfterKill
<1>17. ASSUME NEW t \in Threads, KillReap(t) PROVE KindInv'
  BY <1>17 DEF KillReap, Goto, KillChild, AfterKill
<1>18. ASSUME NEW t \in Threads, MarkError(t) PROVE KindInv'
  BY <1>18 DEF MarkError, Goto, Return, Unlock, supervisorVars
<1>19. ASSUME NEW t \in Threads, CloseRemove(t) PROVE KindInv'
  BY <1>19 DEF CloseRemove, Goto, RemoveWorker
<1>20. ASSUME NEW t \in Threads, CloseReap(t) PROVE KindInv'
  BY <1>20 DEF CloseReap, Goto, WaitChild, supervisorVars
<1>21. ASSUME NEW t \in Threads, RecordFinish(t) PROVE KindInv'
  BY <1>21 DEF RecordFinish, Goto, AppendLog, supervisorVars
<1>22. ASSUME NEW t \in Threads, RecordFinishFails(t) PROVE KindInv'
  BY <1>22 DEF RecordFinishFails, Goto, Return, Unlock, supervisorVars
<1>23. ASSUME NEW t \in Threads, CommitFinish(t) PROVE KindInv'
  BY <1>23 DEF CommitFinish, Goto, Return, Unlock, SetOp, supervisorVars
<1>24. ASSUME NEW t \in Threads, NEW x \in Threads \ {t}, BeginCancel(t, x) PROVE KindInv'
  BY <1>24 DEF BeginCancel, Goto, SetOp, supervisorVars
<1>25. ASSUME NEW t \in Threads, CancelLookup(t) PROVE KindInv'
  BY <1>25 DEF CancelLookup, Goto, supervisorVars
<1>26. ASSUME NEW t \in Threads, CancelTry(t) PROVE KindInv'
  BY <1>26 DEF CancelTry, Goto
<1>27. ASSUME NEW t \in Threads, CancelNotified(t) PROVE KindInv'
  BY <1>27 DEF CancelNotified, Goto, supervisorVars
<1>28. ASSUME NEW t \in Threads, CancelRecord(t) PROVE KindInv'
  BY <1>28 DEF CancelRecord, Goto, AppendLog, supervisorVars
<1>29. ASSUME NEW t \in Threads, Lookup(t) PROVE KindInv'
  BY <1>29 DEF Lookup, LookupWorker, sessionVars
<1>30. ASSUME NEW t \in Threads, Send(t) PROVE KindInv'
  BY <1>30 DEF Send, LockTransport, sessionVars
<1>31. ASSUME NEW t \in Threads, AnswerCommand(t) PROVE KindInv'
  BY <1>31 DEF AnswerCommand, WorkerAnswers, sessionVars
<1>32. ASSUME NEW t \in Threads, AnswerControl(t) PROVE KindInv'
  BY <1>32 DEF AnswerControl, WorkerAnswers, sessionVars
<1>33. ASSUME NEW t \in Threads, Broken(t) PROVE KindInv'
  BY <1>33 DEF Broken, PipeBroken, sessionVars
<1>34. CASE Crash
  BY <1>34 DEF Crash, WorkerCrash, sessionVars
<1>35. CASE Leave
  BY <1>35 DEF Leave, WorkerLeaves, sessionVars
<1>36. CASE UNCHANGED vars
  BY <1>36 DEF vars, supervisorVars, sessionVars
<1> QED
  BY <1>1, <1>2, <1>3, <1>4, <1>5, <1>6, <1>7, <1>8, <1>9, <1>10, <1>11, <1>12,
     <1>13, <1>14, <1>15, <1>16, <1>17, <1>18, <1>19, <1>20, <1>21, <1>22,
     <1>23, <1>24, <1>25, <1>26, <1>27, <1>28, <1>29, <1>30, <1>31, <1>32,
     <1>33, <1>34, <1>35, <1>36
  DEF Next, Begin, Progress, Faults, Request, Quiet

\* Every step keeps LockInv: request_lock is held exactly from its acquisition
\* to the handler's return.
LEMMA LockStep ==
  ASSUME TypeOK, KindInv, LockInv, [Next]_vars
  PROVE LockInv'
<1> USE ThreadsAssumption
        DEF TypeOK, KindInv, LockInv, InCriticalSection, Commands, Finishers, Lockers
<1>1. ASSUME NEW t \in Threads, NEW k \in Commands, BeginCommand(t, k) PROVE LockInv'
  BY <1>1 DEF BeginCommand, Goto, supervisorVars
<1>2. ASSUME NEW t \in Threads, AcquireRequestLock(t) PROVE LockInv'
  BY <1>2 DEF AcquireRequestLock, Goto, supervisorVars
<1>3. ASSUME NEW t \in Threads, RecheckCommand(t) PROVE LockInv'
  BY <1>3 DEF RecheckCommand, Goto, Return, Unlock, supervisorVars
<1>4. ASSUME NEW t \in Threads, InsertRunning(t) PROVE LockInv'
  BY <1>4 DEF InsertRunning, Goto, SetOp
<1>5. ASSUME NEW t \in Threads, OpenWorkspaceFails(t) PROVE LockInv'
  BY <1>5 DEF OpenWorkspaceFails, Goto, Return, Unlock, supervisorVars
<1>6. ASSUME NEW t \in Threads, TakeResponse(t) PROVE LockInv'
  BY <1>6 DEF TakeResponse, Goto, supervisorVars
<1>7. ASSUME NEW t \in Threads, Timeout(t) PROVE LockInv'
  BY <1>7 DEF Timeout, Goto, supervisorVars
<1>8. ASSUME NEW t \in Threads, ReadStatus(t) PROVE LockInv'
  BY <1>8 DEF ReadStatus, Goto, supervisorVars
<1>9. ASSUME NEW t \in Threads, RegisterWritesFails(t) PROVE LockInv'
  BY <1>9 DEF RegisterWritesFails, Goto, Return, Unlock, supervisorVars
<1>10. ASSUME NEW t \in Threads, AppendOperation(t) PROVE LockInv'
  BY <1>10 DEF AppendOperation, Goto, AppendLog, RecordStatus, supervisorVars
<1>11. ASSUME NEW t \in Threads, AppendFails(t) PROVE LockInv'
  BY <1>11 DEF AppendFails, Goto, Return, Unlock, AppendLog, RecordStatus, supervisorVars
<1>12. ASSUME NEW t \in Threads, Commit(t) PROVE LockInv'
  BY <1>12 DEF Commit, Goto, Return, Unlock, SetOp, RecordStatus, supervisorVars
<1>13. ASSUME NEW t \in Threads, NEW k \in Finishers, BeginFinish(t, k) PROVE LockInv'
  BY <1>13 DEF BeginFinish, Goto, supervisorVars
<1>14. ASSUME NEW t \in Threads, RecheckClose(t) PROVE LockInv'
  BY <1>14 DEF RecheckClose, Goto, Return, Unlock
<1>15. ASSUME NEW t \in Threads, RecheckKill(t) PROVE LockInv'
  BY <1>15 DEF RecheckKill, Goto, supervisorVars
<1>16. ASSUME NEW t \in Threads, KillRemove(t) PROVE LockInv'
  BY <1>16 DEF KillRemove, Goto, RemoveWorker, AfterKill
<1>17. ASSUME NEW t \in Threads, KillReap(t) PROVE LockInv'
  BY <1>17 DEF KillReap, Goto, KillChild, AfterKill
<1>18. ASSUME NEW t \in Threads, MarkError(t) PROVE LockInv'
  BY <1>18 DEF MarkError, Goto, Return, Unlock, supervisorVars
<1>19. ASSUME NEW t \in Threads, CloseRemove(t) PROVE LockInv'
  BY <1>19 DEF CloseRemove, Goto, RemoveWorker
<1>20. ASSUME NEW t \in Threads, CloseReap(t) PROVE LockInv'
  BY <1>20 DEF CloseReap, Goto, WaitChild, supervisorVars
<1>21. ASSUME NEW t \in Threads, RecordFinish(t) PROVE LockInv'
  BY <1>21 DEF RecordFinish, Goto, AppendLog, supervisorVars
<1>22. ASSUME NEW t \in Threads, RecordFinishFails(t) PROVE LockInv'
  BY <1>22 DEF RecordFinishFails, Goto, Return, Unlock, supervisorVars
<1>23. ASSUME NEW t \in Threads, CommitFinish(t) PROVE LockInv'
  BY <1>23 DEF CommitFinish, Goto, Return, Unlock, SetOp, supervisorVars
<1>24. ASSUME NEW t \in Threads, NEW x \in Threads \ {t}, BeginCancel(t, x) PROVE LockInv'
  BY <1>24 DEF BeginCancel, Goto, SetOp, supervisorVars
<1>25. ASSUME NEW t \in Threads, CancelLookup(t) PROVE LockInv'
  BY <1>25 DEF CancelLookup, Goto, supervisorVars
<1>26. ASSUME NEW t \in Threads, CancelTry(t) PROVE LockInv'
  BY <1>26 DEF CancelTry, Goto
<1>27. ASSUME NEW t \in Threads, CancelNotified(t) PROVE LockInv'
  BY <1>27 DEF CancelNotified, Goto, supervisorVars
<1>28. ASSUME NEW t \in Threads, CancelRecord(t) PROVE LockInv'
  BY <1>28 DEF CancelRecord, Goto, AppendLog, supervisorVars
<1>29. ASSUME NEW t \in Threads, Lookup(t) PROVE LockInv'
  BY <1>29 DEF Lookup, LookupWorker, sessionVars
<1>30. ASSUME NEW t \in Threads, Send(t) PROVE LockInv'
  BY <1>30 DEF Send, LockTransport, sessionVars
<1>31. ASSUME NEW t \in Threads, AnswerCommand(t) PROVE LockInv'
  BY <1>31 DEF AnswerCommand, WorkerAnswers, sessionVars
<1>32. ASSUME NEW t \in Threads, AnswerControl(t) PROVE LockInv'
  BY <1>32 DEF AnswerControl, WorkerAnswers, sessionVars
<1>33. ASSUME NEW t \in Threads, Broken(t) PROVE LockInv'
  BY <1>33 DEF Broken, PipeBroken, sessionVars
<1>34. CASE Crash
  BY <1>34 DEF Crash, WorkerCrash, sessionVars
<1>35. CASE Leave
  BY <1>35 DEF Leave, WorkerLeaves, sessionVars
<1>36. CASE UNCHANGED vars
  BY <1>36 DEF vars, supervisorVars, sessionVars
<1> QED
  BY <1>1, <1>2, <1>3, <1>4, <1>5, <1>6, <1>7, <1>8, <1>9, <1>10, <1>11, <1>12,
     <1>13, <1>14, <1>15, <1>16, <1>17, <1>18, <1>19, <1>20, <1>21, <1>22,
     <1>23, <1>24, <1>25, <1>26, <1>27, <1>28, <1>29, <1>30, <1>31, <1>32,
     <1>33, <1>34, <1>35, <1>36
  DEF Next, Begin, Progress, Faults, Request, Quiet

-----------------------------------------------------------------------------
(* The worker and the requests                                             *)

\* Every step keeps RegistryInv: nothing puts a worker back into the registry.
LEMMA RegistryStep ==
  ASSUME TypeOK, KindInv, RegistryInv, [Next]_vars
  PROVE RegistryInv'
<1> USE ThreadsAssumption
        DEF TypeOK, SupervisorTypeOK, KindInv, RegistryInv, TerminalUnregistered, Terminal,
            SessionStates, Commands, Finishers
<1>1. ASSUME NEW t \in Threads, NEW k \in Commands, BeginCommand(t, k) PROVE RegistryInv'
  BY <1>1 DEF BeginCommand, Goto, supervisorVars
<1>2. ASSUME NEW t \in Threads, AcquireRequestLock(t) PROVE RegistryInv'
  BY <1>2 DEF AcquireRequestLock, Goto, supervisorVars
<1>3. ASSUME NEW t \in Threads, RecheckCommand(t) PROVE RegistryInv'
  BY <1>3 DEF RecheckCommand, Goto, Return, Unlock, supervisorVars
<1>4. ASSUME NEW t \in Threads, InsertRunning(t) PROVE RegistryInv'
  BY <1>4 DEF InsertRunning, Goto, SetOp
<1>5. ASSUME NEW t \in Threads, OpenWorkspaceFails(t) PROVE RegistryInv'
  BY <1>5 DEF OpenWorkspaceFails, Goto, Return, Unlock, supervisorVars
<1>6. ASSUME NEW t \in Threads, TakeResponse(t) PROVE RegistryInv'
  BY <1>6 DEF TakeResponse, Goto, supervisorVars
<1>7. ASSUME NEW t \in Threads, Timeout(t) PROVE RegistryInv'
  BY <1>7 DEF Timeout, Goto, supervisorVars
<1>8. ASSUME NEW t \in Threads, ReadStatus(t) PROVE RegistryInv'
  BY <1>8 DEF ReadStatus, Goto, supervisorVars
<1>9. ASSUME NEW t \in Threads, RegisterWritesFails(t) PROVE RegistryInv'
  BY <1>9 DEF RegisterWritesFails, Goto, Return, Unlock, supervisorVars
<1>10. ASSUME NEW t \in Threads, AppendOperation(t) PROVE RegistryInv'
  BY <1>10 DEF AppendOperation, Goto, AppendLog, RecordStatus, supervisorVars
<1>11. ASSUME NEW t \in Threads, AppendFails(t) PROVE RegistryInv'
  BY <1>11 DEF AppendFails, Goto, Return, Unlock, AppendLog, RecordStatus, supervisorVars
<1>12. ASSUME NEW t \in Threads, Commit(t) PROVE RegistryInv'
  BY <1>12 DEF Commit, Goto, Return, Unlock, SetOp, RecordStatus, supervisorVars
<1>13. ASSUME NEW t \in Threads, NEW k \in Finishers, BeginFinish(t, k) PROVE RegistryInv'
  BY <1>13 DEF BeginFinish, Goto, supervisorVars
<1>14. ASSUME NEW t \in Threads, RecheckClose(t) PROVE RegistryInv'
  BY <1>14 DEF RecheckClose, Goto, Return, Unlock
<1>15. ASSUME NEW t \in Threads, RecheckKill(t) PROVE RegistryInv'
  BY <1>15 DEF RecheckKill, Goto, supervisorVars
<1>16. ASSUME NEW t \in Threads, KillRemove(t) PROVE RegistryInv'
  BY <1>16 DEF KillRemove, Goto, RemoveWorker, AfterKill
<1>17. ASSUME NEW t \in Threads, KillReap(t) PROVE RegistryInv'
  BY <1>17 DEF KillReap, Goto, KillChild, AfterKill
<1>18. ASSUME NEW t \in Threads, MarkError(t) PROVE RegistryInv'
  BY <1>18 DEF MarkError, Goto, Return, Unlock, supervisorVars
<1>19. ASSUME NEW t \in Threads, CloseRemove(t) PROVE RegistryInv'
  BY <1>19 DEF CloseRemove, Goto, RemoveWorker
<1>20. ASSUME NEW t \in Threads, CloseReap(t) PROVE RegistryInv'
  BY <1>20 DEF CloseReap, Goto, WaitChild, supervisorVars
<1>21. ASSUME NEW t \in Threads, RecordFinish(t) PROVE RegistryInv'
  BY <1>21 DEF RecordFinish, Goto, AppendLog, supervisorVars
<1>22. ASSUME NEW t \in Threads, RecordFinishFails(t) PROVE RegistryInv'
  BY <1>22 DEF RecordFinishFails, Goto, Return, Unlock, supervisorVars
<1>23. ASSUME NEW t \in Threads, CommitFinish(t) PROVE RegistryInv'
  BY <1>23 DEF CommitFinish, Goto, Return, Unlock, SetOp, supervisorVars
<1>24. ASSUME NEW t \in Threads, NEW x \in Threads \ {t}, BeginCancel(t, x)
       PROVE RegistryInv'
  BY <1>24 DEF BeginCancel, Goto, SetOp, supervisorVars
<1>25. ASSUME NEW t \in Threads, CancelLookup(t) PROVE RegistryInv'
  BY <1>25 DEF CancelLookup, Goto, supervisorVars
<1>26. ASSUME NEW t \in Threads, CancelTry(t) PROVE RegistryInv'
  BY <1>26 DEF CancelTry, Goto
<1>27. ASSUME NEW t \in Threads, CancelNotified(t) PROVE RegistryInv'
  BY <1>27 DEF CancelNotified, Goto, supervisorVars
<1>28. ASSUME NEW t \in Threads, CancelRecord(t) PROVE RegistryInv'
  BY <1>28 DEF CancelRecord, Goto, AppendLog, supervisorVars
<1>29. ASSUME NEW t \in Threads, Lookup(t) PROVE RegistryInv'
  BY <1>29 DEF Lookup, LookupWorker, sessionVars
<1>30. ASSUME NEW t \in Threads, Send(t) PROVE RegistryInv'
  BY <1>30 DEF Send, LockTransport, sessionVars
<1>31. ASSUME NEW t \in Threads, AnswerCommand(t) PROVE RegistryInv'
  BY <1>31 DEF AnswerCommand, WorkerAnswers, sessionVars
<1>32. ASSUME NEW t \in Threads, AnswerControl(t) PROVE RegistryInv'
  BY <1>32 DEF AnswerControl, WorkerAnswers, sessionVars
<1>33. ASSUME NEW t \in Threads, Broken(t) PROVE RegistryInv'
  BY <1>33 DEF Broken, PipeBroken, sessionVars
<1>34. CASE Crash
  BY <1>34 DEF Crash, WorkerCrash, sessionVars
<1>35. CASE Leave
  BY <1>35 DEF Leave, WorkerLeaves, sessionVars
<1>36. CASE UNCHANGED vars
  BY <1>36 DEF vars, supervisorVars, sessionVars
<1> QED
  BY <1>1, <1>2, <1>3, <1>4, <1>5, <1>6, <1>7, <1>8, <1>9, <1>10, <1>11, <1>12,
     <1>13, <1>14, <1>15, <1>16, <1>17, <1>18, <1>19, <1>20, <1>21, <1>22,
     <1>23, <1>24, <1>25, <1>26, <1>27, <1>28, <1>29, <1>30, <1>31, <1>32,
     <1>33, <1>34, <1>35, <1>36
  DEF Next, Begin, Progress, Faults, Request, Quiet

\* Every step keeps OrphanHasReaper: whoever takes the worker out of the
\* registry goes on to reap it.
LEMMA ReaperStep ==
  ASSUME TypeOK, KindInv, OrphanHasReaper, [Next]_vars
  PROVE OrphanHasReaper'
<1> USE ThreadsAssumption
        DEF TypeOK, SupervisorTypeOK, KindInv, OrphanHasReaper, Commands, Finishers
<1>1. ASSUME NEW t \in Threads, NEW k \in Commands, BeginCommand(t, k)
      PROVE OrphanHasReaper'
  BY <1>1 DEF BeginCommand, Goto, supervisorVars
<1>2. ASSUME NEW t \in Threads, AcquireRequestLock(t) PROVE OrphanHasReaper'
  BY <1>2 DEF AcquireRequestLock, Goto, supervisorVars
<1>3. ASSUME NEW t \in Threads, RecheckCommand(t) PROVE OrphanHasReaper'
  BY <1>3 DEF RecheckCommand, Goto, Return, Unlock, supervisorVars
<1>4. ASSUME NEW t \in Threads, InsertRunning(t) PROVE OrphanHasReaper'
  BY <1>4 DEF InsertRunning, Goto, SetOp
<1>5. ASSUME NEW t \in Threads, OpenWorkspaceFails(t) PROVE OrphanHasReaper'
  BY <1>5 DEF OpenWorkspaceFails, Goto, Return, Unlock, supervisorVars
<1>6. ASSUME NEW t \in Threads, TakeResponse(t) PROVE OrphanHasReaper'
  BY <1>6 DEF TakeResponse, Goto, supervisorVars
<1>7. ASSUME NEW t \in Threads, Timeout(t) PROVE OrphanHasReaper'
  BY <1>7 DEF Timeout, Goto, supervisorVars
<1>8. ASSUME NEW t \in Threads, ReadStatus(t) PROVE OrphanHasReaper'
  BY <1>8 DEF ReadStatus, Goto, supervisorVars
<1>9. ASSUME NEW t \in Threads, RegisterWritesFails(t) PROVE OrphanHasReaper'
  BY <1>9 DEF RegisterWritesFails, Goto, Return, Unlock, supervisorVars
<1>10. ASSUME NEW t \in Threads, AppendOperation(t) PROVE OrphanHasReaper'
  BY <1>10 DEF AppendOperation, Goto, AppendLog, RecordStatus, supervisorVars
<1>11. ASSUME NEW t \in Threads, AppendFails(t) PROVE OrphanHasReaper'
  BY <1>11 DEF AppendFails, Goto, Return, Unlock, AppendLog, RecordStatus, supervisorVars
<1>12. ASSUME NEW t \in Threads, Commit(t) PROVE OrphanHasReaper'
  BY <1>12 DEF Commit, Goto, Return, Unlock, SetOp, RecordStatus, supervisorVars
<1>13. ASSUME NEW t \in Threads, NEW k \in Finishers, BeginFinish(t, k)
       PROVE OrphanHasReaper'
  BY <1>13 DEF BeginFinish, Goto, supervisorVars
<1>14. ASSUME NEW t \in Threads, RecheckClose(t) PROVE OrphanHasReaper'
  BY <1>14 DEF RecheckClose, Goto, Return, Unlock
<1>15. ASSUME NEW t \in Threads, RecheckKill(t) PROVE OrphanHasReaper'
  BY <1>15 DEF RecheckKill, Goto, supervisorVars
<1>16. ASSUME NEW t \in Threads, KillRemove(t) PROVE OrphanHasReaper'
  BY <1>16 DEF KillRemove, Goto, RemoveWorker, AfterKill
<1>17. ASSUME NEW t \in Threads, KillReap(t) PROVE OrphanHasReaper'
  BY <1>17 DEF KillReap, Goto, KillChild, AfterKill
<1>18. ASSUME NEW t \in Threads, MarkError(t) PROVE OrphanHasReaper'
  BY <1>18 DEF MarkError, Goto, Return, Unlock, supervisorVars
<1>19. ASSUME NEW t \in Threads, CloseRemove(t) PROVE OrphanHasReaper'
  BY <1>19 DEF CloseRemove, Goto, RemoveWorker
<1>20. ASSUME NEW t \in Threads, CloseReap(t) PROVE OrphanHasReaper'
  BY <1>20 DEF CloseReap, Goto, WaitChild, supervisorVars
<1>21. ASSUME NEW t \in Threads, RecordFinish(t) PROVE OrphanHasReaper'
  BY <1>21 DEF RecordFinish, Goto, AppendLog, supervisorVars
<1>22. ASSUME NEW t \in Threads, RecordFinishFails(t) PROVE OrphanHasReaper'
  BY <1>22 DEF RecordFinishFails, Goto, Return, Unlock, supervisorVars
<1>23. ASSUME NEW t \in Threads, CommitFinish(t) PROVE OrphanHasReaper'
  BY <1>23 DEF CommitFinish, Goto, Return, Unlock, SetOp, supervisorVars
<1>24. ASSUME NEW t \in Threads, NEW x \in Threads \ {t}, BeginCancel(t, x)
       PROVE OrphanHasReaper'
  BY <1>24 DEF BeginCancel, Goto, SetOp, supervisorVars
<1>25. ASSUME NEW t \in Threads, CancelLookup(t) PROVE OrphanHasReaper'
  BY <1>25 DEF CancelLookup, Goto, supervisorVars
<1>26. ASSUME NEW t \in Threads, CancelTry(t) PROVE OrphanHasReaper'
  BY <1>26 DEF CancelTry, Goto
<1>27. ASSUME NEW t \in Threads, CancelNotified(t) PROVE OrphanHasReaper'
  BY <1>27 DEF CancelNotified, Goto, supervisorVars
<1>28. ASSUME NEW t \in Threads, CancelRecord(t) PROVE OrphanHasReaper'
  BY <1>28 DEF CancelRecord, Goto, AppendLog, supervisorVars
<1>29. ASSUME NEW t \in Threads, Lookup(t) PROVE OrphanHasReaper'
  BY <1>29 DEF Lookup, LookupWorker, sessionVars
<1>30. ASSUME NEW t \in Threads, Send(t) PROVE OrphanHasReaper'
  BY <1>30 DEF Send, LockTransport, sessionVars
<1>31. ASSUME NEW t \in Threads, AnswerCommand(t) PROVE OrphanHasReaper'
  BY <1>31 DEF AnswerCommand, WorkerAnswers, sessionVars
<1>32. ASSUME NEW t \in Threads, AnswerControl(t) PROVE OrphanHasReaper'
  BY <1>32 DEF AnswerControl, WorkerAnswers, sessionVars
<1>33. ASSUME NEW t \in Threads, Broken(t) PROVE OrphanHasReaper'
  BY <1>33 DEF Broken, PipeBroken, sessionVars
<1>34. CASE Crash
  BY <1>34 DEF Crash, WorkerCrash, sessionVars
<1>35. CASE Leave
  BY <1>35 DEF Leave, WorkerLeaves, sessionVars
<1>36. CASE UNCHANGED vars
  BY <1>36 DEF vars, supervisorVars, sessionVars
<1> QED
  BY <1>1, <1>2, <1>3, <1>4, <1>5, <1>6, <1>7, <1>8, <1>9, <1>10, <1>11, <1>12,
     <1>13, <1>14, <1>15, <1>16, <1>17, <1>18, <1>19, <1>20, <1>21, <1>22,
     <1>23, <1>24, <1>25, <1>26, <1>27, <1>28, <1>29, <1>30, <1>31, <1>32,
     <1>33, <1>34, <1>35, <1>36
  DEF Next, Begin, Progress, Faults, Request, Quiet

\* Every step keeps RequestInv.
LEMMA RequestStep ==
  ASSUME TypeOK, KindInv, RequestInv, [Next]_vars
  PROVE RequestInv'
<1> USE ThreadsAssumption
        DEF TypeOK, SupervisorTypeOK, Holder, KindInv, RequestInv, Commands, Finishers,
            Lockers, Terminal, SessionStates
<1>1. ASSUME NEW t \in Threads, NEW k \in Commands, BeginCommand(t, k) PROVE RequestInv'
  BY <1>1 DEF BeginCommand, Goto, supervisorVars
<1>2. ASSUME NEW t \in Threads, AcquireRequestLock(t) PROVE RequestInv'
  BY <1>2 DEF AcquireRequestLock, Goto, supervisorVars
<1>3. ASSUME NEW t \in Threads, RecheckCommand(t) PROVE RequestInv'
  BY <1>3 DEF RecheckCommand, Goto, Return, Unlock, supervisorVars
<1>4. ASSUME NEW t \in Threads, InsertRunning(t) PROVE RequestInv'
  BY <1>4 DEF InsertRunning, Goto, SetOp
<1>5. ASSUME NEW t \in Threads, OpenWorkspaceFails(t) PROVE RequestInv'
  BY <1>5 DEF OpenWorkspaceFails, Goto, Return, Unlock, supervisorVars
<1>6. ASSUME NEW t \in Threads, TakeResponse(t) PROVE RequestInv'
  BY <1>6 DEF TakeResponse, Goto, supervisorVars
<1>7. ASSUME NEW t \in Threads, Timeout(t) PROVE RequestInv'
  BY <1>7 DEF Timeout, Goto, supervisorVars
<1>8. ASSUME NEW t \in Threads, ReadStatus(t) PROVE RequestInv'
  BY <1>8 DEF ReadStatus, Goto, supervisorVars
<1>9. ASSUME NEW t \in Threads, RegisterWritesFails(t) PROVE RequestInv'
  BY <1>9 DEF RegisterWritesFails, Goto, Return, Unlock, supervisorVars
<1>10. ASSUME NEW t \in Threads, AppendOperation(t) PROVE RequestInv'
  BY <1>10 DEF AppendOperation, Goto, AppendLog, RecordStatus, supervisorVars
<1>11. ASSUME NEW t \in Threads, AppendFails(t) PROVE RequestInv'
  BY <1>11 DEF AppendFails, Goto, Return, Unlock, AppendLog, RecordStatus, supervisorVars
<1>12. ASSUME NEW t \in Threads, Commit(t) PROVE RequestInv'
  BY <1>12 DEF Commit, Goto, Return, Unlock, SetOp, RecordStatus, supervisorVars
<1>13. ASSUME NEW t \in Threads, NEW k \in Finishers, BeginFinish(t, k) PROVE RequestInv'
  BY <1>13 DEF BeginFinish, Goto, supervisorVars
<1>14. ASSUME NEW t \in Threads, RecheckClose(t) PROVE RequestInv'
  BY <1>14 DEF RecheckClose, Goto, Return, Unlock
<1>15. ASSUME NEW t \in Threads, RecheckKill(t) PROVE RequestInv'
  BY <1>15 DEF RecheckKill, Goto, supervisorVars
<1>16. ASSUME NEW t \in Threads, KillRemove(t) PROVE RequestInv'
  BY <1>16 DEF KillRemove, Goto, RemoveWorker, AfterKill
<1>17. ASSUME NEW t \in Threads, KillReap(t) PROVE RequestInv'
  BY <1>17 DEF KillReap, Goto, KillChild, AfterKill
<1>18. ASSUME NEW t \in Threads, MarkError(t) PROVE RequestInv'
  BY <1>18 DEF MarkError, Goto, Return, Unlock, supervisorVars
<1>19. ASSUME NEW t \in Threads, CloseRemove(t) PROVE RequestInv'
  BY <1>19 DEF CloseRemove, Goto, RemoveWorker
<1>20. ASSUME NEW t \in Threads, CloseReap(t) PROVE RequestInv'
  BY <1>20 DEF CloseReap, Goto, WaitChild, supervisorVars
<1>21. ASSUME NEW t \in Threads, RecordFinish(t) PROVE RequestInv'
  BY <1>21 DEF RecordFinish, Goto, AppendLog, supervisorVars
<1>22. ASSUME NEW t \in Threads, RecordFinishFails(t) PROVE RequestInv'
  BY <1>22 DEF RecordFinishFails, Goto, Return, Unlock, supervisorVars
<1>23. ASSUME NEW t \in Threads, CommitFinish(t) PROVE RequestInv'
  BY <1>23 DEF CommitFinish, Goto, Return, Unlock, SetOp, supervisorVars
<1>24. ASSUME NEW t \in Threads, NEW x \in Threads \ {t}, BeginCancel(t, x)
       PROVE RequestInv'
  BY <1>24 DEF BeginCancel, Goto, SetOp, supervisorVars
<1>25. ASSUME NEW t \in Threads, CancelLookup(t) PROVE RequestInv'
  BY <1>25 DEF CancelLookup, Goto, supervisorVars
<1>26. ASSUME NEW t \in Threads, CancelTry(t) PROVE RequestInv'
  <2>1. CASE transport = NoThread
    <3>1. kind[t] = "cancel" /\ UNCHANGED <<kind, sess>>
      BY <1>26 DEF CancelTry
    <3>2. /\ transport' = t /\ req'[t] = "waiting" /\ pc'[t] = "cancelAwait"
          /\ \A u \in Threads \ {t} : req'[u] = req[u] /\ pc'[u] = pc[u] /\ req[u] # "waiting"
      BY <1>26, <2>1 DEF CancelTry, Goto
    <3> QED BY <3>1, <3>2
  <2>2. CASE transport # NoThread
    BY <1>26, <2>2 DEF CancelTry, Goto
  <2> QED BY <2>1, <2>2
<1>27. ASSUME NEW t \in Threads, CancelNotified(t) PROVE RequestInv'
  BY <1>27 DEF CancelNotified, Goto, supervisorVars
<1>28. ASSUME NEW t \in Threads, CancelRecord(t) PROVE RequestInv'
  BY <1>28 DEF CancelRecord, Goto, AppendLog, supervisorVars
<1>29. ASSUME NEW t \in Threads, Lookup(t) PROVE RequestInv'
  BY <1>29 DEF Lookup, LookupWorker, sessionVars
<1>30. ASSUME NEW t \in Threads, Send(t) PROVE RequestInv'
  BY <1>30 DEF Send, LockTransport, sessionVars
<1>31. ASSUME NEW t \in Threads, AnswerCommand(t) PROVE RequestInv'
  BY <1>31 DEF AnswerCommand, WorkerAnswers, sessionVars
<1>32. ASSUME NEW t \in Threads, AnswerControl(t) PROVE RequestInv'
  BY <1>32 DEF AnswerControl, WorkerAnswers, sessionVars
<1>33. ASSUME NEW t \in Threads, Broken(t) PROVE RequestInv'
  BY <1>33 DEF Broken, PipeBroken, sessionVars
<1>34. CASE Crash
  BY <1>34 DEF Crash, WorkerCrash, sessionVars
<1>35. CASE Leave
  BY <1>35 DEF Leave, WorkerLeaves, sessionVars
<1>36. CASE UNCHANGED vars
  BY <1>36 DEF vars, supervisorVars, sessionVars
<1> QED
  BY <1>1, <1>2, <1>3, <1>4, <1>5, <1>6, <1>7, <1>8, <1>9, <1>10, <1>11, <1>12,
     <1>13, <1>14, <1>15, <1>16, <1>17, <1>18, <1>19, <1>20, <1>21, <1>22,
     <1>23, <1>24, <1>25, <1>26, <1>27, <1>28, <1>29, <1>30, <1>31, <1>32,
     <1>33, <1>34, <1>35, <1>36
  DEF Next, Begin, Progress, Faults, Request, Quiet

\* Every step keeps OpInv.
LEMMA OpStep ==
  ASSUME TypeOK, KindInv, OpInv, [Next]_vars
  PROVE OpInv'
<1> USE ThreadsAssumption
        DEF TypeOK, SupervisorTypeOK, KindInv, OpInv, Commands, Finishers, Lockers,
            Executing
<1>1. ASSUME NEW t \in Threads, NEW k \in Commands, BeginCommand(t, k) PROVE OpInv'
  BY <1>1 DEF BeginCommand, Goto, supervisorVars
<1>2. ASSUME NEW t \in Threads, AcquireRequestLock(t) PROVE OpInv'
  BY <1>2 DEF AcquireRequestLock, Goto, supervisorVars
<1>3. ASSUME NEW t \in Threads, RecheckCommand(t) PROVE OpInv'
  BY <1>3 DEF RecheckCommand, Goto, Return, Unlock, supervisorVars
<1>4. ASSUME NEW t \in Threads, InsertRunning(t) PROVE OpInv'
  BY <1>4 DEF InsertRunning, Goto, SetOp
<1>5. ASSUME NEW t \in Threads, OpenWorkspaceFails(t) PROVE OpInv'
  BY <1>5 DEF OpenWorkspaceFails, Goto, Return, Unlock, supervisorVars
<1>6. ASSUME NEW t \in Threads, TakeResponse(t) PROVE OpInv'
  BY <1>6 DEF TakeResponse, Goto, supervisorVars
<1>7. ASSUME NEW t \in Threads, Timeout(t) PROVE OpInv'
  BY <1>7 DEF Timeout, Goto, supervisorVars
<1>8. ASSUME NEW t \in Threads, ReadStatus(t) PROVE OpInv'
  BY <1>8 DEF ReadStatus, Goto, supervisorVars
<1>9. ASSUME NEW t \in Threads, RegisterWritesFails(t) PROVE OpInv'
  BY <1>9 DEF RegisterWritesFails, Goto, Return, Unlock, supervisorVars
<1>10. ASSUME NEW t \in Threads, AppendOperation(t) PROVE OpInv'
  BY <1>10 DEF AppendOperation, Goto, AppendLog, RecordStatus, supervisorVars
<1>11. ASSUME NEW t \in Threads, AppendFails(t) PROVE OpInv'
  BY <1>11 DEF AppendFails, Goto, Return, Unlock, AppendLog, RecordStatus, supervisorVars
<1>12. ASSUME NEW t \in Threads, Commit(t) PROVE OpInv'
  BY <1>12 DEF Commit, Goto, Return, Unlock, SetOp, RecordStatus, supervisorVars
<1>13. ASSUME NEW t \in Threads, NEW k \in Finishers, BeginFinish(t, k) PROVE OpInv'
  BY <1>13 DEF BeginFinish, Goto, supervisorVars
<1>14. ASSUME NEW t \in Threads, RecheckClose(t) PROVE OpInv'
  BY <1>14 DEF RecheckClose, Goto, Return, Unlock
<1>15. ASSUME NEW t \in Threads, RecheckKill(t) PROVE OpInv'
  BY <1>15 DEF RecheckKill, Goto, supervisorVars
<1>16. ASSUME NEW t \in Threads, KillRemove(t) PROVE OpInv'
  BY <1>16 DEF KillRemove, Goto, RemoveWorker, AfterKill
<1>17. ASSUME NEW t \in Threads, KillReap(t) PROVE OpInv'
  BY <1>17 DEF KillReap, Goto, KillChild, AfterKill
<1>18. ASSUME NEW t \in Threads, MarkError(t) PROVE OpInv'
  BY <1>18 DEF MarkError, Goto, Return, Unlock, supervisorVars
<1>19. ASSUME NEW t \in Threads, CloseRemove(t) PROVE OpInv'
  BY <1>19 DEF CloseRemove, Goto, RemoveWorker
<1>20. ASSUME NEW t \in Threads, CloseReap(t) PROVE OpInv'
  BY <1>20 DEF CloseReap, Goto, WaitChild, supervisorVars
<1>21. ASSUME NEW t \in Threads, RecordFinish(t) PROVE OpInv'
  BY <1>21 DEF RecordFinish, Goto, AppendLog, supervisorVars
<1>22. ASSUME NEW t \in Threads, RecordFinishFails(t) PROVE OpInv'
  BY <1>22 DEF RecordFinishFails, Goto, Return, Unlock, supervisorVars
<1>23. ASSUME NEW t \in Threads, CommitFinish(t) PROVE OpInv'
  BY <1>23 DEF CommitFinish, Goto, Return, Unlock, SetOp, supervisorVars
<1>24. ASSUME NEW t \in Threads, NEW x \in Threads \ {t}, BeginCancel(t, x) PROVE OpInv'
  BY <1>24 DEF BeginCancel, Goto, SetOp, supervisorVars
<1>25. ASSUME NEW t \in Threads, CancelLookup(t) PROVE OpInv'
  BY <1>25 DEF CancelLookup, Goto, supervisorVars
<1>26. ASSUME NEW t \in Threads, CancelTry(t) PROVE OpInv'
  BY <1>26 DEF CancelTry, Goto
<1>27. ASSUME NEW t \in Threads, CancelNotified(t) PROVE OpInv'
  BY <1>27 DEF CancelNotified, Goto, supervisorVars
<1>28. ASSUME NEW t \in Threads, CancelRecord(t) PROVE OpInv'
  BY <1>28 DEF CancelRecord, Goto, AppendLog, supervisorVars
<1>29. ASSUME NEW t \in Threads, Lookup(t) PROVE OpInv'
  BY <1>29 DEF Lookup, LookupWorker, sessionVars
<1>30. ASSUME NEW t \in Threads, Send(t) PROVE OpInv'
  BY <1>30 DEF Send, LockTransport, sessionVars
<1>31. ASSUME NEW t \in Threads, AnswerCommand(t) PROVE OpInv'
  BY <1>31 DEF AnswerCommand, WorkerAnswers, sessionVars
<1>32. ASSUME NEW t \in Threads, AnswerControl(t) PROVE OpInv'
  BY <1>32 DEF AnswerControl, WorkerAnswers, sessionVars
<1>33. ASSUME NEW t \in Threads, Broken(t) PROVE OpInv'
  BY <1>33 DEF Broken, PipeBroken, sessionVars
<1>34. CASE Crash
  BY <1>34 DEF Crash, WorkerCrash, sessionVars
<1>35. CASE Leave
  BY <1>35 DEF Leave, WorkerLeaves, sessionVars
<1>36. CASE UNCHANGED vars
  BY <1>36 DEF vars, supervisorVars, sessionVars
<1> QED
  BY <1>1, <1>2, <1>3, <1>4, <1>5, <1>6, <1>7, <1>8, <1>9, <1>10, <1>11, <1>12,
     <1>13, <1>14, <1>15, <1>16, <1>17, <1>18, <1>19, <1>20, <1>21, <1>22,
     <1>23, <1>24, <1>25, <1>26, <1>27, <1>28, <1>29, <1>30, <1>31, <1>32,
     <1>33, <1>34, <1>35, <1>36
  DEF Next, Begin, Progress, Faults, Request, Quiet

-----------------------------------------------------------------------------
(* Operations and their records                                            *)

\* Appending a record adds it to the file and keeps every other one.
LEMMA AppendLogFacts ==
  ASSUME TypeOK, NEW u \in Threads, NEW s \in Final, AppendLog(u, s)
  PROVE  /\ Logged(u, s)'
         /\ \A t \in Threads : \A r \in Final : Logged(t, r) => Logged(t, r)'
<1>1. /\ log'[u] = Append(log[u], s)
      /\ \A t \in Threads \ {u} : log'[t] = log[t]
  BY DEF TypeOK, AppendLog
<1>2. log[u] \in Seq(Final)
  BY DEF TypeOK
<1>3. /\ DOMAIN log'[u] = 1 .. Len(log[u]) + 1
      /\ log'[u][Len(log[u]) + 1] = s
      /\ \A i \in 1 .. Len(log[u]) : log'[u][i] = log[u][i]
  BY <1>1, <1>2, AppendProperties
<1>4. Len(log[u]) \in Nat /\ DOMAIN log[u] = 1 .. Len(log[u])
  BY <1>2
<1>5. Logged(u, s)'
  BY <1>3, <1>4 DEF Logged
<1>6. ASSUME NEW t \in Threads, NEW r \in Final, Logged(t, r) PROVE Logged(t, r)'
  <2>1. CASE t = u
    BY <2>1, <1>3, <1>4, <1>6 DEF Logged
  <2>2. CASE t # u
    BY <2>2, <1>1, <1>6 DEF Logged
  <2> QED BY <2>1, <2>2
<1> QED BY <1>5, <1>6

\* A step that leaves the file alone leaves its records alone.
LEMMA SameLog ==
  ASSUME UNCHANGED log
  PROVE  \A t, r : Logged(t, r)' <=> Logged(t, r)
BY DEF Logged

\* Every step keeps LogInv: records are never taken back.
LEMMA LogStep ==
  ASSUME TypeOK, KindInv, LogInv, [Next]_vars
  PROVE  LogInv'
<1> USE ThreadsAssumption DEF TypeOK, LogInv
<1>1. ASSUME NEW t \in Threads, NEW k \in Commands, BeginCommand(t, k) PROVE LogInv'
  BY <1>1, SameLog DEF RecordStatus, BeginCommand, Goto, supervisorVars
<1>2. ASSUME NEW t \in Threads, AcquireRequestLock(t) PROVE LogInv'
  BY <1>2, SameLog DEF RecordStatus, AcquireRequestLock, Goto, supervisorVars
<1>3. ASSUME NEW t \in Threads, RecheckCommand(t) PROVE LogInv'
  BY <1>3, SameLog DEF RecordStatus, RecheckCommand, Goto, Return, Unlock, supervisorVars
<1>4. ASSUME NEW t \in Threads, InsertRunning(t) PROVE LogInv'
  BY <1>4, SameLog DEF RecordStatus, InsertRunning, Goto, SetOp
<1>5. ASSUME NEW t \in Threads, OpenWorkspaceFails(t) PROVE LogInv'
  BY <1>5, SameLog
  DEF RecordStatus, OpenWorkspaceFails, Goto, Return, Unlock, supervisorVars
<1>6. ASSUME NEW t \in Threads, TakeResponse(t) PROVE LogInv'
  BY <1>6, SameLog DEF RecordStatus, TakeResponse, Goto, supervisorVars
<1>7. ASSUME NEW t \in Threads, Timeout(t) PROVE LogInv'
  BY <1>7, SameLog DEF RecordStatus, Timeout, Goto, supervisorVars
<1>8. ASSUME NEW t \in Threads, ReadStatus(t) PROVE LogInv'
  BY <1>8, SameLog DEF RecordStatus, ReadStatus, Goto, supervisorVars
<1>9. ASSUME NEW t \in Threads, RegisterWritesFails(t) PROVE LogInv'
  BY <1>9, SameLog
  DEF RecordStatus, RegisterWritesFails, Goto, Return, Unlock, supervisorVars
<1>10. ASSUME NEW t \in Threads, AppendOperation(t) PROVE LogInv'
  <2>1. PICK s \in Final : s = RecordStatus(t)
    BY RecordStatusType
  <2>2. /\ Logged(t, s)'
        /\ \A u \in Threads : \A r \in Final : Logged(u, r) => Logged(u, r)'
    BY <1>10, <2>1, AppendLogFacts DEF AppendOperation
  <2>3. \A u \in Threads : RecordStatus(u)' = RecordStatus(u)
    BY <1>10 DEF RecordStatus, AppendOperation
  <2>4. "Success" \in Final /\ \A u \in Threads : RecordStatus(u) \in Final
    BY RecordStatusType DEF Final
  <2> QED BY <1>10, <2>1, <2>2, <2>3, <2>4 DEF AppendOperation, Goto
<1>11. ASSUME NEW t \in Threads, AppendFails(t) PROVE LogInv'
  <2>1. "Success" \in Final /\ \A u \in Threads : RecordStatus(u) \in Final
    BY RecordStatusType DEF Final
  <2>2. \A u \in Threads : \A r \in Final : Logged(u, r) => Logged(u, r)'
    BY <1>11, <2>1, AppendLogFacts, SameLog DEF AppendFails
  <2>3. \A u \in Threads : RecordStatus(u)' = RecordStatus(u)
    BY <1>11 DEF RecordStatus, AppendFails, RecordFinish, CancelRecord
  <2> QED BY <1>11, <2>1, <2>2, <2>3 DEF AppendFails, Return, Goto
<1>12. ASSUME NEW t \in Threads, Commit(t) PROVE LogInv'
  BY <1>12, SameLog DEF RecordStatus, Commit, Goto, Return, Unlock, SetOp, supervisorVars
<1>13. ASSUME NEW t \in Threads, NEW k \in Finishers, BeginFinish(t, k) PROVE LogInv'
  BY <1>13, SameLog DEF RecordStatus, BeginFinish, Goto, supervisorVars
<1>14. ASSUME NEW t \in Threads, RecheckClose(t) PROVE LogInv'
  BY <1>14, SameLog DEF RecordStatus, RecheckClose, Goto, Return, Unlock
<1>15. ASSUME NEW t \in Threads, RecheckKill(t) PROVE LogInv'
  BY <1>15, SameLog DEF RecordStatus, RecheckKill, Goto, supervisorVars
<1>16. ASSUME NEW t \in Threads, KillRemove(t) PROVE LogInv'
  BY <1>16, SameLog DEF RecordStatus, KillRemove, Goto, RemoveWorker, AfterKill
<1>17. ASSUME NEW t \in Threads, KillReap(t) PROVE LogInv'
  BY <1>17, SameLog DEF RecordStatus, KillReap, Goto, KillChild, AfterKill
<1>18. ASSUME NEW t \in Threads, MarkError(t) PROVE LogInv'
  BY <1>18, SameLog DEF RecordStatus, MarkError, Goto, Return, Unlock, supervisorVars
<1>19. ASSUME NEW t \in Threads, CloseRemove(t) PROVE LogInv'
  BY <1>19, SameLog DEF RecordStatus, CloseRemove, Goto, RemoveWorker
<1>20. ASSUME NEW t \in Threads, CloseReap(t) PROVE LogInv'
  BY <1>20, SameLog DEF RecordStatus, CloseReap, Goto, WaitChild, supervisorVars
<1>21. ASSUME NEW t \in Threads, RecordFinish(t) PROVE LogInv'
  <2>1. "Success" \in Final /\ \A u \in Threads : RecordStatus(u) \in Final
    BY RecordStatusType DEF Final
  <2>2. /\ Logged(t, "Success")'
        /\ \A u \in Threads : \A r \in Final : Logged(u, r) => Logged(u, r)'
    BY <1>21, <2>1, AppendLogFacts DEF RecordFinish
  <2>3. \A u \in Threads : RecordStatus(u)' = RecordStatus(u)
    BY <1>21 DEF RecordStatus, AppendFails, RecordFinish, CancelRecord
  <2> QED BY <1>21, <2>1, <2>2, <2>3 DEF RecordFinish, Goto
<1>22. ASSUME NEW t \in Threads, RecordFinishFails(t) PROVE LogInv'
  BY <1>22, SameLog
  DEF RecordStatus, RecordFinishFails, Goto, Return, Unlock, supervisorVars
<1>23. ASSUME NEW t \in Threads, CommitFinish(t) PROVE LogInv'
  BY <1>23, SameLog
  DEF RecordStatus, CommitFinish, Goto, Return, Unlock, SetOp, supervisorVars
<1>24. ASSUME NEW t \in Threads, NEW x \in Threads \ {t}, BeginCancel(t, x) PROVE LogInv'
  BY <1>24, SameLog DEF RecordStatus, BeginCancel, Goto, SetOp, supervisorVars
<1>25. ASSUME NEW t \in Threads, CancelLookup(t) PROVE LogInv'
  BY <1>25, SameLog DEF RecordStatus, CancelLookup, Goto, supervisorVars
<1>26. ASSUME NEW t \in Threads, CancelTry(t) PROVE LogInv'
  BY <1>26, SameLog DEF RecordStatus, CancelTry, Goto
<1>27. ASSUME NEW t \in Threads, CancelNotified(t) PROVE LogInv'
  BY <1>27, SameLog DEF RecordStatus, CancelNotified, Goto, supervisorVars
<1>28. ASSUME NEW t \in Threads, CancelRecord(t) PROVE LogInv'
  <2>1. /\ target[t] \in Threads
        /\ {"Canceled", "Success"} \subseteq Final
        /\ \A u \in Threads : RecordStatus(u) \in Final
    BY <1>28, RecordStatusType DEF CancelRecord, KindInv, Final
  <2>2. \A u \in Threads : \A r \in Final : Logged(u, r) => Logged(u, r)'
    BY <1>28, <2>1, AppendLogFacts, SameLog DEF CancelRecord
  <2>3. \A u \in Threads : RecordStatus(u)' = RecordStatus(u)
    BY <1>28 DEF RecordStatus, AppendFails, RecordFinish, CancelRecord
  <2> QED BY <1>28, <2>1, <2>2, <2>3 DEF CancelRecord, Goto
<1>29. ASSUME NEW t \in Threads, Lookup(t) PROVE LogInv'
  BY <1>29, SameLog DEF RecordStatus, Lookup, LookupWorker, sessionVars
<1>30. ASSUME NEW t \in Threads, Send(t) PROVE LogInv'
  BY <1>30, SameLog DEF RecordStatus, Send, LockTransport, sessionVars
<1>31. ASSUME NEW t \in Threads, AnswerCommand(t) PROVE LogInv'
  BY <1>31, SameLog DEF RecordStatus, AnswerCommand, WorkerAnswers, sessionVars
<1>32. ASSUME NEW t \in Threads, AnswerControl(t) PROVE LogInv'
  BY <1>32, SameLog DEF RecordStatus, AnswerControl, WorkerAnswers, sessionVars
<1>33. ASSUME NEW t \in Threads, Broken(t) PROVE LogInv'
  BY <1>33, SameLog DEF RecordStatus, Broken, PipeBroken, sessionVars
<1>34. CASE Crash
  BY <1>34, SameLog DEF RecordStatus, Crash, WorkerCrash, sessionVars
<1>35. CASE Leave
  BY <1>35, SameLog DEF RecordStatus, Leave, WorkerLeaves, sessionVars
<1>36. CASE UNCHANGED vars
  BY <1>36 DEF vars, sessionVars, Logged, RecordStatus
<1> QED
  BY <1>1, <1>2, <1>3, <1>4, <1>5, <1>6, <1>7, <1>8, <1>9, <1>10, <1>11, <1>12,
     <1>13, <1>14, <1>15, <1>16, <1>17, <1>18, <1>19, <1>20, <1>21, <1>22,
     <1>23, <1>24, <1>25, <1>26, <1>27, <1>28, <1>29, <1>30, <1>31, <1>32,
     <1>33, <1>34, <1>35, <1>36
  DEF Next, Begin, Progress, Faults, Request, Quiet

\* Every step keeps WriteAhead: only Commit and CommitFinish store an outcome,
\* and LogInv says that its record is there.
LEMMA WriteAheadStep ==
  ASSUME TypeOK, KindInv, LogInv, WriteAhead, [Next]_vars
  PROVE  WriteAhead'
<1> USE ThreadsAssumption DEF TypeOK, WriteAhead
<1>1. ASSUME NEW t \in Threads, NEW k \in Commands, BeginCommand(t, k) PROVE WriteAhead'
  BY <1>1, SameLog DEF BeginCommand, Goto, supervisorVars
<1>2. ASSUME NEW t \in Threads, AcquireRequestLock(t) PROVE WriteAhead'
  BY <1>2, SameLog DEF AcquireRequestLock, Goto, supervisorVars
<1>3. ASSUME NEW t \in Threads, RecheckCommand(t) PROVE WriteAhead'
  BY <1>3, SameLog DEF RecheckCommand, Goto, Return, Unlock, supervisorVars
<1>4. ASSUME NEW t \in Threads, InsertRunning(t) PROVE WriteAhead'
  BY <1>4, SameLog DEF InsertRunning, Goto, SetOp
<1>5. ASSUME NEW t \in Threads, OpenWorkspaceFails(t) PROVE WriteAhead'
  BY <1>5, SameLog DEF OpenWorkspaceFails, Goto, Return, Unlock, supervisorVars
<1>6. ASSUME NEW t \in Threads, TakeResponse(t) PROVE WriteAhead'
  BY <1>6, SameLog DEF TakeResponse, Goto, supervisorVars
<1>7. ASSUME NEW t \in Threads, Timeout(t) PROVE WriteAhead'
  BY <1>7, SameLog DEF Timeout, Goto, supervisorVars
<1>8. ASSUME NEW t \in Threads, ReadStatus(t) PROVE WriteAhead'
  BY <1>8, SameLog DEF ReadStatus, Goto, supervisorVars
<1>9. ASSUME NEW t \in Threads, RegisterWritesFails(t) PROVE WriteAhead'
  BY <1>9, SameLog DEF RegisterWritesFails, Goto, Return, Unlock, supervisorVars
<1>10. ASSUME NEW t \in Threads, AppendOperation(t) PROVE WriteAhead'
  <2>1. RecordStatus(t) \in Final /\ {"Success", "Failed"} \subseteq Final
    BY RecordStatusType DEF Final
  <2>2. \A u \in Threads : \A r \in Final : Logged(u, r) => Logged(u, r)'
    BY <1>10, <2>1, AppendLogFacts DEF AppendOperation
  <2> QED BY <1>10, <2>1, <2>2 DEF AppendOperation
<1>11. ASSUME NEW t \in Threads, AppendFails(t) PROVE WriteAhead'
  <2>1. RecordStatus(t) \in Final /\ {"Success", "Failed"} \subseteq Final
    BY RecordStatusType DEF Final
  <2>2. \A u \in Threads : \A r \in Final : Logged(u, r) => Logged(u, r)'
    BY <1>11, <2>1, AppendLogFacts, SameLog DEF AppendFails
  <2> QED BY <1>11, <2>1, <2>2 DEF AppendFails
<1>12. ASSUME NEW t \in Threads, Commit(t) PROVE WriteAhead'
  <2>1. RecordStatus(t) \in Final /\ Logged(t, RecordStatus(t))
    BY <1>12, RecordStatusType DEF Commit, LogInv
  <2>2. \A u, r : Logged(u, r)' <=> Logged(u, r)
    BY <1>12, SameLog DEF Commit
  <2>3. \A u \in Threads : op'[u] \in {"Success", "Failed"} =>
          Logged(u, op'[u])
    <3>1. CASE wasCanceled[t]
      BY <1>12, <3>1 DEF Commit
    <3>2. CASE ~wasCanceled[t]
      BY <1>12, <2>1, <3>2 DEF Commit, SetOp
    <3> QED BY <3>1, <3>2
  <2>4. \A u \in Threads : lastOp' = u => \E s \in Final : Logged(u, s)
    BY <1>12, <2>1 DEF Commit
  <2> QED BY <2>2, <2>3, <2>4
<1>13. ASSUME NEW t \in Threads, NEW k \in Finishers, BeginFinish(t, k) PROVE WriteAhead'
  BY <1>13, SameLog DEF BeginFinish, Goto, supervisorVars
<1>14. ASSUME NEW t \in Threads, RecheckClose(t) PROVE WriteAhead'
  BY <1>14, SameLog DEF RecheckClose, Goto, Return, Unlock
<1>15. ASSUME NEW t \in Threads, RecheckKill(t) PROVE WriteAhead'
  BY <1>15, SameLog DEF RecheckKill, Goto, supervisorVars
<1>16. ASSUME NEW t \in Threads, KillRemove(t) PROVE WriteAhead'
  BY <1>16, SameLog DEF KillRemove, Goto, RemoveWorker, AfterKill
<1>17. ASSUME NEW t \in Threads, KillReap(t) PROVE WriteAhead'
  BY <1>17, SameLog DEF KillReap, Goto, KillChild, AfterKill
<1>18. ASSUME NEW t \in Threads, MarkError(t) PROVE WriteAhead'
  BY <1>18, SameLog DEF MarkError, Goto, Return, Unlock, supervisorVars
<1>19. ASSUME NEW t \in Threads, CloseRemove(t) PROVE WriteAhead'
  BY <1>19, SameLog DEF CloseRemove, Goto, RemoveWorker
<1>20. ASSUME NEW t \in Threads, CloseReap(t) PROVE WriteAhead'
  BY <1>20, SameLog DEF CloseReap, Goto, WaitChild, supervisorVars
<1>21. ASSUME NEW t \in Threads, RecordFinish(t) PROVE WriteAhead'
  <2>1. {"Success", "Failed"} \subseteq Final
    BY DEF Final
  <2>2. \A u \in Threads : \A r \in Final : Logged(u, r) => Logged(u, r)'
    BY <1>21, <2>1, AppendLogFacts DEF RecordFinish
  <2> QED BY <1>21, <2>1, <2>2 DEF RecordFinish
<1>22. ASSUME NEW t \in Threads, RecordFinishFails(t) PROVE WriteAhead'
  BY <1>22, SameLog DEF RecordFinishFails, Goto, Return, Unlock, supervisorVars
<1>23. ASSUME NEW t \in Threads, CommitFinish(t) PROVE WriteAhead'
  <2>1. Logged(t, "Success") /\ "Success" \in Final
    BY <1>23 DEF CommitFinish, LogInv, Final
  <2> QED BY <1>23, <2>1, SameLog DEF CommitFinish, SetOp
<1>24. ASSUME NEW t \in Threads, NEW x \in Threads \ {t}, BeginCancel(t, x)
       PROVE WriteAhead'
  BY <1>24, SameLog DEF BeginCancel, Goto, SetOp, supervisorVars
<1>25. ASSUME NEW t \in Threads, CancelLookup(t) PROVE WriteAhead'
  BY <1>25, SameLog DEF CancelLookup, Goto, supervisorVars
<1>26. ASSUME NEW t \in Threads, CancelTry(t) PROVE WriteAhead'
  BY <1>26, SameLog DEF CancelTry, Goto
<1>27. ASSUME NEW t \in Threads, CancelNotified(t) PROVE WriteAhead'
  BY <1>27, SameLog DEF CancelNotified, Goto, supervisorVars
<1>28. ASSUME NEW t \in Threads, CancelRecord(t) PROVE WriteAhead'
  <2>1. target[t] \in Threads /\ {"Canceled", "Success", "Failed"} \subseteq Final
    BY <1>28 DEF CancelRecord, KindInv, Final
  <2>2. \A u \in Threads : \A r \in Final : Logged(u, r) => Logged(u, r)'
    BY <1>28, <2>1, AppendLogFacts, SameLog DEF CancelRecord
  <2> QED BY <1>28, <2>1, <2>2 DEF CancelRecord
<1>29. ASSUME NEW t \in Threads, Lookup(t) PROVE WriteAhead'
  BY <1>29, SameLog DEF Lookup, LookupWorker, sessionVars
<1>30. ASSUME NEW t \in Threads, Send(t) PROVE WriteAhead'
  BY <1>30, SameLog DEF Send, LockTransport, sessionVars
<1>31. ASSUME NEW t \in Threads, AnswerCommand(t) PROVE WriteAhead'
  BY <1>31, SameLog DEF AnswerCommand, WorkerAnswers, sessionVars
<1>32. ASSUME NEW t \in Threads, AnswerControl(t) PROVE WriteAhead'
  BY <1>32, SameLog DEF AnswerControl, WorkerAnswers, sessionVars
<1>33. ASSUME NEW t \in Threads, Broken(t) PROVE WriteAhead'
  BY <1>33, SameLog DEF Broken, PipeBroken, sessionVars
<1>34. CASE Crash
  BY <1>34, SameLog DEF Crash, WorkerCrash, sessionVars
<1>35. CASE Leave
  BY <1>35, SameLog DEF Leave, WorkerLeaves, sessionVars
<1>36. CASE UNCHANGED vars
  BY <1>36 DEF vars, sessionVars, Logged
<1> QED
  BY <1>1, <1>2, <1>3, <1>4, <1>5, <1>6, <1>7, <1>8, <1>9, <1>10, <1>11, <1>12,
     <1>13, <1>14, <1>15, <1>16, <1>17, <1>18, <1>19, <1>20, <1>21, <1>22,
     <1>23, <1>24, <1>25, <1>26, <1>27, <1>28, <1>29, <1>30, <1>31, <1>32,
     <1>33, <1>34, <1>35, <1>36
  DEF Next, Begin, Progress, Faults, Request, Quiet

-----------------------------------------------------------------------------
(* Action properties and refinement                                        *)
\* No step leaves Terminal: MarkError and CommitFinish alone write sess.
LEMMA RevivedStep ==
  ASSUME TypeOK, [Next]_vars
  PROVE  sess \in Terminal => sess' \in Terminal
<1> SUFFICES ASSUME sess \in Terminal PROVE sess' \in Terminal
  OBVIOUS
<1> USE DEF Terminal
<1>1. ASSUME NEW t \in Threads, NEW k \in Commands, BeginCommand(t, k)
      PROVE sess' \in Terminal
  BY <1>1 DEF BeginCommand, Goto, supervisorVars
<1>2. ASSUME NEW t \in Threads, AcquireRequestLock(t) PROVE sess' \in Terminal
  BY <1>2 DEF AcquireRequestLock, Goto, supervisorVars
<1>3. ASSUME NEW t \in Threads, RecheckCommand(t) PROVE sess' \in Terminal
  BY <1>3 DEF RecheckCommand, Goto, Return, Unlock, supervisorVars
<1>4. ASSUME NEW t \in Threads, InsertRunning(t) PROVE sess' \in Terminal
  BY <1>4 DEF InsertRunning, Goto, SetOp
<1>5. ASSUME NEW t \in Threads, OpenWorkspaceFails(t) PROVE sess' \in Terminal
  BY <1>5 DEF OpenWorkspaceFails, Goto, Return, Unlock, supervisorVars
<1>6. ASSUME NEW t \in Threads, TakeResponse(t) PROVE sess' \in Terminal
  BY <1>6 DEF TakeResponse, Goto, supervisorVars
<1>7. ASSUME NEW t \in Threads, Timeout(t) PROVE sess' \in Terminal
  BY <1>7 DEF Timeout, Goto, supervisorVars
<1>8. ASSUME NEW t \in Threads, ReadStatus(t) PROVE sess' \in Terminal
  BY <1>8 DEF ReadStatus, Goto, supervisorVars
<1>9. ASSUME NEW t \in Threads, RegisterWritesFails(t) PROVE sess' \in Terminal
  BY <1>9 DEF RegisterWritesFails, Goto, Return, Unlock, supervisorVars
<1>10. ASSUME NEW t \in Threads, AppendOperation(t) PROVE sess' \in Terminal
  BY <1>10 DEF AppendOperation, Goto, AppendLog, RecordStatus, supervisorVars
<1>11. ASSUME NEW t \in Threads, AppendFails(t) PROVE sess' \in Terminal
  BY <1>11 DEF AppendFails, Goto, Return, Unlock, AppendLog, RecordStatus, supervisorVars
<1>12. ASSUME NEW t \in Threads, Commit(t) PROVE sess' \in Terminal
  BY <1>12 DEF Commit, Goto, Return, Unlock, SetOp, RecordStatus, supervisorVars
<1>13. ASSUME NEW t \in Threads, NEW k \in Finishers, BeginFinish(t, k)
       PROVE sess' \in Terminal
  BY <1>13 DEF BeginFinish, Goto, supervisorVars
<1>14. ASSUME NEW t \in Threads, RecheckClose(t) PROVE sess' \in Terminal
  BY <1>14 DEF RecheckClose, Goto, Return, Unlock
<1>15. ASSUME NEW t \in Threads, RecheckKill(t) PROVE sess' \in Terminal
  BY <1>15 DEF RecheckKill, Goto, supervisorVars
<1>16. ASSUME NEW t \in Threads, KillRemove(t) PROVE sess' \in Terminal
  BY <1>16 DEF KillRemove, Goto, RemoveWorker, AfterKill
<1>17. ASSUME NEW t \in Threads, KillReap(t) PROVE sess' \in Terminal
  BY <1>17 DEF KillReap, Goto, KillChild, AfterKill
<1>18. ASSUME NEW t \in Threads, MarkError(t) PROVE sess' \in Terminal
  BY <1>18 DEF MarkError, Goto, Return, Unlock, supervisorVars
<1>19. ASSUME NEW t \in Threads, CloseRemove(t) PROVE sess' \in Terminal
  BY <1>19 DEF CloseRemove, Goto, RemoveWorker
<1>20. ASSUME NEW t \in Threads, CloseReap(t) PROVE sess' \in Terminal
  BY <1>20 DEF CloseReap, Goto, WaitChild, supervisorVars
<1>21. ASSUME NEW t \in Threads, RecordFinish(t) PROVE sess' \in Terminal
  BY <1>21 DEF RecordFinish, Goto, AppendLog, supervisorVars
<1>22. ASSUME NEW t \in Threads, RecordFinishFails(t) PROVE sess' \in Terminal
  BY <1>22 DEF RecordFinishFails, Goto, Return, Unlock, supervisorVars
<1>23. ASSUME NEW t \in Threads, CommitFinish(t) PROVE sess' \in Terminal
  BY <1>23 DEF CommitFinish, Goto, Return, Unlock, SetOp, supervisorVars
<1>24. ASSUME NEW t \in Threads, NEW x \in Threads \ {t}, BeginCancel(t, x)
       PROVE sess' \in Terminal
  BY <1>24 DEF BeginCancel, Goto, SetOp, supervisorVars
<1>25. ASSUME NEW t \in Threads, CancelLookup(t) PROVE sess' \in Terminal
  BY <1>25 DEF CancelLookup, Goto, supervisorVars
<1>26. ASSUME NEW t \in Threads, CancelTry(t) PROVE sess' \in Terminal
  BY <1>26 DEF CancelTry, Goto
<1>27. ASSUME NEW t \in Threads, CancelNotified(t) PROVE sess' \in Terminal
  BY <1>27 DEF CancelNotified, Goto, supervisorVars
<1>28. ASSUME NEW t \in Threads, CancelRecord(t) PROVE sess' \in Terminal
  BY <1>28 DEF CancelRecord, Goto, AppendLog, supervisorVars
<1>29. ASSUME NEW t \in Threads, Lookup(t) PROVE sess' \in Terminal
  BY <1>29 DEF Lookup, LookupWorker, sessionVars
<1>30. ASSUME NEW t \in Threads, Send(t) PROVE sess' \in Terminal
  BY <1>30 DEF Send, LockTransport, sessionVars
<1>31. ASSUME NEW t \in Threads, AnswerCommand(t) PROVE sess' \in Terminal
  BY <1>31 DEF AnswerCommand, WorkerAnswers, sessionVars
<1>32. ASSUME NEW t \in Threads, AnswerControl(t) PROVE sess' \in Terminal
  BY <1>32 DEF AnswerControl, WorkerAnswers, sessionVars
<1>33. ASSUME NEW t \in Threads, Broken(t) PROVE sess' \in Terminal
  BY <1>33 DEF Broken, PipeBroken, sessionVars
<1>34. CASE Crash
  BY <1>34 DEF Crash, WorkerCrash, sessionVars
<1>35. CASE Leave
  BY <1>35 DEF Leave, WorkerLeaves, sessionVars
<1>36. CASE UNCHANGED vars
  BY <1>36 DEF vars, supervisorVars, sessionVars
<1> QED
  BY <1>1, <1>2, <1>3, <1>4, <1>5, <1>6, <1>7, <1>8, <1>9, <1>10, <1>11, <1>12,
     <1>13, <1>14, <1>15, <1>16, <1>17, <1>18, <1>19, <1>20, <1>21, <1>22,
     <1>23, <1>24, <1>25, <1>26, <1>27, <1>28, <1>29, <1>30, <1>31, <1>32,
     <1>33, <1>34, <1>35, <1>36
  DEF Next, Begin, Progress, Faults, Request, Quiet

\* The steps that write op find the operation absent, Running or Canceled
\* (OpInv).
LEMMA OutcomeStep ==
  ASSUME IInv, [Next]_vars
  PROVE  \A u \in Threads : op[u] \in {"Success", "Failed"} => op'[u] = op[u]
<1> SUFFICES ASSUME NEW u \in Threads, op[u] \in {"Success", "Failed"}
             PROVE  op'[u] = op[u]
  OBVIOUS
<1> USE DEF IInv, TypeOK, KindInv, OpInv, Commands, Finishers, Lockers, Executing
<1>1. ASSUME NEW t \in Threads, NEW k \in Commands, BeginCommand(t, k) PROVE op'[u] = op[u]
  BY <1>1 DEF BeginCommand, Goto, supervisorVars
<1>2. ASSUME NEW t \in Threads, AcquireRequestLock(t) PROVE op'[u] = op[u]
  BY <1>2 DEF AcquireRequestLock, Goto, supervisorVars
<1>3. ASSUME NEW t \in Threads, RecheckCommand(t) PROVE op'[u] = op[u]
  BY <1>3 DEF RecheckCommand, Goto, Return, Unlock, supervisorVars
<1>4. ASSUME NEW t \in Threads, InsertRunning(t) PROVE op'[u] = op[u]
  BY <1>4 DEF InsertRunning, Goto, SetOp
<1>5. ASSUME NEW t \in Threads, OpenWorkspaceFails(t) PROVE op'[u] = op[u]
  BY <1>5 DEF OpenWorkspaceFails, Goto, Return, Unlock, supervisorVars
<1>6. ASSUME NEW t \in Threads, TakeResponse(t) PROVE op'[u] = op[u]
  BY <1>6 DEF TakeResponse, Goto, supervisorVars
<1>7. ASSUME NEW t \in Threads, Timeout(t) PROVE op'[u] = op[u]
  BY <1>7 DEF Timeout, Goto, supervisorVars
<1>8. ASSUME NEW t \in Threads, ReadStatus(t) PROVE op'[u] = op[u]
  BY <1>8 DEF ReadStatus, Goto, supervisorVars
<1>9. ASSUME NEW t \in Threads, RegisterWritesFails(t) PROVE op'[u] = op[u]
  BY <1>9 DEF RegisterWritesFails, Goto, Return, Unlock, supervisorVars
<1>10. ASSUME NEW t \in Threads, AppendOperation(t) PROVE op'[u] = op[u]
  BY <1>10 DEF AppendOperation, Goto, AppendLog, RecordStatus, supervisorVars
<1>11. ASSUME NEW t \in Threads, AppendFails(t) PROVE op'[u] = op[u]
  BY <1>11 DEF AppendFails, Goto, Return, Unlock, AppendLog, RecordStatus, supervisorVars
<1>12. ASSUME NEW t \in Threads, Commit(t) PROVE op'[u] = op[u]
  BY <1>12 DEF Commit, Goto, Return, Unlock, SetOp, RecordStatus, supervisorVars
<1>13. ASSUME NEW t \in Threads, NEW k \in Finishers, BeginFinish(t, k) PROVE op'[u] = op[u]
  BY <1>13 DEF BeginFinish, Goto, supervisorVars
<1>14. ASSUME NEW t \in Threads, RecheckClose(t) PROVE op'[u] = op[u]
  BY <1>14 DEF RecheckClose, Goto, Return, Unlock
<1>15. ASSUME NEW t \in Threads, RecheckKill(t) PROVE op'[u] = op[u]
  BY <1>15 DEF RecheckKill, Goto, supervisorVars
<1>16. ASSUME NEW t \in Threads, KillRemove(t) PROVE op'[u] = op[u]
  BY <1>16 DEF KillRemove, Goto, RemoveWorker, AfterKill
<1>17. ASSUME NEW t \in Threads, KillReap(t) PROVE op'[u] = op[u]
  BY <1>17 DEF KillReap, Goto, KillChild, AfterKill
<1>18. ASSUME NEW t \in Threads, MarkError(t) PROVE op'[u] = op[u]
  BY <1>18 DEF MarkError, Goto, Return, Unlock, supervisorVars
<1>19. ASSUME NEW t \in Threads, CloseRemove(t) PROVE op'[u] = op[u]
  BY <1>19 DEF CloseRemove, Goto, RemoveWorker
<1>20. ASSUME NEW t \in Threads, CloseReap(t) PROVE op'[u] = op[u]
  BY <1>20 DEF CloseReap, Goto, WaitChild, supervisorVars
<1>21. ASSUME NEW t \in Threads, RecordFinish(t) PROVE op'[u] = op[u]
  BY <1>21 DEF RecordFinish, Goto, AppendLog, supervisorVars
<1>22. ASSUME NEW t \in Threads, RecordFinishFails(t) PROVE op'[u] = op[u]
  BY <1>22 DEF RecordFinishFails, Goto, Return, Unlock, supervisorVars
<1>23. ASSUME NEW t \in Threads, CommitFinish(t) PROVE op'[u] = op[u]
  BY <1>23 DEF CommitFinish, Goto, Return, Unlock, SetOp, supervisorVars
<1>24. ASSUME NEW t \in Threads, NEW x \in Threads \ {t}, BeginCancel(t, x)
       PROVE op'[u] = op[u]
  BY <1>24 DEF BeginCancel, Goto, SetOp, supervisorVars
<1>25. ASSUME NEW t \in Threads, CancelLookup(t) PROVE op'[u] = op[u]
  BY <1>25 DEF CancelLookup, Goto, supervisorVars
<1>26. ASSUME NEW t \in Threads, CancelTry(t) PROVE op'[u] = op[u]
  BY <1>26 DEF CancelTry, Goto
<1>27. ASSUME NEW t \in Threads, CancelNotified(t) PROVE op'[u] = op[u]
  BY <1>27 DEF CancelNotified, Goto, supervisorVars
<1>28. ASSUME NEW t \in Threads, CancelRecord(t) PROVE op'[u] = op[u]
  BY <1>28 DEF CancelRecord, Goto, AppendLog, supervisorVars
<1>29. ASSUME NEW t \in Threads, Lookup(t) PROVE op'[u] = op[u]
  BY <1>29 DEF Lookup, LookupWorker, sessionVars
<1>30. ASSUME NEW t \in Threads, Send(t) PROVE op'[u] = op[u]
  BY <1>30 DEF Send, LockTransport, sessionVars
<1>31. ASSUME NEW t \in Threads, AnswerCommand(t) PROVE op'[u] = op[u]
  BY <1>31 DEF AnswerCommand, WorkerAnswers, sessionVars
<1>32. ASSUME NEW t \in Threads, AnswerControl(t) PROVE op'[u] = op[u]
  BY <1>32 DEF AnswerControl, WorkerAnswers, sessionVars
<1>33. ASSUME NEW t \in Threads, Broken(t) PROVE op'[u] = op[u]
  BY <1>33 DEF Broken, PipeBroken, sessionVars
<1>34. CASE Crash
  BY <1>34 DEF Crash, WorkerCrash, sessionVars
<1>35. CASE Leave
  BY <1>35 DEF Leave, WorkerLeaves, sessionVars
<1>36. CASE UNCHANGED vars
  BY <1>36 DEF vars, supervisorVars, sessionVars
<1> QED
  BY <1>1, <1>2, <1>3, <1>4, <1>5, <1>6, <1>7, <1>8, <1>9, <1>10, <1>11, <1>12,
     <1>13, <1>14, <1>15, <1>16, <1>17, <1>18, <1>19, <1>20, <1>21, <1>22,
     <1>23, <1>24, <1>25, <1>26, <1>27, <1>28, <1>29, <1>30, <1>31, <1>32,
     <1>33, <1>34, <1>35, <1>36
  DEF Next, Begin, Progress, Faults, Request, Quiet
\* What a step may do to the abstract session, read off IInv.
LEMMA ContractStep ==
  ASSUME IInv, [Next]_vars
  PROVE  [Contract!Next]_(Contract!contractVars)
<1> DEFINE Simulated == [Contract!Next]_(Contract!contractVars)
<1>0. /\ \A t \in Threads : requestLock = t <=> InCriticalSection(t)
      /\ ThreadsAssumption /\ requestLock \in Holder
  BY ThreadsAssumption DEF IInv, LockInv, TypeOK

<1> USE
        DEF Current, InCriticalSection, IInv, TypeOK, KindInv, OpInv, Commands, Finishers,
            Lockers, Holder, ThreadsAssumption, Contract!contractVars, Terminal, Reusable,
            SessionStates, Executing
<1>1. ASSUME NEW t \in Threads, NEW k \in Commands, BeginCommand(t, k) PROVE Simulated
  BY <1>0, <1>1 DEF BeginCommand, Goto, supervisorVars
<1>2. ASSUME NEW t \in Threads, AcquireRequestLock(t) PROVE Simulated
  BY <1>0, <1>2 DEF AcquireRequestLock, Goto, supervisorVars
<1>3. ASSUME NEW t \in Threads, RecheckCommand(t) PROVE Simulated
  BY <1>0, <1>3
  DEF RecheckCommand, Goto, Return, Unlock, Contract!Next, Contract!Accept, supervisorVars
<1>4. ASSUME NEW t \in Threads, InsertRunning(t) PROVE Simulated
  BY <1>0, <1>4, ZenonT(40) DEF InsertRunning, Goto, SetOp, Contract!Next, Contract!Start
<1>5. ASSUME NEW t \in Threads, OpenWorkspaceFails(t) PROVE Simulated
  BY <1>0, <1>5
  DEF OpenWorkspaceFails, Goto, Return, Unlock, Contract!Next, Contract!Complete,
      supervisorVars
<1>6. ASSUME NEW t \in Threads, TakeResponse(t) PROVE Simulated
  BY <1>0, <1>6 DEF TakeResponse, Goto, supervisorVars
<1>7. ASSUME NEW t \in Threads, Timeout(t) PROVE Simulated
  BY <1>0, <1>7 DEF Timeout, Goto, supervisorVars
<1>8. ASSUME NEW t \in Threads, ReadStatus(t) PROVE Simulated
  BY <1>0, <1>8 DEF ReadStatus, Goto, supervisorVars
<1>9. ASSUME NEW t \in Threads, RegisterWritesFails(t) PROVE Simulated
  BY <1>0, <1>9
  DEF RegisterWritesFails, Goto, Return, Unlock, Contract!Next, Contract!Complete,
      supervisorVars
<1>10. ASSUME NEW t \in Threads, AppendOperation(t) PROVE Simulated
  BY <1>0, <1>10 DEF AppendOperation, Goto, AppendLog, RecordStatus, supervisorVars
<1>11. ASSUME NEW t \in Threads, AppendFails(t) PROVE Simulated
  BY <1>0, <1>11
  DEF AppendFails, Goto, Return, Unlock, AppendLog, RecordStatus, Contract!Next,
      Contract!Complete, supervisorVars
<1>12. ASSUME NEW t \in Threads, Commit(t) PROVE Simulated
  BY <1>0, <1>12
  DEF Commit, Goto, Return, Unlock, SetOp, RecordStatus, Contract!Next, Contract!Complete,
      supervisorVars
<1>13. ASSUME NEW t \in Threads, NEW k \in Finishers, BeginFinish(t, k) PROVE Simulated
  <2>1. requestLock # t
    BY <1>0, <1>13 DEF BeginFinish
  <2>2. UNCHANGED <<sess, requestLock, op>> /\ \A u \in Threads \ {t} : pc'[u] = pc[u]
    BY <1>13 DEF BeginFinish, Goto
  <2> QED BY <1>0, <2>1, <2>2
<1>14. ASSUME NEW t \in Threads, RecheckClose(t) PROVE Simulated
  BY <1>0, <1>14 DEF RecheckClose, Goto, Return, Unlock, Contract!Next, Contract!Accept
<1>15. ASSUME NEW t \in Threads, RecheckKill(t) PROVE Simulated
  BY <1>0, <1>15 DEF RecheckKill, Goto, supervisorVars
<1>16. ASSUME NEW t \in Threads, KillRemove(t) PROVE Simulated
  BY <1>0, <1>16 DEF KillRemove, Goto, RemoveWorker, AfterKill
<1>17. ASSUME NEW t \in Threads, KillReap(t) PROVE Simulated
  BY <1>0, <1>17 DEF KillReap, Goto, KillChild, AfterKill
<1>18. ASSUME NEW t \in Threads, MarkError(t) PROVE Simulated
  BY <1>0, <1>18
  DEF MarkError, Goto, Return, Unlock, Contract!Next, Contract!BreakDown, supervisorVars
<1>19. ASSUME NEW t \in Threads, CloseRemove(t) PROVE Simulated
  BY <1>0, <1>19 DEF CloseRemove, Goto, RemoveWorker
<1>20. ASSUME NEW t \in Threads, CloseReap(t) PROVE Simulated
  BY <1>0, <1>20 DEF CloseReap, Goto, WaitChild, supervisorVars
<1>21. ASSUME NEW t \in Threads, RecordFinish(t) PROVE Simulated
  BY <1>0, <1>21 DEF RecordFinish, Goto, AppendLog, supervisorVars
<1>22. ASSUME NEW t \in Threads, RecordFinishFails(t) PROVE Simulated
  BY <1>0, <1>22
  DEF RecordFinishFails, Goto, Return, Unlock, Contract!Next, Contract!Complete,
      supervisorVars
<1>23. ASSUME NEW t \in Threads, CommitFinish(t) PROVE Simulated
  <2>1. op[t] = "none" /\ op' = [op EXCEPT ![t] = "Success"]
    BY <1>23 DEF CommitFinish, SetOp
  <2>2. sess' \notin Reusable
    BY <1>23 DEF CommitFinish
  <2>3. Current' = IF Current = t THEN NoThread ELSE Current
    <3>1. CASE requestLock = t
      BY <1>0, <1>23, <3>1 DEF CommitFinish, Return, Unlock
    <3>2. CASE requestLock # t
      BY <1>0, <1>23, <3>2 DEF CommitFinish, Return, Unlock, Goto
    <3> QED BY <3>1, <3>2
  <2>4. Contract!End(t)
    BY <2>1, <2>2, <2>3 DEF Contract!End
  <2> QED BY <2>4 DEF Contract!Next
<1>24. ASSUME NEW t \in Threads, NEW x \in Threads \ {t}, BeginCancel(t, x) PROVE Simulated
  BY <1>0, <1>24
  DEF BeginCancel, Goto, SetOp, Contract!Next, Contract!Cancel, supervisorVars
<1>25. ASSUME NEW t \in Threads, CancelLookup(t) PROVE Simulated
  BY <1>0, <1>25 DEF CancelLookup, Goto, supervisorVars
<1>26. ASSUME NEW t \in Threads, CancelTry(t) PROVE Simulated
  BY <1>0, <1>26 DEF CancelTry, Goto
<1>27. ASSUME NEW t \in Threads, CancelNotified(t) PROVE Simulated
  BY <1>0, <1>27 DEF CancelNotified, Goto, supervisorVars
<1>28. ASSUME NEW t \in Threads, CancelRecord(t) PROVE Simulated
  BY <1>0, <1>28 DEF CancelRecord, Goto, AppendLog, supervisorVars
<1>29. ASSUME NEW t \in Threads, Lookup(t) PROVE Simulated
  BY <1>0, <1>29 DEF Lookup, LookupWorker, sessionVars
<1>30. ASSUME NEW t \in Threads, Send(t) PROVE Simulated
  BY <1>0, <1>30 DEF Send, LockTransport, sessionVars
<1>31. ASSUME NEW t \in Threads, AnswerCommand(t) PROVE Simulated
  BY <1>0, <1>31 DEF AnswerCommand, WorkerAnswers, sessionVars
<1>32. ASSUME NEW t \in Threads, AnswerControl(t) PROVE Simulated
  BY <1>0, <1>32 DEF AnswerControl, WorkerAnswers, sessionVars
<1>33. ASSUME NEW t \in Threads, Broken(t) PROVE Simulated
  BY <1>0, <1>33 DEF Broken, PipeBroken, sessionVars
<1>34. CASE Crash
  BY <1>0, <1>34 DEF Crash, WorkerCrash, sessionVars
<1>35. CASE Leave
  BY <1>0, <1>35 DEF Leave, WorkerLeaves, sessionVars
<1>36. CASE UNCHANGED vars
  BY <1>36 DEF vars, supervisorVars, sessionVars
<1> QED
  BY <1>1, <1>2, <1>3, <1>4, <1>5, <1>6, <1>7, <1>8, <1>9, <1>10, <1>11, <1>12,
     <1>13, <1>14, <1>15, <1>16, <1>17, <1>18, <1>19, <1>20, <1>21, <1>22,
     <1>23, <1>24, <1>25, <1>26, <1>27, <1>28, <1>29, <1>30, <1>31, <1>32,
     <1>33, <1>34, <1>35, <1>36
  DEF Next, Begin, Progress, Faults, Request, Quiet
-----------------------------------------------------------------------------
(* The theorems                                                            *)

\* The session that debug.session.create hands over satisfies the invariant.
LEMMA InitIInv == Init => IInv
<1> SUFFICES ASSUME Init PROVE IInv
  OBVIOUS
<1> USE ThreadsAssumption DEF Init, SupervisorInit
<1>1. TypeOK
  BY DEF TypeOK, SupervisorTypeOK, Holder, ProcStates, ReqStates, Responses,
         SessionStates, OpStates, Final, PCs, Kinds
<1>2. KindInv /\ LockInv
  BY DEF KindInv, LockInv, InCriticalSection, Lockers, Commands
<1>3. RegistryInv /\ OrphanHasReaper /\ RequestInv
  BY DEF RegistryInv, TerminalUnregistered, Terminal, OrphanHasReaper, RequestInv
<1>4. OpInv /\ LogInv /\ WriteAhead
  BY DEF OpInv, LogInv, WriteAhead, Commands, Executing
<1> QED BY <1>1, <1>2, <1>3, <1>4 DEF IInv

LEMMA IInvStep == IInv /\ [Next]_vars => IInv'
BY TypeStep, KindStep, LockStep, RegistryStep, ReaperStep, RequestStep, OpStep, LogStep,
   WriteAheadStep DEF IInv

\* IInv holds in every reachable state, whatever the number of threads, whichever
\* RPCs they handle and wherever the workspace and the worker fail.
THEOREM Invariance == Spec => []IInv
BY InitIInv, IInvStep, PTL DEF Spec

\* The type invariant of the service's state and of its handlers' local state.
THEOREM TypeCorrect == Spec => []TypeOK
<1>1. IInv => TypeOK
  BY DEF IInv
<1> QED BY <1>1, Invariance, PTL

\* request_lock serialises what is asked of the debug engine; a request that has
\* lost its RPC to a timeout belongs to a session that is over.
THEOREM Serialised == Spec => []SerialisedRequests
<1>1. IInv => SerialisedRequests
  <2> SUFFICES ASSUME IInv, NEW t \in Threads, transport = t, kind[t] # "cancel"
               PROVE  requestLock = t \/ (sess \in Terminal /\ ~registered)
    BY DEF SerialisedRequests
  <2>1. req[t] = "waiting"
    BY DEF IInv, RequestInv
  <2>2. CASE pc[t] = "await"
    BY <2>2 DEF IInv, KindInv, LockInv, InCriticalSection
  <2>3. CASE kind[t] = "timed" /\ pc[t] \in {"killRemove", "killReap", "mark"}
    BY <2>3 DEF IInv, LockInv, InCriticalSection, Lockers, Commands
  <2>4. CASE sess \in Terminal
    BY <2>4 DEF IInv, RegistryInv, TerminalUnregistered
  <2> QED BY <2>1, <2>2, <2>3, <2>4 DEF IInv, RequestInv
<1> QED BY <1>1, Invariance, PTL

\* As long as the workspace can be read and written, at most one operation of the
\* session is Running: it is the one of the RPC that holds request_lock.
THEOREM AtMostOneRunning == ASSUME ~IoMayFail PROVE Spec => []OneRunning
<1>1. IInv => OneRunning
  <2> SUFFICES ASSUME IInv, NEW t \in Threads, NEW u \in Threads,
                      op[t] = "Running", op[u] = "Running"
               PROVE  t = u
    BY DEF OneRunning
  <2>1. \A v \in {t, u} : InCriticalSection(v)
    BY DEF IInv, OpInv, Executing, InCriticalSection, Lockers
  <2> QED BY <2>1 DEF IInv, LockInv
<1> QED BY <1>1, Invariance, PTL

\* A session that is over has no registered worker.
THEOREM TerminalHasNoWorker == Spec => []TerminalUnregistered
<1>1. IInv => TerminalUnregistered
  BY DEF IInv, RegistryInv
<1> QED BY <1>1, Invariance, PTL

\* No worker process is left without a thread that reaps it.
THEOREM NoOrphan == Spec => []OrphanHasReaper
<1>1. IInv => OrphanHasReaper
  BY DEF IInv
<1> QED BY <1>1, Invariance, PTL

\* Outcomes are in operations.jsonl before a client can read them.
THEOREM RecordsFirst == Spec => []WriteAhead
<1>1. IInv => WriteAhead
  BY DEF IInv
<1> QED BY <1>1, Invariance, PTL

\* A session that is over stays over.
THEOREM SessionNeverRevived == Spec => NeverRevived
<1>1. IInv /\ [Next]_vars => [(sess \in Terminal) => sess' \in Terminal]_vars
  BY RevivedStep DEF IInv
<1> QED BY <1>1, Invariance, PTL DEF Spec, NeverRevived

\* Success and Failed are final.
THEOREM OutcomeNeverChanges == Spec => OutcomeStable
<1>1. IInv /\ [Next]_vars =>
        [\A t \in Threads : op[t] \in {"Success", "Failed"} => op'[t] = op[t]]_vars
  BY OutcomeStep
<1> QED BY <1>1, Invariance, PTL DEF Spec, OutcomeStable

\* The handlers implement the single-server session of SessionContract.
THEOREM Refinement == Spec => ImplementsContract
<1>1. Init => Contract!Init
  BY DEF Init, SupervisorInit, Contract!Init, Reusable, Current
<1>2. IInv /\ [Next]_vars => [Contract!Next]_(Contract!contractVars)
  BY ContractStep
<1> QED BY <1>1, <1>2, Invariance, PTL DEF Spec, ImplementsContract, Contract!Spec
=============================================================================
