------------------------- MODULE TtdRecordingProofs -------------------------
(***************************************************************************)
(* Proofs about TtdRecording, for any number of recording.ttd RPCs: IInv   *)
(* is inductive, and the safety properties follow from it.                 *)
(***************************************************************************)
EXTENDS TtdRecording, TLAPS

USE DEF vars, procVars, endVars

LEMMA InitInv == Init => IInv
<1> SUFFICES ASSUME Init PROVE IInv
  OBVIOUS
<1>1. TypeOK
  BY TtdAssumption DEF Init, TypeOK, NoExit, Exits, Codes
<1>2. ActiveInv /\ ProcessInv
  BY TtdAssumption DEF Init, ActiveInv, ProcessInv, NoExit
<1>3. ExitInv /\ OutcomeInv
  BY TtdAssumption DEF Init, ExitInv, OutcomeInv, NoExit
<1> QED
  BY <1>1, <1>2, <1>3 DEF IInv

\* Up to the spawn of TTD.exe or its helper.
LEMMA BeginStep ==
  ASSUME NEW r \in Recordings, IInv,
         Start(r) \/ Prepare(r) \/ Fails(r) \/ Spawn(r) \/ SpawnFails(r)
  PROVE  IInv'
<1> USE TtdAssumption DEF IInv, Goto
<1>1. CASE Start(r)
  <2>1. TypeOK'
    BY <1>1 DEF Start, TypeOK
  <2>2. ActiveInv'
    BY <1>1 DEF Start, TypeOK, ActiveInv
  <2>3. ProcessInv'
    BY <1>1 DEF Start, TypeOK, ActiveInv, ProcessInv
  <2>4. ExitInv'
    BY <1>1 DEF Start, TypeOK, ProcessInv, ExitInv, Ended
  <2>5. OutcomeInv'
    BY <1>1 DEF Start, TypeOK, ProcessInv, ExitInv, OutcomeInv, Ended
  <2> QED
    BY <2>1, <2>2, <2>3, <2>4, <2>5
<1>2. CASE Prepare(r)
  <2>1. TypeOK'
    BY <1>2 DEF Prepare, TypeOK
  <2>2. ActiveInv'
    BY <1>2 DEF Prepare, TypeOK, ActiveInv
  <2>3. ProcessInv'
    BY <1>2 DEF Prepare, TypeOK, ActiveInv, ProcessInv
  <2>4. ExitInv'
    BY <1>2 DEF Prepare, TypeOK, ProcessInv, ExitInv, Ended
  <2>5. OutcomeInv'
    BY <1>2 DEF Prepare, TypeOK, ProcessInv, ExitInv, OutcomeInv, Ended
  <2> QED
    BY <2>1, <2>2, <2>3, <2>4, <2>5
<1>3. CASE Fails(r)
  <2>1. TypeOK'
    BY <1>3 DEF Fails, TypeOK
  <2>2. ActiveInv'
    BY <1>3 DEF Fails, TypeOK, ActiveInv
  <2>3. ProcessInv'
    BY <1>3 DEF Fails, TypeOK, ActiveInv, ProcessInv
  <2>4. ExitInv'
    BY <1>3 DEF Fails, TypeOK, ProcessInv, ExitInv, Ended
  <2>5. OutcomeInv'
    BY <1>3 DEF Fails, TypeOK, ProcessInv, ExitInv, OutcomeInv, Ended
  <2> QED
    BY <2>1, <2>2, <2>3, <2>4, <2>5
<1>4. CASE Spawn(r)
  <2>1. TypeOK'
    BY <1>4 DEF Spawn, TypeOK
  <2>2. ActiveInv'
    BY <1>4 DEF Spawn, TypeOK, ActiveInv
  <2>3. ProcessInv'
    BY <1>4 DEF Spawn, TypeOK, ActiveInv, ProcessInv
  <2>4. ExitInv'
    BY <1>4 DEF Spawn, TypeOK, ProcessInv, ExitInv, Ended
  <2>5. OutcomeInv'
    BY <1>4 DEF Spawn, TypeOK, ProcessInv, ExitInv, OutcomeInv, Ended
  <2> QED
    BY <2>1, <2>2, <2>3, <2>4, <2>5
<1>5. CASE SpawnFails(r)
  <2>1. TypeOK'
    BY <1>5 DEF SpawnFails, Returned, Exits, TypeOK
  <2>2. ActiveInv'
    BY <1>5 DEF SpawnFails, Returned, Exits, TypeOK, ActiveInv
  <2>3. ProcessInv'
    BY <1>5 DEF SpawnFails, Returned, Exits, TypeOK, ActiveInv, ProcessInv
  <2>4. ExitInv'
    BY <1>5 DEF SpawnFails, Returned, Exits, TypeOK, ProcessInv, ExitInv, Ended
  <2>5. OutcomeInv'
    BY <1>5 DEF SpawnFails, Returned, Exits, TypeOK, ProcessInv, ExitInv, OutcomeInv, Ended
  <2> QED
    BY <2>1, <2>2, <2>3, <2>4, <2>5
<1> QED
  BY <1>1, <1>2, <1>3, <1>4, <1>5

\* run_ttd_process.
LEMMA RunStep ==
  ASSUME NEW r \in Recordings, IInv,
         PollExited(r) \/ PollFails(r) \/ Deadline(r) \/ StopCommand(r)
         \/ ExitDeadline(r) \/ Kill(r) \/ Reap(r)
  PROVE  IInv'
<1> USE TtdAssumption DEF IInv, Goto
<1>1. CASE PollExited(r)
  <2>1. TypeOK'
    BY <1>1 DEF PollExited, Returned, Exits, TypeOK
  <2>2. ActiveInv'
    BY <1>1 DEF PollExited, Returned, Exits, TypeOK, ActiveInv
  <2>3. ProcessInv'
    BY <1>1 DEF PollExited, Returned, Exits, TypeOK, ActiveInv, ProcessInv
  <2>4. ExitInv'
    BY <1>1 DEF PollExited, Returned, Exits, TypeOK, ProcessInv, ExitInv, Ended
  <2>5. OutcomeInv'
    BY <1>1 DEF PollExited, Returned, Exits, TypeOK, ProcessInv, ExitInv, OutcomeInv, Ended
  <2> QED
    BY <2>1, <2>2, <2>3, <2>4, <2>5
<1>2. CASE PollFails(r)
  <2>1. TypeOK'
    BY <1>2 DEF PollFails, Returned, Exits, TypeOK
  <2>2. ActiveInv'
    BY <1>2 DEF PollFails, Returned, Exits, TypeOK, ActiveInv
  <2>3. ProcessInv'
    BY <1>2 DEF PollFails, Returned, Exits, TypeOK, ActiveInv, ProcessInv
  <2>4. ExitInv'
    BY <1>2 DEF PollFails, Returned, Exits, TypeOK, ProcessInv, ExitInv, Ended
  <2>5. OutcomeInv'
    BY <1>2 DEF PollFails, Returned, Exits, TypeOK, ProcessInv, ExitInv, OutcomeInv, Ended
  <2> QED
    BY <2>1, <2>2, <2>3, <2>4, <2>5
<1>3. CASE Deadline(r)
  <2>1. TypeOK'
    BY <1>3 DEF Deadline, TypeOK
  <2>2. ActiveInv'
    BY <1>3 DEF Deadline, TypeOK, ActiveInv
  <2>3. ProcessInv'
    BY <1>3 DEF Deadline, TypeOK, ActiveInv, ProcessInv
  <2>4. ExitInv'
    BY <1>3 DEF Deadline, TypeOK, ProcessInv, ExitInv, Ended
  <2>5. OutcomeInv'
    BY <1>3 DEF Deadline, TypeOK, ProcessInv, ExitInv, OutcomeInv, Ended
  <2> QED
    BY <2>1, <2>2, <2>3, <2>4, <2>5
<1>4. CASE StopCommand(r)
  <2>1. TypeOK'
    BY <1>4 DEF StopCommand, TypeOK
  <2>2. ActiveInv'
    BY <1>4 DEF StopCommand, TypeOK, ActiveInv
  <2>3. ProcessInv'
    BY <1>4 DEF StopCommand, TypeOK, ActiveInv, ProcessInv
  <2>4. ExitInv'
    BY <1>4 DEF StopCommand, TypeOK, ProcessInv, ExitInv, Ended
  <2>5. OutcomeInv'
    BY <1>4 DEF StopCommand, TypeOK, ProcessInv, ExitInv, OutcomeInv, Ended
  <2> QED
    BY <2>1, <2>2, <2>3, <2>4, <2>5
<1>5. CASE ExitDeadline(r)
  <2>1. TypeOK'
    BY <1>5 DEF ExitDeadline, TypeOK
  <2>2. ActiveInv'
    BY <1>5 DEF ExitDeadline, TypeOK, ActiveInv
  <2>3. ProcessInv'
    BY <1>5 DEF ExitDeadline, TypeOK, ActiveInv, ProcessInv
  <2>4. ExitInv'
    BY <1>5 DEF ExitDeadline, TypeOK, ProcessInv, ExitInv, Ended
  <2>5. OutcomeInv'
    BY <1>5 DEF ExitDeadline, TypeOK, ProcessInv, ExitInv, OutcomeInv, Ended
  <2> QED
    BY <2>1, <2>2, <2>3, <2>4, <2>5
<1>6. CASE Kill(r)
  <2>1. TypeOK'
    BY <1>6 DEF Kill, Codes, TypeOK
  <2>2. ActiveInv'
    BY <1>6 DEF Kill, Codes, TypeOK, ActiveInv
  <2>3. ProcessInv'
    BY <1>6 DEF Kill, Codes, TypeOK, ActiveInv, ProcessInv
  <2>4. ExitInv'
    BY <1>6 DEF Kill, Codes, TypeOK, ProcessInv, ExitInv, Ended
  <2>5. OutcomeInv'
    BY <1>6 DEF Kill, Codes, TypeOK, ProcessInv, ExitInv, OutcomeInv, Ended
  <2> QED
    BY <2>1, <2>2, <2>3, <2>4, <2>5
<1>7. CASE Reap(r)
  <2>1. TypeOK'
    BY <1>7 DEF Reap, Codes, Returned, Exits, TypeOK
  <2>2. ActiveInv'
    BY <1>7 DEF Reap, Codes, Returned, Exits, TypeOK, ActiveInv
  <2>3. ProcessInv'
    BY <1>7 DEF Reap, Codes, Returned, Exits, TypeOK, ActiveInv, ProcessInv
  <2>4. ExitInv'
    BY <1>7 DEF Reap, Codes, Returned, Exits, TypeOK, ProcessInv, ExitInv, Ended
  <2>5. OutcomeInv'
    BY <1>7 DEF Reap, Codes, Returned, Exits, TypeOK, ProcessInv, ExitInv, OutcomeInv, Ended
  <2> QED
    BY <2>1, <2>2, <2>3, <2>4, <2>5
<1> QED
  BY <1>1, <1>2, <1>3, <1>4, <1>5, <1>6, <1>7

\* From the end of the recorder to the end of the RPC.
LEMMA OutcomeStep ==
  ASSUME NEW r \in Recordings, IInv,
         Report(r) \/ WriteMetadata(r) \/ AppendOperation(r) \/ Commit(r)
         \/ DropLocals(r)
  PROVE  IInv'
<1> USE TtdAssumption DEF IInv, Goto
<1>1. CASE Report(r)
  <2>1. TypeOK'
    BY <1>1 DEF Report, Outcome, Codes, Exits, TypeOK
  <2>2. ActiveInv'
    BY <1>1 DEF Report, Outcome, Codes, Exits, TypeOK, ActiveInv
  <2>3. ProcessInv'
    BY <1>1 DEF Report, Outcome, Codes, Exits, TypeOK, ActiveInv, ProcessInv
  <2>4. ExitInv'
    BY <1>1 DEF Report, Outcome, Codes, Exits, TypeOK, ProcessInv, ExitInv, Ended
  <2>5. OutcomeInv'
    BY <1>1
      DEF Report, Outcome, Codes, Exits, TypeOK, ProcessInv, ExitInv, OutcomeInv, Ended
  <2> QED
    BY <2>1, <2>2, <2>3, <2>4, <2>5
<1>2. CASE WriteMetadata(r)
  <2>1. TypeOK'
    BY <1>2 DEF WriteMetadata, TypeOK
  <2>2. ActiveInv'
    BY <1>2 DEF WriteMetadata, TypeOK, ActiveInv
  <2>3. ProcessInv'
    BY <1>2 DEF WriteMetadata, TypeOK, ActiveInv, ProcessInv
  <2>4. ExitInv'
    BY <1>2 DEF WriteMetadata, TypeOK, ProcessInv, ExitInv, Ended
  <2>5. OutcomeInv'
    BY <1>2 DEF WriteMetadata, TypeOK, ProcessInv, ExitInv, OutcomeInv, Ended
  <2> QED
    BY <2>1, <2>2, <2>3, <2>4, <2>5
<1>3. CASE AppendOperation(r)
  <2>1. TypeOK'
    BY <1>3 DEF AppendOperation, OperationStatus, TypeOK
  <2>2. ActiveInv'
    BY <1>3 DEF AppendOperation, OperationStatus, TypeOK, ActiveInv
  <2>3. ProcessInv'
    BY <1>3 DEF AppendOperation, OperationStatus, TypeOK, ActiveInv, ProcessInv
  <2>4. ExitInv'
    BY <1>3 DEF AppendOperation, OperationStatus, TypeOK, ProcessInv, ExitInv, Ended
  <2>5. OutcomeInv'
    BY <1>3
      DEF AppendOperation, OperationStatus, TypeOK, ProcessInv, ExitInv, OutcomeInv, Ended
  <2> QED
    BY <2>1, <2>2, <2>3, <2>4, <2>5
<1>4. CASE Commit(r)
  <2>1. TypeOK'
    BY <1>4 DEF Commit, OperationStatus, TypeOK
  <2>2. ActiveInv'
    BY <1>4 DEF Commit, OperationStatus, TypeOK, ActiveInv
  <2>3. ProcessInv'
    BY <1>4 DEF Commit, OperationStatus, TypeOK, ActiveInv, ProcessInv
  <2>4. ExitInv'
    BY <1>4 DEF Commit, OperationStatus, TypeOK, ProcessInv, ExitInv, Ended
  <2>5. OutcomeInv'
    BY <1>4 DEF Commit, OperationStatus, TypeOK, ProcessInv, ExitInv, OutcomeInv, Ended
  <2> QED
    BY <2>1, <2>2, <2>3, <2>4, <2>5
<1>5. CASE DropLocals(r)
  <2>1. TypeOK'
    BY <1>5 DEF DropLocals, Release, TypeOK
  <2>2. ActiveInv'
    BY <1>5 DEF DropLocals, Release, TypeOK, ActiveInv
  <2>3. ProcessInv'
    BY <1>5 DEF DropLocals, Release, TypeOK, ActiveInv, ProcessInv
  <2>4. ExitInv'
    BY <1>5 DEF DropLocals, Release, TypeOK, ProcessInv, ExitInv, Ended
  <2>5. OutcomeInv'
    BY <1>5 DEF DropLocals, Release, TypeOK, ProcessInv, ExitInv, OutcomeInv, Ended
  <2> QED
    BY <2>1, <2>2, <2>3, <2>4, <2>5
<1> QED
  BY <1>1, <1>2, <1>3, <1>4, <1>5

\* The recorder and the helper run on their own.
LEMMA ProcessStep ==
  ASSUME NEW r \in Recordings, IInv,
         RecorderRecords(r) \/ RecorderExits(r) \/ HelperSpawns(r) \/ HelperAssigns(r)
         \/ HelperFails(r) \/ HelperExits(r)
  PROVE  IInv'
<1> USE TtdAssumption DEF IInv, Goto
<1>1. CASE RecorderRecords(r)
  <2>1. TypeOK'
    BY <1>1 DEF RecorderRecords, TypeOK
  <2>2. ActiveInv'
    BY <1>1 DEF RecorderRecords, TypeOK, ActiveInv
  <2>3. ProcessInv'
    BY <1>1 DEF RecorderRecords, TypeOK, ActiveInv, ProcessInv
  <2>4. ExitInv'
    BY <1>1 DEF RecorderRecords, TypeOK, ProcessInv, ExitInv, Ended
  <2>5. OutcomeInv'
    BY <1>1 DEF RecorderRecords, TypeOK, ProcessInv, ExitInv, OutcomeInv, Ended
  <2> QED
    BY <2>1, <2>2, <2>3, <2>4, <2>5
<1>2. CASE RecorderExits(r)
  <2>1. TypeOK'
    BY <1>2 DEF RecorderExits, Codes, TypeOK
  <2>2. ActiveInv'
    BY <1>2 DEF RecorderExits, Codes, TypeOK, ActiveInv
  <2>3. ProcessInv'
    BY <1>2 DEF RecorderExits, Codes, TypeOK, ActiveInv, ProcessInv
  <2>4. ExitInv'
    BY <1>2 DEF RecorderExits, Codes, TypeOK, ProcessInv, ExitInv, Ended
  <2>5. OutcomeInv'
    BY <1>2 DEF RecorderExits, Codes, TypeOK, ProcessInv, ExitInv, OutcomeInv, Ended
  <2> QED
    BY <2>1, <2>2, <2>3, <2>4, <2>5
<1>3. CASE HelperSpawns(r)
  <2>1. TypeOK'
    BY <1>3 DEF HelperSpawns, TypeOK
  <2>2. ActiveInv'
    BY <1>3 DEF HelperSpawns, TypeOK, ActiveInv
  <2>3. ProcessInv'
    BY <1>3 DEF HelperSpawns, TypeOK, ActiveInv, ProcessInv
  <2>4. ExitInv'
    BY <1>3 DEF HelperSpawns, TypeOK, ProcessInv, ExitInv, Ended
  <2>5. OutcomeInv'
    BY <1>3 DEF HelperSpawns, TypeOK, ProcessInv, ExitInv, OutcomeInv, Ended
  <2> QED
    BY <2>1, <2>2, <2>3, <2>4, <2>5
<1>4. CASE HelperAssigns(r)
  <2>1. TypeOK'
    BY <1>4 DEF HelperAssigns, TypeOK
  <2>2. ActiveInv'
    BY <1>4 DEF HelperAssigns, TypeOK, ActiveInv
  <2>3. ProcessInv'
    BY <1>4 DEF HelperAssigns, TypeOK, ActiveInv, ProcessInv
  <2>4. ExitInv'
    BY <1>4 DEF HelperAssigns, TypeOK, ProcessInv, ExitInv, Ended
  <2>5. OutcomeInv'
    BY <1>4 DEF HelperAssigns, TypeOK, ProcessInv, ExitInv, OutcomeInv, Ended
  <2> QED
    BY <2>1, <2>2, <2>3, <2>4, <2>5
<1>5. CASE HelperFails(r)
  <2>1. TypeOK'
    BY <1>5 DEF HelperFails, Codes, TypeOK
  <2>2. ActiveInv'
    BY <1>5 DEF HelperFails, Codes, TypeOK, ActiveInv
  <2>3. ProcessInv'
    BY <1>5 DEF HelperFails, Codes, TypeOK, ActiveInv, ProcessInv
  <2>4. ExitInv'
    BY <1>5 DEF HelperFails, Codes, TypeOK, ProcessInv, ExitInv, Ended
  <2>5. OutcomeInv'
    BY <1>5 DEF HelperFails, Codes, TypeOK, ProcessInv, ExitInv, OutcomeInv, Ended
  <2> QED
    BY <2>1, <2>2, <2>3, <2>4, <2>5
<1>6. CASE HelperExits(r)
  <2>1. TypeOK'
    BY <1>6 DEF HelperExits, TypeOK
  <2>2. ActiveInv'
    BY <1>6 DEF HelperExits, TypeOK, ActiveInv
  <2>3. ProcessInv'
    BY <1>6 DEF HelperExits, TypeOK, ActiveInv, ProcessInv
  <2>4. ExitInv'
    BY <1>6 DEF HelperExits, TypeOK, ProcessInv, ExitInv, Ended
  <2>5. OutcomeInv'
    BY <1>6 DEF HelperExits, TypeOK, ProcessInv, ExitInv, OutcomeInv, Ended
  <2> QED
    BY <2>1, <2>2, <2>3, <2>4, <2>5
<1> QED
  BY <1>1, <1>2, <1>3, <1>4, <1>5, <1>6

LEMMA StutterStep == ASSUME IInv, UNCHANGED vars PROVE IInv'
  BY DEF IInv, TypeOK, ActiveInv, ProcessInv, ExitInv, OutcomeInv, Ended

\* IInv is an invariant: no interleaving of recording.ttd RPCs, recorders and helpers,
\* with whatever failures, leaves the states it describes.
THEOREM TtdInvariance == Spec => []IInv
<1>1. IInv /\ [Next]_vars => IInv'
  <2> SUFFICES ASSUME IInv, [Next]_vars PROVE IInv'
    OBVIOUS
  <2>1. CASE Quiet \/ UNCHANGED vars
    BY <2>1, StutterStep DEF Quiet
  <2>2. ASSUME NEW r \in Recordings,
               Handler(r) \/ Processes(r) \/ Fails(r) \/ SpawnFails(r) \/ PollFails(r)
        PROVE  IInv'
    BY <2>2, BeginStep, RunStep, OutcomeStep, ProcessStep DEF Handler, Processes
  <2> QED
    BY <2>1, <2>2 DEF Next
<1> QED
  BY InitInv, <1>1, PTL DEF Spec

\* Every variable of the RPCs, the recorders and the helpers keeps its type.
THEOREM TtdTypeCorrect == Spec => []TypeOK
<1>1. IInv => TypeOK
  BY DEF IInv
<1> QED
  BY <1>1, TtdInvariance, PTL

\* A TTD.exe that runs belongs to the RPC in active_ttd_recording, apart from the two
\* ways in which an RPC loses it.
THEOREM OneRecorderAtATime == Spec => []OneRecorder
<1>1. IInv => OneRecorder
  BY DEF IInv, TypeOK, ActiveInv, ProcessInv, ExitInv, Ended, OneRecorder, Exits
<1> QED
  BY <1>1, TtdInvariance, PTL

\* A recording that is called a success anywhere has a finished trace from a recorder
\* that ended well, or whose end could not be read.
THEOREM StatusIsHonest == Spec => []StatusHonest
<1>1. IInv => StatusHonest
  BY DEF IInv, ProcessInv, OutcomeInv, StatusHonest
<1> QED
  BY <1>1, TtdInvariance, PTL
=============================================================================
