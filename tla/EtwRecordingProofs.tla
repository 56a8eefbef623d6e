------------------------- MODULE EtwRecordingProofs -------------------------
(***************************************************************************)
(* Proofs about EtwRecording, for any number of competing stop, cancel and *)
(* kill RPCs: IInv is inductive, and the safety properties follow from it. *)
(***************************************************************************)
EXTENDS EtwRecording, TLAPS

USE DEF vars, traceVars, startVars, endVars

LEMMA InitInv == Init => IInv
  BY DEF Init, IInv, TypeOK, StartInv, EndInv, Ending, OneEnder, Modes, FinalStates

\* The steps of recording.start.
LEMMA StartStep ==
  ASSUME IInv,
         StartTrace \/ StartRefused \/ PrepareTarget \/ StartConsumer \/ ResumeTarget
         \/ WriteStartArtifacts \/ RecordStart \/ StartIoFails \/ PublishRecording
  PROVE  IInv'
<1> USE RecordingAssumption DEF IInv, Goto
<1>1. CASE StartTrace
  <2>1. TypeOK'
    BY <1>1 DEF StartTrace, TypeOK, FinalStates
  <2>2. StartInv'
    BY <1>1 DEF StartTrace, TypeOK, StartInv
  <2>3. EndInv'
    BY <1>1 DEF StartTrace, TypeOK, StartInv, EndInv, Ending, FinalStates
  <2>4. OneEnder'
    BY <1>1 DEF StartTrace, StartInv, OneEnder, FinalStates
  <2> QED
    BY <2>1, <2>2, <2>3, <2>4
<1>2. CASE StartRefused
  <2>1. TypeOK'
    BY <1>2 DEF StartRefused, TypeOK, FinalStates
  <2>2. StartInv'
    BY <1>2 DEF StartRefused, TypeOK, StartInv
  <2>3. EndInv'
    BY <1>2 DEF StartRefused, TypeOK, StartInv, EndInv, Ending, FinalStates
  <2>4. OneEnder'
    BY <1>2 DEF StartRefused, StartInv, OneEnder, FinalStates
  <2> QED
    BY <2>1, <2>2, <2>3, <2>4
<1>3. CASE PrepareTarget
  <2>1. TypeOK'
    BY <1>3 DEF PrepareTarget, AbandonStart, TypeOK, FinalStates
  <2>2. StartInv'
    BY <1>3 DEF PrepareTarget, AbandonStart, TypeOK, StartInv
  <2>3. EndInv'
    BY <1>3 DEF PrepareTarget, AbandonStart, TypeOK, StartInv, EndInv, Ending, FinalStates
  <2>4. OneEnder'
    BY <1>3 DEF PrepareTarget, AbandonStart, StartInv, OneEnder, FinalStates
  <2> QED
    BY <2>1, <2>2, <2>3, <2>4
<1>4. CASE StartConsumer
  <2>1. TypeOK'
    BY <1>4 DEF StartConsumer, TypeOK, FinalStates
  <2>2. StartInv'
    BY <1>4 DEF StartConsumer, TypeOK, StartInv
  <2>3. EndInv'
    BY <1>4 DEF StartConsumer, TypeOK, StartInv, EndInv, Ending, FinalStates
  <2>4. OneEnder'
    BY <1>4 DEF StartConsumer, StartInv, OneEnder, FinalStates
  <2> QED
    BY <2>1, <2>2, <2>3, <2>4
<1>5. CASE ResumeTarget
  <2>1. TypeOK'
    BY <1>5 DEF ResumeTarget, AbandonStart, TypeOK, FinalStates
  <2>2. StartInv'
    BY <1>5 DEF ResumeTarget, AbandonStart, TypeOK, StartInv
  <2>3. EndInv'
    BY <1>5 DEF ResumeTarget, AbandonStart, TypeOK, StartInv, EndInv, Ending, FinalStates
  <2>4. OneEnder'
    BY <1>5 DEF ResumeTarget, AbandonStart, StartInv, OneEnder, FinalStates
  <2> QED
    BY <2>1, <2>2, <2>3, <2>4
<1>6. CASE WriteStartArtifacts
  <2>1. TypeOK'
    BY <1>6 DEF WriteStartArtifacts, TypeOK, FinalStates
  <2>2. StartInv'
    BY <1>6 DEF WriteStartArtifacts, TypeOK, StartInv
  <2>3. EndInv'
    BY <1>6 DEF WriteStartArtifacts, TypeOK, StartInv, EndInv, Ending, FinalStates
  <2>4. OneEnder'
    BY <1>6 DEF WriteStartArtifacts, StartInv, OneEnder, FinalStates
  <2> QED
    BY <2>1, <2>2, <2>3, <2>4
<1>7. CASE RecordStart
  <2>1. TypeOK'
    BY <1>7 DEF RecordStart, TypeOK, FinalStates
  <2>2. StartInv'
    BY <1>7 DEF RecordStart, TypeOK, StartInv
  <2>3. EndInv'
    BY <1>7 DEF RecordStart, TypeOK, StartInv, EndInv, Ending, FinalStates
  <2>4. OneEnder'
    BY <1>7 DEF RecordStart, StartInv, OneEnder, FinalStates
  <2> QED
    BY <2>1, <2>2, <2>3, <2>4
<1>8. CASE StartIoFails
  <2>1. TypeOK'
    BY <1>8 DEF StartIoFails, AbandonStart, TypeOK, FinalStates
  <2>2. StartInv'
    BY <1>8 DEF StartIoFails, AbandonStart, TypeOK, StartInv
  <2>3. EndInv'
    BY <1>8 DEF StartIoFails, AbandonStart, TypeOK, StartInv, EndInv, Ending, FinalStates
  <2>4. OneEnder'
    BY <1>8 DEF StartIoFails, AbandonStart, StartInv, OneEnder, FinalStates
  <2> QED
    BY <2>1, <2>2, <2>3, <2>4
<1>9. CASE PublishRecording
  <2>1. TypeOK'
    BY <1>9 DEF PublishRecording, TypeOK, FinalStates
  <2>2. StartInv'
    BY <1>9 DEF PublishRecording, TypeOK, StartInv
  <2>3. EndInv'
    BY <1>9 DEF PublishRecording, TypeOK, StartInv, EndInv, Ending, FinalStates
  <2>4. OneEnder'
    BY <1>9 DEF PublishRecording, StartInv, OneEnder, FinalStates
  <2> QED
    BY <2>1, <2>2, <2>3, <2>4
<1> QED
  BY <1>1, <1>2, <1>3, <1>4, <1>5, <1>6, <1>7, <1>8, <1>9

\* The steps of finish_recording.
LEMMA EndStep ==
  ASSUME NEW t \in Enders, NEW m \in Modes, IInv,
         BeginEnd(t, m) \/ OpenWorkspace(t) \/ StopControl(t) \/ JoinConsumer(t)
         \/ WriteTrace(t) \/ WriteMetadata(t) \/ RecordEnd(t) \/ EndIoFails(t)
         \/ PublishEnd(t)
  PROVE  IInv'
<1> USE RecordingAssumption
    DEF IInv, Goto, Ending, Modes, FinalState, FinalStates, RecordedStatus
<1>1. CASE BeginEnd(t, m)
  <2>1. TypeOK'
    BY <1>1 DEF BeginEnd, TypeOK, EndInv
  <2>2. StartInv'
    BY <1>1 DEF BeginEnd, TypeOK, StartInv
  <2>3. EndInv'
    BY <1>1 DEF BeginEnd, TypeOK, StartInv, EndInv
  <2>4. OneEnder'
    BY <1>1 DEF BeginEnd, TypeOK, StartInv, EndInv, OneEnder
  <2> QED
    BY <2>1, <2>2, <2>3, <2>4
<1>2. CASE OpenWorkspace(t)
  <2>1. TypeOK'
    BY <1>2 DEF OpenWorkspace, TypeOK, EndInv
  <2>2. StartInv'
    BY <1>2 DEF OpenWorkspace, TypeOK, StartInv
  <2>3. EndInv'
    BY <1>2 DEF OpenWorkspace, TypeOK, StartInv, EndInv
  <2>4. OneEnder'
    BY <1>2 DEF OpenWorkspace, TypeOK, StartInv, EndInv, OneEnder
  <2> QED
    BY <2>1, <2>2, <2>3, <2>4
<1>3. CASE StopControl(t)
  <2>1. TypeOK'
    BY <1>3 DEF StopControl, TypeOK, EndInv
  <2>2. StartInv'
    BY <1>3 DEF StopControl, TypeOK, StartInv
  <2>3. EndInv'
    BY <1>3 DEF StopControl, TypeOK, StartInv, EndInv
  <2>4. OneEnder'
    BY <1>3 DEF StopControl, TypeOK, StartInv, EndInv, OneEnder
  <2> QED
    BY <2>1, <2>2, <2>3, <2>4
<1>4. CASE JoinConsumer(t)
  <2>1. TypeOK'
    BY <1>4 DEF JoinConsumer, TypeOK, EndInv
  <2>2. StartInv'
    BY <1>4 DEF JoinConsumer, TypeOK, StartInv
  <2>3. EndInv'
    BY <1>4 DEF JoinConsumer, TypeOK, StartInv, EndInv
  <2>4. OneEnder'
    BY <1>4 DEF JoinConsumer, TypeOK, StartInv, EndInv, OneEnder
  <2> QED
    BY <2>1, <2>2, <2>3, <2>4
<1>5. CASE WriteTrace(t)
  <2>1. TypeOK'
    BY <1>5 DEF WriteTrace, TypeOK, EndInv
  <2>2. StartInv'
    BY <1>5 DEF WriteTrace, TypeOK, StartInv
  <2>3. EndInv'
    BY <1>5 DEF WriteTrace, TypeOK, StartInv, EndInv
  <2>4. OneEnder'
    BY <1>5 DEF WriteTrace, TypeOK, StartInv, EndInv, OneEnder
  <2> QED
    BY <2>1, <2>2, <2>3, <2>4
<1>6. CASE WriteMetadata(t)
  <2>1. TypeOK'
    BY <1>6 DEF WriteMetadata, TypeOK, EndInv
  <2>2. StartInv'
    BY <1>6 DEF WriteMetadata, TypeOK, StartInv
  <2>3. EndInv'
    BY <1>6 DEF WriteMetadata, TypeOK, StartInv, EndInv
  <2>4. OneEnder'
    BY <1>6 DEF WriteMetadata, TypeOK, StartInv, EndInv, OneEnder
  <2> QED
    BY <2>1, <2>2, <2>3, <2>4
<1>7. CASE RecordEnd(t)
  <2>1. TypeOK'
    BY <1>7 DEF RecordEnd, TypeOK, EndInv
  <2>2. StartInv'
    BY <1>7 DEF RecordEnd, TypeOK, StartInv
  <2>3. EndInv'
    BY <1>7 DEF RecordEnd, TypeOK, StartInv, EndInv
  <2>4. OneEnder'
    BY <1>7 DEF RecordEnd, TypeOK, StartInv, EndInv, OneEnder
  <2> QED
    BY <2>1, <2>2, <2>3, <2>4
<1>8. CASE EndIoFails(t)
  <2>1. TypeOK'
    BY <1>8 DEF EndIoFails, TypeOK, EndInv
  <2>2. StartInv'
    BY <1>8 DEF EndIoFails, TypeOK, StartInv
  <2>3. EndInv'
    BY <1>8 DEF EndIoFails, TypeOK, StartInv, EndInv
  <2>4. OneEnder'
    BY <1>8 DEF EndIoFails, TypeOK, StartInv, EndInv, OneEnder
  <2> QED
    BY <2>1, <2>2, <2>3, <2>4
<1>9. CASE PublishEnd(t)
  <2>1. TypeOK'
    BY <1>9 DEF PublishEnd, TypeOK, EndInv
  <2>2. StartInv'
    BY <1>9 DEF PublishEnd, TypeOK, StartInv, EndInv
  <2>3. EndInv'
    BY <1>9 DEF PublishEnd, TypeOK, StartInv, EndInv
  <2>4. OneEnder'
    BY <1>9 DEF PublishEnd, TypeOK, StartInv, EndInv, OneEnder
  <2> QED
    BY <2>1, <2>2, <2>3, <2>4
<1> QED
  BY <1>1, <1>2, <1>3, <1>4, <1>5, <1>6, <1>7, <1>8, <1>9

\* The trace session and its consumer.
LEMMA TraceStep ==
  ASSUME IInv,
         TraceLost \/ ConsumerFails \/ ConsumerEnds
  PROVE  IInv'
<1> USE RecordingAssumption DEF IInv, Goto
<1>1. CASE TraceLost
  <2>1. TypeOK'
    BY <1>1 DEF TraceLost, TypeOK, FinalStates
  <2>2. StartInv'
    BY <1>1 DEF TraceLost, TypeOK, StartInv
  <2>3. EndInv'
    BY <1>1 DEF TraceLost, TypeOK, StartInv, EndInv, Ending, FinalStates
  <2>4. OneEnder'
    BY <1>1 DEF TraceLost, StartInv, OneEnder, FinalStates
  <2> QED
    BY <2>1, <2>2, <2>3, <2>4
<1>2. CASE ConsumerFails
  <2>1. TypeOK'
    BY <1>2 DEF ConsumerFails, TypeOK, FinalStates
  <2>2. StartInv'
    BY <1>2 DEF ConsumerFails, TypeOK, StartInv
  <2>3. EndInv'
    BY <1>2 DEF ConsumerFails, TypeOK, StartInv, EndInv, Ending, FinalStates
  <2>4. OneEnder'
    BY <1>2 DEF ConsumerFails, StartInv, OneEnder, FinalStates
  <2> QED
    BY <2>1, <2>2, <2>3, <2>4
<1>3. CASE ConsumerEnds
  <2>1. TypeOK'
    BY <1>3 DEF ConsumerEnds, TypeOK, FinalStates
  <2>2. StartInv'
    BY <1>3 DEF ConsumerEnds, TypeOK, StartInv
  <2>3. EndInv'
    BY <1>3 DEF ConsumerEnds, TypeOK, StartInv, EndInv, Ending, FinalStates
  <2>4. OneEnder'
    BY <1>3 DEF ConsumerEnds, StartInv, OneEnder, FinalStates
  <2> QED
    BY <2>1, <2>2, <2>3, <2>4
<1> QED
  BY <1>1, <1>2, <1>3

LEMMA StutterStep == ASSUME IInv, UNCHANGED vars PROVE IInv'
  BY DEF IInv, TypeOK, StartInv, EndInv, Ending, OneEnder

\* IInv is an invariant, whatever fails in the trace session, the target or the files.
THEOREM RecordingInvariance == Spec => []IInv
<1>1. IInv /\ [Next]_vars => IInv'
  <2> SUFFICES ASSUME IInv, [Next]_vars PROVE IInv'
    OBVIOUS
  <2>1. CASE Start \/ StartRefused \/ StartIoFails
    BY <2>1, StartStep DEF Start
  <2>2. CASE TraceLost \/ ConsumerFails \/ ConsumerEnds
    BY <2>2, TraceStep
  <2>3. CASE Quiet \/ UNCHANGED vars
    BY <2>3, StutterStep DEF Quiet
  <2>4. ASSUME NEW t \in Enders, End(t) \/ EndIoFails(t) \/ \E m \in Modes : BeginEnd(t, m)
        PROVE  IInv'
    <3>1. "stop" \in Modes
      BY DEF Modes
    <3> QED
      BY <2>4, <3>1, EndStep DEF End
  <2> QED
    BY <2>1, <2>2, <2>3, <2>4 DEF Next
<1> QED
  BY InitInv, <1>1, PTL DEF Spec

\* Every variable of the recording keeps its type.
THEOREM RecordingTypeCorrect == Spec => []TypeOK
<1>1. IInv => TypeOK
  BY DEF IInv
<1> QED
  BY <1>1, RecordingInvariance, PTL

\* No failed recording.start and no finished recording leaves a trace session running.
THEOREM TraceHasOwner == Spec => []TraceOwned
<1>1. IInv => TraceOwned
  BY DEF IInv, TypeOK, StartInv, EndInv, TraceOwned
<1> QED
  BY <1>1, RecordingInvariance, PTL

\* When recording.start returns, the target it launched is not suspended.
THEOREM TargetNotSuspended == Spec => []NoSuspendedTarget
<1>1. IInv => NoSuspendedTarget
  BY DEF IInv, StartInv, NoSuspendedTarget
<1> QED
  BY <1>1, RecordingInvariance, PTL

\* However many stop, cancel and kill RPCs compete, one ends the recording, and memory,
\* recording.json and operations.jsonl agree on which.
THEOREM OneRpcEnds == Spec => []OneEnder
<1>1. IInv => OneEnder
  BY DEF IInv
<1> QED
  BY <1>1, RecordingInvariance, PTL
=============================================================================
