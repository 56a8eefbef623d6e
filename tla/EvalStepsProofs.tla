--------------------------- MODULE EvalStepsProofs ---------------------------
(***************************************************************************)
(* Proofs about EvalSteps, for any number of commands and of cancels: IInv *)
(* is inductive, and BatchTruth follows from it.                           *)
(***************************************************************************)
EXTENDS EvalSteps, TLAPS

USE DEF vars, params, batchVars, supervisorVars

LEMMA InitInv == Init => IInv
<1> SUFFICES ASSUME Init PROVE IInv
  OBVIOUS
<1> USE StepsAssumption, ThreadsAssumption DEF Init, SupervisorInit, Ops
<1>1. TypeOK
  <2>1. SupervisorTypeOK
    BY DEF SupervisorTypeOK, Holder, ProcStates, ReqStates, Responses
  <2>2. op \in [Ops -> Status] /\ log \in [Ops -> SUBSET Status]
    BY DEF Status
  <2>3. pc \in [Threads -> Pcs] /\ result \in Responses
    BY DEF Pcs, Responses
  <2>4. step \in 1 .. Steps + 1 /\ failedAt \in Ops /\ canceledAt \in Ops
    OBVIOUS
  <2> QED
    BY <2>1, <2>2, <2>3, <2>4 DEF TypeOK
<1>2. OrderInv /\ AtStepInv
  BY DEF OrderInv, AtStepInv, InStep
<1>3. EndInv /\ BatchTruth
  BY DEF EndInv, BatchTruth
<1> QED
  BY <1>1, <1>2, <1>3 DEF IInv

\* One step, up to its outcome.
LEMMA StepStep ==
  ASSUME IInv,
         BeginStep \/ Received \/ Timeout \/ ReadStatus \/ AppendStep \/ CommitStep
         \/ StepIoFails
  PROVE  IInv'
<1> USE StepsAssumption, ThreadsAssumption DEF IInv, Goto, SetOp, AddLog
<1>1. CASE BeginStep
  <2>1. TypeOK'
    BY <1>1
      DEF BeginStep, TypeOK, SupervisorTypeOK, Holder, ProcStates, ReqStates, Responses,
          Pcs, Status, Ops
  <2>2. OrderInv'
    BY <1>1
      DEF BeginStep, TypeOK, SupervisorTypeOK, OrderInv, AtStepInv, Finished, InStep, Ops
  <2>3. AtStepInv'
    BY <1>1
      DEF BeginStep, TypeOK, SupervisorTypeOK, OrderInv, AtStepInv, Finished, InStep, Ops,
          Responses
  <2>4. EndInv'
    BY <1>1 DEF BeginStep, TypeOK, SupervisorTypeOK, AtStepInv, EndInv, InStep, Ops
  <2>5. BatchTruth'
    BY <1>1
      DEF BeginStep, TypeOK, SupervisorTypeOK, OrderInv, AtStepInv, EndInv, Finished,
          BatchTruth, InStep, Ops
  <2> QED
    BY <2>1, <2>2, <2>3, <2>4, <2>5
<1>2. CASE Received
  <2>1. TypeOK'
    BY <1>2
      DEF Received, TypeOK, SupervisorTypeOK, Holder, ProcStates, ReqStates, Responses, Pcs,
          Status, Ops
  <2>2. OrderInv'
    BY <1>2
      DEF Received, TypeOK, SupervisorTypeOK, OrderInv, AtStepInv, Finished, InStep, Ops
  <2>3. AtStepInv'
    BY <1>2
      DEF Received, TypeOK, SupervisorTypeOK, OrderInv, AtStepInv, Finished, InStep, Ops,
          Responses
  <2>4. EndInv'
    BY <1>2 DEF Received, TypeOK, SupervisorTypeOK, AtStepInv, EndInv, InStep, Ops
  <2>5. BatchTruth'
    BY <1>2
      DEF Received, TypeOK, SupervisorTypeOK, OrderInv, AtStepInv, EndInv, Finished,
          BatchTruth, InStep, Ops
  <2> QED
    BY <2>1, <2>2, <2>3, <2>4, <2>5
<1>3. CASE Timeout
  <2>1. TypeOK'
    BY <1>3
      DEF Timeout, TypeOK, SupervisorTypeOK, Holder, ProcStates, ReqStates, Responses, Pcs,
          Status, Ops
  <2>2. OrderInv'
    BY <1>3
      DEF Timeout, TypeOK, SupervisorTypeOK, OrderInv, AtStepInv, Finished, InStep, Ops
  <2>3. AtStepInv'
    BY <1>3
      DEF Timeout, TypeOK, SupervisorTypeOK, OrderInv, AtStepInv, Finished, InStep, Ops,
          Responses
  <2>4. EndInv'
    BY <1>3 DEF Timeout, TypeOK, SupervisorTypeOK, AtStepInv, EndInv, InStep, Ops
  <2>5. BatchTruth'
    BY <1>3
      DEF Timeout, TypeOK, SupervisorTypeOK, OrderInv, AtStepInv, EndInv, Finished,
          BatchTruth, InStep, Ops
  <2> QED
    BY <2>1, <2>2, <2>3, <2>4, <2>5
<1>4. CASE ReadStatus
  <2>1. TypeOK'
    BY <1>4
      DEF ReadStatus, TypeOK, SupervisorTypeOK, Holder, ProcStates, ReqStates, Responses,
          Pcs, Status, Ops
  <2>2. OrderInv'
    BY <1>4
      DEF ReadStatus, TypeOK, SupervisorTypeOK, OrderInv, AtStepInv, Finished, InStep, Ops
  <2>3. AtStepInv'
    BY <1>4
      DEF ReadStatus, TypeOK, SupervisorTypeOK, OrderInv, AtStepInv, Finished, InStep, Ops,
          Responses
  <2>4. EndInv'
    BY <1>4 DEF ReadStatus, TypeOK, SupervisorTypeOK, AtStepInv, EndInv, InStep, Ops
  <2>5. BatchTruth'
    BY <1>4
      DEF ReadStatus, TypeOK, SupervisorTypeOK, OrderInv, AtStepInv, EndInv, Finished,
          BatchTruth, InStep, Ops
  <2> QED
    BY <2>1, <2>2, <2>3, <2>4, <2>5
<1>5. CASE AppendStep
  <2>1. TypeOK'
    BY <1>5, ZenonT(40)
      DEF AppendStep, StepStatus, TypeOK, SupervisorTypeOK, Holder, ProcStates, ReqStates,
          Responses, Pcs, Status, Ops
  <2>2. OrderInv'
    BY <1>5
      DEF AppendStep, StepStatus, TypeOK, SupervisorTypeOK, OrderInv, AtStepInv, Finished,
          InStep, Ops
  <2>3. AtStepInv'
    BY <1>5
      DEF AppendStep, StepStatus, TypeOK, SupervisorTypeOK, OrderInv, AtStepInv, Finished,
          InStep, Ops, Responses
  <2>4. EndInv'
    BY <1>5
      DEF AppendStep, StepStatus, TypeOK, SupervisorTypeOK, AtStepInv, EndInv, InStep, Ops
  <2>5. BatchTruth'
    BY <1>5
      DEF AppendStep, StepStatus, TypeOK, SupervisorTypeOK, OrderInv, AtStepInv, EndInv,
          Finished, BatchTruth, InStep, Ops
  <2> QED
    BY <2>1, <2>2, <2>3, <2>4, <2>5
<1>6. CASE CommitStep
  <2>1. TypeOK'
    BY <1>6
      DEF CommitStep, StepStatus, TypeOK, SupervisorTypeOK, Holder, ProcStates, ReqStates,
          Responses, Pcs, Status, Ops, AtStepInv, InStep
  <2>2. OrderInv'
    BY <1>6
      DEF CommitStep, StepStatus, TypeOK, SupervisorTypeOK, OrderInv, AtStepInv, Finished,
          InStep, Ops
  <2>3. AtStepInv'
    BY <1>6
      DEF CommitStep, StepStatus, TypeOK, SupervisorTypeOK, OrderInv, AtStepInv, Finished,
          InStep, Ops, Responses
  <2>4. EndInv'
    BY <1>6
      DEF CommitStep, StepStatus, TypeOK, SupervisorTypeOK, AtStepInv, EndInv, InStep, Ops
  <2>5. BatchTruth'
    BY <1>6
      DEF CommitStep, StepStatus, TypeOK, SupervisorTypeOK, OrderInv, AtStepInv, EndInv,
          Finished, BatchTruth, InStep, Ops
  <2> QED
    BY <2>1, <2>2, <2>3, <2>4, <2>5
<1>7. CASE StepIoFails
  <2>1. TypeOK'
    BY <1>7
      DEF StepIoFails, TypeOK, SupervisorTypeOK, Holder, ProcStates, ReqStates, Responses,
          Pcs, Status, Ops
  <2>2. OrderInv'
    BY <1>7
      DEF StepIoFails, TypeOK, SupervisorTypeOK, OrderInv, AtStepInv, Finished, InStep, Ops
  <2>3. AtStepInv'
    BY <1>7
      DEF StepIoFails, TypeOK, SupervisorTypeOK, OrderInv, AtStepInv, Finished, InStep, Ops,
          Responses
  <2>4. EndInv'
    BY <1>7 DEF StepIoFails, TypeOK, SupervisorTypeOK, AtStepInv, EndInv, InStep, Ops
  <2>5. BatchTruth'
    BY <1>7
      DEF StepIoFails, TypeOK, SupervisorTypeOK, OrderInv, AtStepInv, EndInv, Finished,
          BatchTruth, InStep, Ops
  <2> QED
    BY <2>1, <2>2, <2>3, <2>4, <2>5
<1> QED
  BY <1>1, <1>2, <1>3, <1>4, <1>5, <1>6, <1>7

\* The Err arm, and the way to the next step.
LEMMA LoopStep ==
  ASSUME IInv,
         StepError \/ FailStep \/ FailBatch \/ CheckSession \/ LoopEnds
  PROVE  IInv'
<1> USE StepsAssumption, ThreadsAssumption DEF IInv, Goto, SetOp, AddLog
<1>1. CASE StepError
  <2>1. TypeOK'
    BY <1>1
      DEF StepError, TypeOK, SupervisorTypeOK, Holder, ProcStates, ReqStates, Responses,
          Pcs, Status, Ops, AtStepInv, InStep
  <2>2. OrderInv'
    BY <1>1
      DEF StepError, TypeOK, SupervisorTypeOK, OrderInv, AtStepInv, Finished, InStep, Ops
  <2>3. AtStepInv'
    BY <1>1
      DEF StepError, TypeOK, SupervisorTypeOK, OrderInv, AtStepInv, Finished, InStep, Ops,
          Responses
  <2>4. EndInv'
    BY <1>1 DEF StepError, TypeOK, SupervisorTypeOK, AtStepInv, EndInv, InStep, Ops
  <2>5. BatchTruth'
    BY <1>1
      DEF StepError, TypeOK, SupervisorTypeOK, OrderInv, AtStepInv, EndInv, Finished,
          BatchTruth, InStep, Ops
  <2> QED
    BY <2>1, <2>2, <2>3, <2>4, <2>5
<1>2. CASE FailStep
  <2>1. TypeOK'
    BY <1>2, ZenonT(40)
      DEF FailStep, TypeOK, SupervisorTypeOK, Holder, ProcStates, ReqStates, Responses, Pcs,
          Status, Ops
  <2>2. OrderInv'
    BY <1>2
      DEF FailStep, TypeOK, SupervisorTypeOK, OrderInv, AtStepInv, Finished, InStep, Ops
  <2>3. AtStepInv'
    BY <1>2
      DEF FailStep, TypeOK, SupervisorTypeOK, OrderInv, AtStepInv, Finished, InStep, Ops,
          Responses
  <2>4. EndInv'
    BY <1>2 DEF FailStep, TypeOK, SupervisorTypeOK, AtStepInv, EndInv, InStep, Ops
  <2>5. BatchTruth'
    BY <1>2
      DEF FailStep, TypeOK, SupervisorTypeOK, OrderInv, AtStepInv, EndInv, Finished,
          BatchTruth, InStep, Ops
  <2> QED
    BY <2>1, <2>2, <2>3, <2>4, <2>5
<1>3. CASE FailBatch
  <2>1. TypeOK'
    BY <1>3
      DEF FailBatch, TypeOK, SupervisorTypeOK, Holder, ProcStates, ReqStates, Responses,
          Pcs, Status, Ops
  <2>2. OrderInv'
    BY <1>3
      DEF FailBatch, TypeOK, SupervisorTypeOK, OrderInv, AtStepInv, Finished, InStep, Ops
  <2>3. AtStepInv'
    BY <1>3
      DEF FailBatch, TypeOK, SupervisorTypeOK, OrderInv, AtStepInv, Finished, InStep, Ops,
          Responses
  <2>4. EndInv'
    BY <1>3 DEF FailBatch, TypeOK, SupervisorTypeOK, AtStepInv, EndInv, InStep, Ops
  <2>5. BatchTruth'
    BY <1>3
      DEF FailBatch, TypeOK, SupervisorTypeOK, OrderInv, AtStepInv, EndInv, Finished,
          BatchTruth, InStep, Ops
  <2> QED
    BY <2>1, <2>2, <2>3, <2>4, <2>5
<1>4. CASE CheckSession
  <2>1. TypeOK'
    BY <1>4
      DEF CheckSession, TypeOK, SupervisorTypeOK, Holder, ProcStates, ReqStates, Responses,
          Pcs, Status, Ops, AtStepInv, InStep
  <2>2. OrderInv'
    BY <1>4
      DEF CheckSession, TypeOK, SupervisorTypeOK, OrderInv, AtStepInv, Finished, InStep, Ops
  <2>3. AtStepInv'
    BY <1>4
      DEF CheckSession, TypeOK, SupervisorTypeOK, OrderInv, AtStepInv, Finished, InStep,
          Ops, Responses
  <2>4. EndInv'
    BY <1>4 DEF CheckSession, TypeOK, SupervisorTypeOK, AtStepInv, EndInv, InStep, Ops
  <2>5. BatchTruth'
    BY <1>4
      DEF CheckSession, TypeOK, SupervisorTypeOK, OrderInv, AtStepInv, EndInv, Finished,
          BatchTruth, InStep, Ops
  <2> QED
    BY <2>1, <2>2, <2>3, <2>4, <2>5
<1>5. CASE LoopEnds
  <2>1. TypeOK'
    BY <1>5
      DEF LoopEnds, TypeOK, SupervisorTypeOK, Holder, ProcStates, ReqStates, Responses, Pcs,
          Status, Ops
  <2>2. OrderInv'
    BY <1>5
      DEF LoopEnds, TypeOK, SupervisorTypeOK, OrderInv, AtStepInv, Finished, InStep, Ops
  <2>3. AtStepInv'
    BY <1>5
      DEF LoopEnds, TypeOK, SupervisorTypeOK, OrderInv, AtStepInv, Finished, InStep, Ops,
          Responses
  <2>4. EndInv'
    BY <1>5 DEF LoopEnds, TypeOK, SupervisorTypeOK, AtStepInv, EndInv, InStep, Ops
  <2>5. BatchTruth'
    BY <1>5
      DEF LoopEnds, TypeOK, SupervisorTypeOK, OrderInv, AtStepInv, EndInv, Finished,
          BatchTruth, InStep, Ops
  <2> QED
    BY <2>1, <2>2, <2>3, <2>4, <2>5
<1> QED
  BY <1>1, <1>2, <1>3, <1>4, <1>5

\* The outcome of the batch.
LEMMA EndStep ==
  ASSUME IInv,
         ReadBatch \/ RecordBatch \/ RecordBatchFails \/ CloseBatch
  PROVE  IInv'
<1> USE StepsAssumption, ThreadsAssumption DEF IInv, Goto, SetOp, AddLog
<1>1. CASE ReadBatch
  <2>1. TypeOK'
    BY <1>1
      DEF ReadBatch, TypeOK, SupervisorTypeOK, Holder, ProcStates, ReqStates, Responses,
          Pcs, Status, Ops
  <2>2. OrderInv'
    BY <1>1
      DEF ReadBatch, TypeOK, SupervisorTypeOK, OrderInv, AtStepInv, Finished, InStep, Ops
  <2>3. AtStepInv'
    BY <1>1
      DEF ReadBatch, TypeOK, SupervisorTypeOK, OrderInv, AtStepInv, Finished, InStep, Ops,
          Responses
  <2>4. EndInv'
    BY <1>1 DEF ReadBatch, TypeOK, SupervisorTypeOK, AtStepInv, EndInv, InStep, Ops
  <2>5. BatchTruth'
    BY <1>1
      DEF ReadBatch, TypeOK, SupervisorTypeOK, OrderInv, AtStepInv, EndInv, Finished,
          BatchTruth, InStep, Ops
  <2> QED
    BY <2>1, <2>2, <2>3, <2>4, <2>5
<1>2. CASE RecordBatch
  <2>1. TypeOK'
    BY <1>2
      DEF RecordBatch, BatchStatus, TypeOK, SupervisorTypeOK, Holder, ProcStates, ReqStates,
          Responses, Pcs, Status, Ops
  <2>2. OrderInv'
    BY <1>2
      DEF RecordBatch, BatchStatus, TypeOK, SupervisorTypeOK, OrderInv, AtStepInv, Finished,
          InStep, Ops
  <2>3. AtStepInv'
    BY <1>2
      DEF RecordBatch, BatchStatus, TypeOK, SupervisorTypeOK, OrderInv, AtStepInv, Finished,
          InStep, Ops, Responses
  <2>4. EndInv'
    BY <1>2
      DEF RecordBatch, BatchStatus, TypeOK, SupervisorTypeOK, AtStepInv, EndInv, InStep, Ops
  <2>5. BatchTruth'
    BY <1>2
      DEF RecordBatch, BatchStatus, TypeOK, SupervisorTypeOK, OrderInv, AtStepInv, EndInv,
          Finished, BatchTruth, InStep, Ops
  <2> QED
    BY <2>1, <2>2, <2>3, <2>4, <2>5
<1>3. CASE RecordBatchFails
  <2>1. TypeOK'
    BY <1>3
      DEF RecordBatchFails, TypeOK, SupervisorTypeOK, Holder, ProcStates, ReqStates,
          Responses, Pcs, Status, Ops
  <2>2. OrderInv'
    BY <1>3
      DEF RecordBatchFails, TypeOK, SupervisorTypeOK, OrderInv, AtStepInv, Finished, InStep,
          Ops
  <2>3. AtStepInv'
    BY <1>3
      DEF RecordBatchFails, TypeOK, SupervisorTypeOK, OrderInv, AtStepInv, Finished, InStep,
          Ops, Responses
  <2>4. EndInv'
    BY <1>3 DEF RecordBatchFails, TypeOK, SupervisorTypeOK, AtStepInv, EndInv, InStep, Ops
  <2>5. BatchTruth'
    BY <1>3
      DEF RecordBatchFails, TypeOK, SupervisorTypeOK, OrderInv, AtStepInv, EndInv, Finished,
          BatchTruth, InStep, Ops
  <2> QED
    BY <2>1, <2>2, <2>3, <2>4, <2>5
<1>4. CASE CloseBatch
  <2>1. TypeOK'
    BY <1>4
      DEF CloseBatch, BatchStatus, TypeOK, SupervisorTypeOK, Holder, ProcStates, ReqStates,
          Responses, Pcs, Status, Ops
  <2>2. OrderInv'
    BY <1>4
      DEF CloseBatch, BatchStatus, TypeOK, SupervisorTypeOK, OrderInv, AtStepInv, Finished,
          InStep, Ops
  <2>3. AtStepInv'
    BY <1>4
      DEF CloseBatch, BatchStatus, TypeOK, SupervisorTypeOK, OrderInv, AtStepInv, Finished,
          InStep, Ops, Responses
  <2>4. EndInv'
    BY <1>4
      DEF CloseBatch, BatchStatus, TypeOK, SupervisorTypeOK, AtStepInv, EndInv, InStep, Ops
  <2>5. BatchTruth'
    <3>1. op'[0] = "Success" => \A i \in 1 .. Steps : op'[i] = "Success" /\ "Success" \in log'[i]
      <4> SUFFICES ASSUME BatchStatus = "Success"
                   PROVE  \A i \in 1 .. Steps : op[i] = "Success" /\ "Success" \in log[i]
        BY <1>4 DEF CloseBatch, TypeOK, Ops
      <4>1. failedAt = 0 /\ canceledAt = 0 /\ step > Steps
        BY <1>4 DEF CloseBatch, BatchStatus, EndInv
      <4> QED
        BY <4>1 DEF OrderInv, Finished, TypeOK
    <3>2. ~continueOnError =>
            \A i, j \in 1 .. Steps : i < j /\ op'[i] = "Failed" => op'[j] = "none"
      BY <1>4 DEF CloseBatch, BatchTruth, TypeOK, Ops
    <3>3. op'[0] = "Failed" => sess # "Ready" \/ \E i \in 1 .. Steps : op'[i] = "Failed"
      <4>1. op'[0] = "Failed" => failedAt # 0
        BY <1>4 DEF CloseBatch, BatchStatus, TypeOK, Ops
      <4>2. failedAt # 0 => failedAt \in 1 .. Steps
        BY DEF TypeOK, Ops
      <4>3. failedAt # 0 => op'[failedAt] = op[failedAt]
        BY <4>2, <1>4 DEF CloseBatch, TypeOK, Ops
      <4> QED
        BY <4>1, <4>2, <4>3 DEF EndInv
    <3> QED
      BY <1>4, <3>1, <3>2, <3>3 DEF CloseBatch, BatchTruth
  <2> QED
    BY <2>1, <2>2, <2>3, <2>4, <2>5
<1> QED
  BY <1>1, <1>2, <1>3, <1>4

\* operation.cancel.
LEMMA CancelStep ==
  ASSUME NEW c \in Cancels, IInv,
         BeginCancel(c) \/ CancelLookup(c) \/ CancelTry(c) \/ CancelNotified(c)
         \/ CancelRecord(c)
  PROVE  IInv'
<1> USE StepsAssumption, ThreadsAssumption DEF IInv, Goto, SetOp, AddLog
<1>1. CASE BeginCancel(c)
  <2>1. TypeOK'
    BY <1>1
      DEF BeginCancel, TypeOK, SupervisorTypeOK, Holder, ProcStates, ReqStates, Responses,
          Pcs, Status, Ops
  <2>2. OrderInv'
    BY <1>1
      DEF BeginCancel, TypeOK, SupervisorTypeOK, OrderInv, AtStepInv, Finished, InStep, Ops
  <2>3. AtStepInv'
    BY <1>1
      DEF BeginCancel, TypeOK, SupervisorTypeOK, OrderInv, AtStepInv, Finished, InStep, Ops,
          Responses
  <2>4. EndInv'
    BY <1>1 DEF BeginCancel, TypeOK, SupervisorTypeOK, AtStepInv, EndInv, InStep, Ops
  <2>5. BatchTruth'
    <3>1. \A i \in Ops : op'[i] = op[i] \/ (op[i] = "Running" /\ op'[i] = "Canceled")
      BY <1>1 DEF BeginCancel, TypeOK
    <3>2. UNCHANGED <<log, sess, continueOnError>>
      BY <1>1 DEF BeginCancel
    <3> QED
      BY <3>1, <3>2 DEF BatchTruth, Ops
  <2> QED
    BY <2>1, <2>2, <2>3, <2>4, <2>5
<1>2. CASE CancelLookup(c)
  <2>1. TypeOK'
    BY <1>2
      DEF CancelLookup, TypeOK, SupervisorTypeOK, Holder, ProcStates, ReqStates, Responses,
          Pcs, Status, Ops
  <2>2. OrderInv'
    BY <1>2
      DEF CancelLookup, TypeOK, SupervisorTypeOK, OrderInv, AtStepInv, Finished, InStep, Ops
  <2>3. AtStepInv'
    BY <1>2
      DEF CancelLookup, TypeOK, SupervisorTypeOK, OrderInv, AtStepInv, Finished, InStep,
          Ops, Responses
  <2>4. EndInv'
    BY <1>2 DEF CancelLookup, TypeOK, SupervisorTypeOK, AtStepInv, EndInv, InStep, Ops
  <2>5. BatchTruth'
    BY <1>2
      DEF CancelLookup, TypeOK, SupervisorTypeOK, OrderInv, AtStepInv, EndInv, Finished,
          BatchTruth, InStep, Ops
  <2> QED
    BY <2>1, <2>2, <2>3, <2>4, <2>5
<1>3. CASE CancelTry(c)
  <2>1. TypeOK'
    BY <1>3
      DEF CancelTry, TypeOK, SupervisorTypeOK, Holder, ProcStates, ReqStates, Responses,
          Pcs, Status, Ops
  <2>2. OrderInv'
    BY <1>3
      DEF CancelTry, TypeOK, SupervisorTypeOK, OrderInv, AtStepInv, Finished, InStep, Ops
  <2>3. AtStepInv'
    BY <1>3
      DEF CancelTry, TypeOK, SupervisorTypeOK, OrderInv, AtStepInv, Finished, InStep, Ops,
          Responses
  <2>4. EndInv'
    BY <1>3 DEF CancelTry, TypeOK, SupervisorTypeOK, AtStepInv, EndInv, InStep, Ops
  <2>5. BatchTruth'
    BY <1>3
      DEF CancelTry, TypeOK, SupervisorTypeOK, OrderInv, AtStepInv, EndInv, Finished,
          BatchTruth, InStep, Ops
  <2> QED
    BY <2>1, <2>2, <2>3, <2>4, <2>5
<1>4. CASE CancelNotified(c)
  <2>1. TypeOK'
    BY <1>4
      DEF CancelNotified, TypeOK, SupervisorTypeOK, Holder, ProcStates, ReqStates,
          Responses, Pcs, Status, Ops
  <2>2. OrderInv'
    BY <1>4
      DEF CancelNotified, TypeOK, SupervisorTypeOK, OrderInv, AtStepInv, Finished, InStep,
          Ops
  <2>3. AtStepInv'
    BY <1>4
      DEF CancelNotified, TypeOK, SupervisorTypeOK, OrderInv, AtStepInv, Finished, InStep,
          Ops, Responses
  <2>4. EndInv'
    BY <1>4 DEF CancelNotified, TypeOK, SupervisorTypeOK, AtStepInv, EndInv, InStep, Ops
  <2>5. BatchTruth'
    BY <1>4
      DEF CancelNotified, TypeOK, SupervisorTypeOK, OrderInv, AtStepInv, EndInv, Finished,
          BatchTruth, InStep, Ops
  <2> QED
    BY <2>1, <2>2, <2>3, <2>4, <2>5
<1>5. CASE CancelRecord(c)
  <2>1. TypeOK'
    <3>1. log' \in [Ops -> SUBSET Status]
      <4>1. CASE AddLog(target[c], "Canceled")
        BY <4>1, StepsAssumption DEF TypeOK, Status
      <4>2. CASE UNCHANGED log
        BY <4>2 DEF TypeOK
      <4> QED
        BY <1>5, <4>1, <4>2 DEF CancelRecord
    <3> QED
      BY <1>5, <3>1 DEF CancelRecord, TypeOK, SupervisorTypeOK, Pcs
  <2>2. OrderInv'
    BY <1>5
      DEF CancelRecord, TypeOK, SupervisorTypeOK, OrderInv, AtStepInv, Finished, InStep, Ops
  <2>3. AtStepInv'
    BY <1>5, SMTT(20)
      DEF CancelRecord, TypeOK, SupervisorTypeOK, OrderInv, AtStepInv, Finished, InStep,
          Ops, Responses
  <2>4. EndInv'
    BY <1>5 DEF CancelRecord, TypeOK, SupervisorTypeOK, AtStepInv, EndInv, InStep, Ops
  <2>5. BatchTruth'
    <3>1. \A i \in Ops : log[i] \subseteq log'[i]
      BY <1>5 DEF CancelRecord, TypeOK
    <3>2. UNCHANGED <<op, sess, continueOnError>>
      BY <1>5 DEF CancelRecord
    <3> QED
      BY <3>1, <3>2 DEF BatchTruth, Ops
  <2> QED
    BY <2>1, <2>2, <2>3, <2>4, <2>5
<1> QED
  BY <1>1, <1>2, <1>3, <1>4, <1>5

\* kill_worker, and the request of any thread.
LEMMA KillStep ==
  ASSUME NEW t \in Threads, IInv,
         KillRemove(t) \/ KillReap(t) \/ Mark(t) \/ Transport(t) \/ Answer(t)
  PROVE  IInv'
<1> USE StepsAssumption, ThreadsAssumption DEF IInv, Goto, SetOp, AddLog
<1>1. CASE KillRemove(t)
  <2>1. TypeOK'
    BY <1>1, ZenonT(40)
      DEF KillRemove, RemoveWorker, TypeOK, SupervisorTypeOK, Holder, ProcStates, ReqStates,
          Responses, Pcs, Status, Ops
  <2>2. OrderInv'
    BY <1>1
      DEF KillRemove, RemoveWorker, TypeOK, SupervisorTypeOK, OrderInv, AtStepInv, Finished,
          InStep, Ops
  <2>3. AtStepInv'
    BY <1>1
      DEF KillRemove, RemoveWorker, TypeOK, SupervisorTypeOK, OrderInv, AtStepInv, Finished,
          InStep, Ops, Responses
  <2>4. EndInv'
    BY <1>1
      DEF KillRemove, RemoveWorker, TypeOK, SupervisorTypeOK, AtStepInv, EndInv, InStep, Ops
  <2>5. BatchTruth'
    BY <1>1
      DEF KillRemove, RemoveWorker, TypeOK, SupervisorTypeOK, OrderInv, AtStepInv, EndInv,
          Finished, BatchTruth, InStep, Ops
  <2> QED
    BY <2>1, <2>2, <2>3, <2>4, <2>5
<1>2. CASE KillReap(t)
  <2>1. TypeOK'
    BY <1>2
      DEF KillReap, KillChild, TypeOK, SupervisorTypeOK, Holder, ProcStates, ReqStates,
          Responses, Pcs, Status, Ops
  <2>2. OrderInv'
    BY <1>2
      DEF KillReap, KillChild, TypeOK, SupervisorTypeOK, OrderInv, AtStepInv, Finished,
          InStep, Ops
  <2>3. AtStepInv'
    BY <1>2
      DEF KillReap, KillChild, TypeOK, SupervisorTypeOK, OrderInv, AtStepInv, Finished,
          InStep, Ops, Responses
  <2>4. EndInv'
    BY <1>2
      DEF KillReap, KillChild, TypeOK, SupervisorTypeOK, AtStepInv, EndInv, InStep, Ops
  <2>5. BatchTruth'
    BY <1>2
      DEF KillReap, KillChild, TypeOK, SupervisorTypeOK, OrderInv, AtStepInv, EndInv,
          Finished, BatchTruth, InStep, Ops
  <2> QED
    BY <2>1, <2>2, <2>3, <2>4, <2>5
<1>3. CASE Mark(t)
  <2>1. TypeOK'
    BY <1>3
      DEF Mark, TypeOK, SupervisorTypeOK, Holder, ProcStates, ReqStates, Responses, Pcs,
          Status, Ops
  <2>2. OrderInv'
    BY <1>3 DEF Mark, TypeOK, SupervisorTypeOK, OrderInv, AtStepInv, Finished, InStep, Ops
  <2>3. AtStepInv'
    BY <1>3
      DEF Mark, TypeOK, SupervisorTypeOK, OrderInv, AtStepInv, Finished, InStep, Ops,
          Responses
  <2>4. EndInv'
    BY <1>3 DEF Mark, TypeOK, SupervisorTypeOK, AtStepInv, EndInv, InStep, Ops
  <2>5. BatchTruth'
    BY <1>3
      DEF Mark, TypeOK, SupervisorTypeOK, OrderInv, AtStepInv, EndInv, Finished, BatchTruth,
          InStep, Ops
  <2> QED
    BY <2>1, <2>2, <2>3, <2>4, <2>5
<1>4. CASE Transport(t)
  <2>1. TypeOK'
    BY <1>4
      DEF Transport, LookupWorker, LockTransport, PipeBroken, TypeOK, SupervisorTypeOK,
          Holder, ProcStates, ReqStates, Responses, Pcs, Status, Ops
  <2>2. OrderInv'
    BY <1>4
      DEF Transport, LookupWorker, LockTransport, PipeBroken, TypeOK, SupervisorTypeOK,
          OrderInv, AtStepInv, Finished, InStep, Ops
  <2>3. AtStepInv'
    BY <1>4
      DEF Transport, LookupWorker, LockTransport, PipeBroken, TypeOK, SupervisorTypeOK,
          OrderInv, AtStepInv, Finished, InStep, Ops, Responses
  <2>4. EndInv'
    BY <1>4
      DEF Transport, LookupWorker, LockTransport, PipeBroken, TypeOK, SupervisorTypeOK,
          AtStepInv, EndInv, InStep, Ops
  <2>5. BatchTruth'
    BY <1>4
      DEF Transport, LookupWorker, LockTransport, PipeBroken, TypeOK, SupervisorTypeOK,
          OrderInv, AtStepInv, EndInv, Finished, BatchTruth, InStep, Ops
  <2> QED
    BY <2>1, <2>2, <2>3, <2>4, <2>5
<1>5. CASE Answer(t)
  <2>1. TypeOK'
    BY <1>5
      DEF Answer, WorkerAnswers, TypeOK, SupervisorTypeOK, Holder, ProcStates, ReqStates,
          Responses, Pcs, Status, Ops
  <2>2. OrderInv'
    BY <1>5
      DEF Answer, WorkerAnswers, TypeOK, SupervisorTypeOK, OrderInv, AtStepInv, Finished,
          InStep, Ops
  <2>3. AtStepInv'
    BY <1>5
      DEF Answer, WorkerAnswers, TypeOK, SupervisorTypeOK, OrderInv, AtStepInv, Finished,
          InStep, Ops, Responses
  <2>4. EndInv'
    BY <1>5
      DEF Answer, WorkerAnswers, TypeOK, SupervisorTypeOK, AtStepInv, EndInv, InStep, Ops
  <2>5. BatchTruth'
    BY <1>5
      DEF Answer, WorkerAnswers, TypeOK, SupervisorTypeOK, OrderInv, AtStepInv, EndInv,
          Finished, BatchTruth, InStep, Ops
  <2> QED
    BY <2>1, <2>2, <2>3, <2>4, <2>5
<1> QED
  BY <1>1, <1>2, <1>3, <1>4, <1>5

\* debug.session.kill begins, the worker dies.
LEMMA AroundStep ==
  ASSUME IInv,
         BeginKill \/ Crash
  PROVE  IInv'
<1> USE StepsAssumption, ThreadsAssumption DEF IInv, Goto, SetOp, AddLog
<1>1. CASE BeginKill
  <2>1. TypeOK'
    BY <1>1
      DEF BeginKill, TypeOK, SupervisorTypeOK, Holder, ProcStates, ReqStates, Responses,
          Pcs, Status, Ops
  <2>2. OrderInv'
    BY <1>1
      DEF BeginKill, TypeOK, SupervisorTypeOK, OrderInv, AtStepInv, Finished, InStep, Ops
  <2>3. AtStepInv'
    BY <1>1
      DEF BeginKill, TypeOK, SupervisorTypeOK, OrderInv, AtStepInv, Finished, InStep, Ops,
          Responses
  <2>4. EndInv'
    BY <1>1 DEF BeginKill, TypeOK, SupervisorTypeOK, AtStepInv, EndInv, InStep, Ops
  <2>5. BatchTruth'
    BY <1>1
      DEF BeginKill, TypeOK, SupervisorTypeOK, OrderInv, AtStepInv, EndInv, Finished,
          BatchTruth, InStep, Ops
  <2> QED
    BY <2>1, <2>2, <2>3, <2>4, <2>5
<1>2. CASE Crash
  <2>1. TypeOK'
    BY <1>2
      DEF Crash, WorkerCrash, TypeOK, SupervisorTypeOK, Holder, ProcStates, ReqStates,
          Responses, Pcs, Status, Ops
  <2>2. OrderInv'
    BY <1>2
      DEF Crash, WorkerCrash, TypeOK, SupervisorTypeOK, OrderInv, AtStepInv, Finished,
          InStep, Ops
  <2>3. AtStepInv'
    BY <1>2
      DEF Crash, WorkerCrash, TypeOK, SupervisorTypeOK, OrderInv, AtStepInv, Finished,
          InStep, Ops, Responses
  <2>4. EndInv'
    BY <1>2 DEF Crash, WorkerCrash, TypeOK, SupervisorTypeOK, AtStepInv, EndInv, InStep, Ops
  <2>5. BatchTruth'
    BY <1>2
      DEF Crash, WorkerCrash, TypeOK, SupervisorTypeOK, OrderInv, AtStepInv, EndInv,
          Finished, BatchTruth, InStep, Ops
  <2> QED
    BY <2>1, <2>2, <2>3, <2>4, <2>5
<1> QED
  BY <1>1, <1>2

LEMMA StutterStep == ASSUME IInv, UNCHANGED vars PROVE IInv'
<1> USE DEF IInv
<1>1. TypeOK'
  BY DEF TypeOK, SupervisorTypeOK
<1>2. OrderInv' /\ AtStepInv'
  BY DEF OrderInv, AtStepInv, Finished
<1>3. EndInv' /\ BatchTruth'
  BY DEF EndInv, BatchTruth
<1> QED
  BY <1>1, <1>2, <1>3

\* IInv is an invariant: the batch keeps its account of its steps through every
\* interleaving of cancels, a kill, timeouts, refused writes and a dying worker.
THEOREM BatchInvariance == Spec => []IInv
<1>1. IInv /\ [Next]_vars => IInv'
  <2> SUFFICES ASSUME IInv, [Next]_vars PROVE IInv'
    OBVIOUS
  <2>1. CASE Quiet \/ UNCHANGED vars
    BY <2>1, StutterStep DEF Quiet
  <2>2. CASE BatchRuns \/ StepIoFails \/ RecordBatchFails
    BY <2>2, StepStep, LoopStep, EndStep DEF BatchRuns
  <2>3. ASSUME NEW c \in Cancels, BeginCancel(c) \/ CancelRuns(c) PROVE IInv'
    BY <2>3, CancelStep DEF CancelRuns
  <2>4. ASSUME NEW t \in Threads, Killing(t) \/ Transport(t) \/ Answer(t) PROVE IInv'
    BY <2>4, KillStep DEF Killing
  <2>5. CASE BeginKill \/ Crash
    BY <2>5, AroundStep
  <2> QED
    BY <2>1, <2>2, <2>3, <2>4, <2>5 DEF Next
<1> QED
  BY InitInv, <1>1, PTL DEF Spec

\* Every variable of the batch, the cancels, the kill and the worker keeps its type.
THEOREM BatchTypeCorrect == Spec => []TypeOK
<1>1. IInv => TypeOK
  BY DEF IInv
<1> QED
  BY <1>1, BatchInvariance, PTL

\* debug.eval_steps tells the truth about its commands, however many there are.
THEOREM BatchIsTrue == Spec => []BatchTruth
<1>1. IInv => BatchTruth
  BY DEF IInv
<1> QED
  BY <1>1, BatchInvariance, PTL
=============================================================================
