------------------------ MODULE SessionCreateProofs ------------------------
(***************************************************************************)
(* Proofs about SessionCreate, for every number of engines and every kind  *)
(* of target: IInv is inductive, and the safety properties follow from it. *)
(***************************************************************************)
EXTENDS SessionCreate, TLAPS

USE DEF vars, requestVars, roundVars, workerVars, outcomeVars

\* Slots are the numbers from 1 to twice the number of engines.
LEMMA SlotRange ==
  ASSUME NEW s
  PROVE  s \in Slots <=> s \in Nat /\ 1 <= s /\ s <= 2 * Engines
  BY CreateAssumption DEF Slots

\* The number of attempts in a round.
LEMMA AttemptRange == Attempts \in Nat /\ 1 <= Attempts /\ Attempts <= Engines
  BY CreateAssumption DEF Attempts

LEMMA InitInv == Init => IInv
<1> SUFFICES ASSUME Init PROVE IInv
  OBVIOUS
<1>1. TypeOK
  <2>1. target \in TargetKinds /\ attempt \in 1..Engines
    BY CreateAssumption DEF Init
  <2>2. proc \in [Slots -> {"none", "up", "exited"}] /\ inJob \in [Slots -> BOOLEAN]
    BY DEF Init
  <2> QED
    BY <2>1, <2>2 DEF Init, TypeOK
<1>2. RoundInv
  BY AttemptRange, CreateAssumption DEF Init, RoundInv
<1>3. WorkerInv /\ OutcomeInv
  BY DEF Init, WorkerInv, OutcomeInv, NoLiveWorker, Live
<1> QED
  BY <1>1, <1>2, <1>3 DEF IInv

\* The steps of create_worker keep the invariant.
LEMMA CreateStep ==
  ASSUME IInv,
         OpenWorkspace \/ OpenWorkspaceFails \/ SpawnWorker \/ SpawnFails \/ AssignJob
         \/ Connect \/ CreateWorkerFails
  PROVE  IInv'
<1> USE CreateAssumption, AttemptRange, SlotRange DEF IInv, Goto, PushFailure, KillChild
<1>1. CASE OpenWorkspace
  <2>1. TypeOK'
    BY <1>1 DEF OpenWorkspace, TypeOK, RoundInv, WorkerInv
  <2>2. RoundInv'
    BY <1>1 DEF OpenWorkspace, TypeOK, RoundInv, Attempts, MayRetry
  <2>3. WorkerInv'
    BY <1>1 DEF OpenWorkspace, TypeOK, WorkerInv, NoLiveWorker, Live
  <2>4. OutcomeInv'
    BY <1>1 DEF OpenWorkspace, TypeOK, WorkerInv, OutcomeInv, NoLiveWorker, Live
  <2> QED
    BY <2>1, <2>2, <2>3, <2>4
<1>2. CASE OpenWorkspaceFails
  <2>1. TypeOK'
    BY <1>2 DEF OpenWorkspaceFails, TypeOK, RoundInv, WorkerInv
  <2>2. RoundInv'
    BY <1>2 DEF OpenWorkspaceFails, TypeOK, RoundInv, Attempts, MayRetry
  <2>3. WorkerInv'
    BY <1>2 DEF OpenWorkspaceFails, TypeOK, WorkerInv, NoLiveWorker, Live
  <2>4. OutcomeInv'
    BY <1>2 DEF OpenWorkspaceFails, TypeOK, WorkerInv, OutcomeInv, NoLiveWorker, Live
  <2> QED
    BY <2>1, <2>2, <2>3, <2>4
<1>3. CASE SpawnWorker
  <2>1. TypeOK'
    BY <1>3 DEF SpawnWorker, TypeOK, RoundInv, WorkerInv
  <2>2. RoundInv'
    BY <1>3 DEF SpawnWorker, TypeOK, RoundInv, Attempts, MayRetry
  <2>3. WorkerInv'
    BY <1>3 DEF SpawnWorker, TypeOK, WorkerInv, NoLiveWorker, Live
  <2>4. OutcomeInv'
    BY <1>3 DEF SpawnWorker, TypeOK, WorkerInv, OutcomeInv, NoLiveWorker, Live
  <2> QED
    BY <2>1, <2>2, <2>3, <2>4
<1>4. CASE SpawnFails
  <2>1. TypeOK'
    BY <1>4 DEF SpawnFails, TypeOK, RoundInv, WorkerInv
  <2>2. RoundInv'
    BY <1>4 DEF SpawnFails, TypeOK, RoundInv, Attempts, MayRetry
  <2>3. WorkerInv'
    BY <1>4 DEF SpawnFails, TypeOK, WorkerInv, NoLiveWorker, Live
  <2>4. OutcomeInv'
    BY <1>4 DEF SpawnFails, TypeOK, WorkerInv, OutcomeInv, NoLiveWorker, Live
  <2> QED
    BY <2>1, <2>2, <2>3, <2>4
<1>5. CASE AssignJob
  <2>1. TypeOK'
    BY <1>5 DEF AssignJob, TypeOK, RoundInv, WorkerInv
  <2>2. RoundInv'
    BY <1>5 DEF AssignJob, TypeOK, RoundInv, Attempts, MayRetry
  <2>3. WorkerInv'
    BY <1>5 DEF AssignJob, TypeOK, WorkerInv, NoLiveWorker, Live
  <2>4. OutcomeInv'
    BY <1>5 DEF AssignJob, TypeOK, WorkerInv, OutcomeInv, NoLiveWorker, Live
  <2> QED
    BY <2>1, <2>2, <2>3, <2>4
<1>6. CASE Connect
  <2>1. TypeOK'
    BY <1>6 DEF Connect, TypeOK, RoundInv, WorkerInv
  <2>2. RoundInv'
    BY <1>6 DEF Connect, TypeOK, RoundInv, Attempts, MayRetry
  <2>3. WorkerInv'
    BY <1>6 DEF Connect, TypeOK, WorkerInv, NoLiveWorker, Live
  <2>4. OutcomeInv'
    BY <1>6 DEF Connect, TypeOK, WorkerInv, OutcomeInv, NoLiveWorker, Live
  <2> QED
    BY <2>1, <2>2, <2>3, <2>4
<1>7. CASE CreateWorkerFails
  <2>1. TypeOK'
    BY <1>7 DEF CreateWorkerFails, TypeOK, RoundInv, WorkerInv
  <2>2. RoundInv'
    BY <1>7 DEF CreateWorkerFails, TypeOK, RoundInv, Attempts, MayRetry
  <2>3. WorkerInv'
    BY <1>7 DEF CreateWorkerFails, TypeOK, WorkerInv, NoLiveWorker, Live
  <2>4. OutcomeInv'
    BY <1>7 DEF CreateWorkerFails, TypeOK, WorkerInv, OutcomeInv, NoLiveWorker, Live
  <2> QED
    BY <2>1, <2>2, <2>3, <2>4
<1> QED
  BY <1>1, <1>2, <1>3, <1>4, <1>5, <1>6, <1>7

\* So do the steps of try_start_debug_worker and the retry,
LEMMA StartStep ==
  ASSUME IInv, StartSucceeds \/ StartFails \/ StartBroken \/ KillAttempt \/ RetryAsUser \/ GiveUp
  PROVE  IInv'
<1> USE CreateAssumption, AttemptRange, SlotRange DEF IInv, Goto, PushFailure, KillChild
<1>1. CASE StartSucceeds
  <2>1. TypeOK'
    BY <1>1 DEF StartSucceeds, TypeOK, RoundInv, WorkerInv
  <2>2. RoundInv'
    BY <1>1 DEF StartSucceeds, TypeOK, RoundInv, Attempts, MayRetry
  <2>3. WorkerInv'
    BY <1>1 DEF StartSucceeds, TypeOK, WorkerInv, NoLiveWorker, Live
  <2>4. OutcomeInv'
    BY <1>1 DEF StartSucceeds, TypeOK, WorkerInv, OutcomeInv, NoLiveWorker, Live
  <2> QED
    BY <2>1, <2>2, <2>3, <2>4
<1>2. CASE StartFails
  <2>1. TypeOK'
    BY <1>2 DEF StartFails, TypeOK, RoundInv, WorkerInv
  <2>2. RoundInv'
    BY <1>2 DEF StartFails, TypeOK, RoundInv, Attempts, MayRetry
  <2>3. WorkerInv'
    BY <1>2 DEF StartFails, TypeOK, WorkerInv, NoLiveWorker, Live
  <2>4. OutcomeInv'
    BY <1>2 DEF StartFails, TypeOK, WorkerInv, OutcomeInv, NoLiveWorker, Live
  <2> QED
    BY <2>1, <2>2, <2>3, <2>4
<1>3. CASE StartBroken
  <2>1. TypeOK'
    BY <1>3 DEF StartBroken, TypeOK, RoundInv, WorkerInv
  <2>2. RoundInv'
    BY <1>3 DEF StartBroken, TypeOK, RoundInv, Attempts, MayRetry
  <2>3. WorkerInv'
    BY <1>3 DEF StartBroken, TypeOK, WorkerInv, NoLiveWorker, Live
  <2>4. OutcomeInv'
    BY <1>3 DEF StartBroken, TypeOK, WorkerInv, OutcomeInv, NoLiveWorker, Live
  <2> QED
    BY <2>1, <2>2, <2>3, <2>4
<1>4. CASE KillAttempt
  <2>1. TypeOK'
    BY <1>4 DEF KillAttempt, TypeOK, RoundInv, WorkerInv
  <2>2. RoundInv'
    BY <1>4 DEF KillAttempt, TypeOK, RoundInv, Attempts, MayRetry
  <2>3. WorkerInv'
    BY <1>4 DEF KillAttempt, TypeOK, WorkerInv, NoLiveWorker, Live
  <2>4. OutcomeInv'
    BY <1>4 DEF KillAttempt, TypeOK, WorkerInv, OutcomeInv, NoLiveWorker, Live
  <2> QED
    BY <2>1, <2>2, <2>3, <2>4
<1>5. CASE RetryAsUser
  <2>1. TypeOK'
    BY <1>5 DEF RetryAsUser, TypeOK, RoundInv, WorkerInv
  <2>2. RoundInv'
    BY <1>5 DEF RetryAsUser, TypeOK, RoundInv, Attempts, MayRetry
  <2>3. WorkerInv'
    BY <1>5 DEF RetryAsUser, TypeOK, WorkerInv, NoLiveWorker, Live
  <2>4. OutcomeInv'
    BY <1>5 DEF RetryAsUser, TypeOK, WorkerInv, OutcomeInv, NoLiveWorker, Live
  <2> QED
    BY <2>1, <2>2, <2>3, <2>4
<1>6. CASE GiveUp
  <2>1. TypeOK'
    BY <1>6 DEF GiveUp, TypeOK, RoundInv, WorkerInv
  <2>2. RoundInv'
    BY <1>6 DEF GiveUp, TypeOK, RoundInv, Attempts, MayRetry
  <2>3. WorkerInv'
    BY <1>6 DEF GiveUp, TypeOK, WorkerInv, NoLiveWorker, Live
  <2>4. OutcomeInv'
    BY <1>6 DEF GiveUp, TypeOK, WorkerInv, OutcomeInv, NoLiveWorker, Live
  <2> QED
    BY <2>1, <2>2, <2>3, <2>4
<1> QED
  BY <1>1, <1>2, <1>3, <1>4, <1>5, <1>6

\* the steps that write down and publish the outcome,
LEMMA RecordStep ==
  ASSUME IInv,
         RecordFailed \/ ReportFailed \/ RegisterWrites \/ AppendOperation \/ RecordFails
         \/ Publish
  PROVE  IInv'
<1> USE CreateAssumption, AttemptRange, SlotRange DEF IInv, Goto, PushFailure, KillChild
<1>1. CASE RecordFailed
  <2>1. TypeOK'
    BY <1>1 DEF RecordFailed, TypeOK, RoundInv, WorkerInv
  <2>2. RoundInv'
    BY <1>1 DEF RecordFailed, TypeOK, RoundInv, Attempts, MayRetry
  <2>3. WorkerInv'
    BY <1>1 DEF RecordFailed, TypeOK, WorkerInv, NoLiveWorker, Live
  <2>4. OutcomeInv'
    BY <1>1 DEF RecordFailed, TypeOK, WorkerInv, OutcomeInv, NoLiveWorker, Live
  <2> QED
    BY <2>1, <2>2, <2>3, <2>4
<1>2. CASE ReportFailed
  <2>1. TypeOK'
    BY <1>2 DEF ReportFailed, TypeOK, RoundInv, WorkerInv
  <2>2. RoundInv'
    BY <1>2 DEF ReportFailed, TypeOK, RoundInv, Attempts, MayRetry
  <2>3. WorkerInv'
    BY <1>2 DEF ReportFailed, TypeOK, WorkerInv, NoLiveWorker, Live
  <2>4. OutcomeInv'
    BY <1>2 DEF ReportFailed, TypeOK, WorkerInv, OutcomeInv, NoLiveWorker, Live
  <2> QED
    BY <2>1, <2>2, <2>3, <2>4
<1>3. CASE RegisterWrites
  <2>1. TypeOK'
    BY <1>3 DEF RegisterWrites, TypeOK, RoundInv, WorkerInv
  <2>2. RoundInv'
    BY <1>3 DEF RegisterWrites, TypeOK, RoundInv, Attempts, MayRetry
  <2>3. WorkerInv'
    BY <1>3 DEF RegisterWrites, TypeOK, WorkerInv, NoLiveWorker, Live
  <2>4. OutcomeInv'
    BY <1>3 DEF RegisterWrites, TypeOK, WorkerInv, OutcomeInv, NoLiveWorker, Live
  <2> QED
    BY <2>1, <2>2, <2>3, <2>4
<1>4. CASE AppendOperation
  <2>1. TypeOK'
    BY <1>4 DEF AppendOperation, TypeOK, RoundInv, WorkerInv
  <2>2. RoundInv'
    BY <1>4 DEF AppendOperation, TypeOK, RoundInv, Attempts, MayRetry
  <2>3. WorkerInv'
    BY <1>4 DEF AppendOperation, TypeOK, WorkerInv, NoLiveWorker, Live
  <2>4. OutcomeInv'
    BY <1>4 DEF AppendOperation, TypeOK, WorkerInv, OutcomeInv, NoLiveWorker, Live
  <2> QED
    BY <2>1, <2>2, <2>3, <2>4
<1>5. CASE RecordFails
  <2>1. TypeOK'
    BY <1>5 DEF RecordFails, TypeOK, RoundInv, WorkerInv
  <2>2. RoundInv'
    BY <1>5 DEF RecordFails, TypeOK, RoundInv, Attempts, MayRetry
  <2>3. WorkerInv'
    BY <1>5 DEF RecordFails, TypeOK, WorkerInv, NoLiveWorker, Live
  <2>4. OutcomeInv'
    BY <1>5 DEF RecordFails, TypeOK, WorkerInv, OutcomeInv, NoLiveWorker, Live
  <2> QED
    BY <2>1, <2>2, <2>3, <2>4
<1>6. CASE Publish
  <2>1. TypeOK'
    BY <1>6 DEF Publish, TypeOK, RoundInv, WorkerInv
  <2>2. RoundInv'
    BY <1>6 DEF Publish, TypeOK, RoundInv, Attempts, MayRetry
  <2>3. WorkerInv'
    BY <1>6 DEF Publish, TypeOK, WorkerInv, NoLiveWorker, Live
  <2>4. OutcomeInv'
    BY <1>6 DEF Publish, TypeOK, WorkerInv, OutcomeInv, NoLiveWorker, Live
  <2> QED
    BY <2>1, <2>2, <2>3, <2>4
<1> QED
  BY <1>1, <1>2, <1>3, <1>4, <1>5, <1>6

\* and the end of the service.
LEMMA ExitStep ==
  ASSUME IInv, ServiceDies \/ ServiceStops
  PROVE  IInv'
<1> USE CreateAssumption, AttemptRange, SlotRange DEF IInv, Goto, PushFailure, KillChild
<1>1. CASE ServiceDies
  <2>1. TypeOK'
    BY <1>1 DEF ServiceDies, TypeOK, RoundInv, WorkerInv
  <2>2. RoundInv'
    BY <1>1 DEF ServiceDies, TypeOK, RoundInv, Attempts, MayRetry
  <2>3. WorkerInv'
    BY <1>1 DEF ServiceDies, TypeOK, WorkerInv, NoLiveWorker, Live
  <2>4. OutcomeInv'
    BY <1>1 DEF ServiceDies, TypeOK, WorkerInv, OutcomeInv, NoLiveWorker, Live
  <2> QED
    BY <2>1, <2>2, <2>3, <2>4
<1>2. CASE ServiceStops
  <2>1. TypeOK'
    BY <1>2 DEF ServiceStops, TypeOK, RoundInv, WorkerInv
  <2>2. RoundInv'
    BY <1>2 DEF ServiceStops, TypeOK, RoundInv, Attempts, MayRetry
  <2>3. WorkerInv'
    BY <1>2 DEF ServiceStops, TypeOK, WorkerInv, NoLiveWorker, Live
  <2>4. OutcomeInv'
    BY <1>2 DEF ServiceStops, TypeOK, WorkerInv, OutcomeInv, NoLiveWorker, Live
  <2> QED
    BY <2>1, <2>2, <2>3, <2>4
<1> QED
  BY <1>1, <1>2

\* The processes end by themselves, or with the job or the pipe.
LEMMA ProcessStep ==
  ASSUME IInv, NEW s \in Slots, WorkerCrash(s) \/ JobCloses(s) \/ PipeCloses(s)
  PROVE  IInv'
<1> USE DEF IInv
<1>1. /\ proc' = [proc EXCEPT ![s] = "exited"]
      /\ UNCHANGED <<service, cpc, requestVars, roundVars, slot, inJob, registry, outcomeVars>>
  BY DEF WorkerCrash, JobCloses, PipeCloses
<1>2. TypeOK'
  BY <1>1 DEF TypeOK
<1>3. RoundInv'
  BY <1>1 DEF RoundInv, Attempts
<1>4. \A r \in Slots : Live(r)' => Live(r)
  BY <1>1 DEF Live, TypeOK
<1>5. WorkerInv'
  BY <1>1, <1>4 DEF WorkerInv, NoLiveWorker
<1>6. OutcomeInv'
  BY <1>1, <1>4 DEF OutcomeInv, NoLiveWorker
<1> QED
  BY <1>2, <1>3, <1>5, <1>6

LEMMA StutterStep == ASSUME IInv, UNCHANGED vars PROVE IInv'
  BY DEF IInv, TypeOK, RoundInv, Attempts, WorkerInv, OutcomeInv, NoLiveWorker, Live

\* IInv is an invariant: debug_session_create, with any number of engines and any
\* failures, including the end of the service, never leaves the states it describes.
THEOREM CreateInvariance == Spec => []IInv
<1>1. IInv /\ [Next]_vars => IInv'
  <2> SUFFICES ASSUME IInv, [Next]_vars PROVE IInv'
    OBVIOUS
  <2>1. CASE \E s \in Slots : WorkerCrash(s) \/ JobCloses(s) \/ PipeCloses(s)
    BY <2>1, ProcessStep
  <2>2. CASE Quiet \/ UNCHANGED vars
    BY <2>2, StutterStep DEF Quiet
  <2> QED
    BY <2>1, <2>2, CreateStep, StartStep, RecordStep, ExitStep DEF Next
<1> QED
  BY InitInv, <1>1, PTL DEF Spec

\* The attempts never outnumber the slots, and every variable keeps its type.
THEOREM CreateTypeCorrect == Spec => []TypeOK
<1>1. IInv => TypeOK
  BY DEF IInv
<1> QED
  BY <1>1, CreateInvariance, PTL

\* Every attempt of debug_session_create ends its worker before the next begins.
THEOREM WorkersOneByOne == Spec => []OneWorkerAtATime
<1>1. IInv => OneWorkerAtATime
  BY DEF IInv, WorkerInv, OneWorkerAtATime, NoLiveWorker
<1> QED
  BY <1>1, CreateInvariance, PTL

\* A creation recorded as failed has left no worker, registered or alive.
THEOREM FailureIsClean == Spec => []FailureLeavesNoWorker
<1>1. IInv => FailureLeavesNoWorker
  BY DEF IInv, OutcomeInv, FailureLeavesNoWorker, NoLiveWorker
<1> QED
  BY <1>1, CreateInvariance, PTL

\* A session that clients can find owns the registered worker and is on record.
THEOREM SessionIsBound == Spec => []SessionBound
<1>1. IInv => SessionBound
  BY DEF IInv, TypeOK, WorkerInv, OutcomeInv, SessionBound
<1> QED
  BY <1>1, CreateInvariance, PTL
=============================================================================
