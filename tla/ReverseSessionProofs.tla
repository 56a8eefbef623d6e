------------------------ MODULE ReverseSessionProofs ------------------------
(***************************************************************************)
(* Proofs about ReverseSession, for any number of RPCs of the session:     *)
(* IInv is inductive, and the safety properties follow from it.            *)
(***************************************************************************)
EXTENDS ReverseSession, TLAPS

USE DEF vars, svcVars, supervisorVars

LEMMA InitInv == Init => IInv
<1> SUFFICES ASSUME Init PROVE IInv
  OBVIOUS
<1> USE ReverseAssumption, ThreadsAssumption DEF Init
<1>1. TypeOK
  BY
    DEF TypeOK, SupervisorTypeOK, Holder, ProcStates, ReqStates, Responses, Pcs, Status,
        Kinds
<1>2. OpenInv /\ ClientInv
  BY DEF OpenInv, ClientInv, Clients, Kinds
<1>3. CloseInv
  BY DEF CloseInv, Clients, Closer
<1> QED
  BY <1>1, <1>2, <1>3 DEF IInv

\* reverse.session.open.
LEMMA OpenStep ==
  ASSUME NEW t \in Threads, IInv,
         CreateWorker(t) \/ Opened(t) \/ Publish(t) \/ PublishFails(t) \/ CleanedUp(t)
  PROVE  IInv'
<1> USE ReverseAssumption, ThreadsAssumption DEF IInv, Goto
<1>1. CASE CreateWorker(t)
  <2>1. TypeOK'
    BY <1>1, ZenonT(40)
      DEF CreateWorker, TypeOK, SupervisorTypeOK, Holder, ProcStates, ReqStates, Responses,
          Pcs, Kinds, Status
  <2>2. OpenInv'
    BY <1>1 DEF CreateWorker, TypeOK, SupervisorTypeOK, OpenInv, ClientInv, Clients
  <2>3. ClientInv'
    BY <1>1
      DEF CreateWorker, TypeOK, SupervisorTypeOK, OpenInv, ClientInv, Closer, Clients,
          Outcome
  <2>4. CloseInv'
    BY <1>1
      DEF CreateWorker, TypeOK, SupervisorTypeOK, OpenInv, ClientInv, CloseInv, Closer,
          Clients, Outcome, ProcStates
  <2> QED
    BY <2>1, <2>2, <2>3, <2>4
<1>2. CASE Opened(t)
  <2>1. TypeOK'
    BY <1>2
      DEF Opened, TypeOK, SupervisorTypeOK, Holder, ProcStates, ReqStates, Responses, Pcs,
          Kinds, Status
  <2>2. OpenInv'
    BY <1>2 DEF Opened, TypeOK, SupervisorTypeOK, OpenInv, ClientInv, Clients
  <2>3. ClientInv'
    BY <1>2
      DEF Opened, TypeOK, SupervisorTypeOK, OpenInv, ClientInv, Closer, Clients, Outcome
  <2>4. CloseInv'
    BY <1>2
      DEF Opened, TypeOK, SupervisorTypeOK, OpenInv, ClientInv, CloseInv, Closer, Clients,
          Outcome, ProcStates
  <2> QED
    BY <2>1, <2>2, <2>3, <2>4
<1>3. CASE Publish(t)
  <2>1. TypeOK'
    BY <1>3
      DEF Publish, TypeOK, SupervisorTypeOK, Holder, ProcStates, ReqStates, Responses, Pcs,
          Kinds, Status
  <2>2. OpenInv'
    BY <1>3 DEF Publish, TypeOK, SupervisorTypeOK, OpenInv, ClientInv, Clients
  <2>3. ClientInv'
    BY <1>3
      DEF Publish, TypeOK, SupervisorTypeOK, OpenInv, ClientInv, Closer, Clients, Outcome
  <2>4. CloseInv'
    BY <1>3
      DEF Publish, TypeOK, SupervisorTypeOK, OpenInv, ClientInv, CloseInv, Closer, Clients,
          Outcome, ProcStates
  <2> QED
    BY <2>1, <2>2, <2>3, <2>4
<1>4. CASE PublishFails(t)
  <2>1. TypeOK'
    BY <1>4
      DEF PublishFails, Ask, TypeOK, SupervisorTypeOK, Holder, ProcStates, ReqStates,
          Responses, Pcs, Kinds, Status
  <2>2. OpenInv'
    BY <1>4 DEF PublishFails, Ask, TypeOK, SupervisorTypeOK, OpenInv, ClientInv, Clients
  <2>3. ClientInv'
    BY <1>4
      DEF PublishFails, Ask, TypeOK, SupervisorTypeOK, OpenInv, ClientInv, Closer, Clients,
          Outcome
  <2>4. CloseInv'
    BY <1>4
      DEF PublishFails, Ask, TypeOK, SupervisorTypeOK, OpenInv, ClientInv, CloseInv, Closer,
          Clients, Outcome, ProcStates
  <2> QED
    BY <2>1, <2>2, <2>3, <2>4
<1>5. CASE CleanedUp(t)
  <2>1. TypeOK'
    BY <1>5
      DEF CleanedUp, TypeOK, SupervisorTypeOK, Holder, ProcStates, ReqStates, Responses,
          Pcs, Kinds, Status
  <2>2. OpenInv'
    BY <1>5 DEF CleanedUp, TypeOK, SupervisorTypeOK, OpenInv, ClientInv, Clients
  <2>3. ClientInv'
    BY <1>5
      DEF CleanedUp, TypeOK, SupervisorTypeOK, OpenInv, ClientInv, Closer, Clients, Outcome
  <2>4. CloseInv'
    BY <1>5
      DEF CleanedUp, TypeOK, SupervisorTypeOK, OpenInv, ClientInv, CloseInv, Closer,
          Clients, Outcome, ProcStates
  <2> QED
    BY <2>1, <2>2, <2>3, <2>4
<1> QED
  BY <1>1, <1>2, <1>3, <1>4, <1>5

\* Lookups, core functions and close, up to the answer.
LEMMA RequestStep ==
  ASSUME NEW t \in Threads, IInv,
         Begin(t) \/ AcquireRequestLock(t) \/ Answered(t)
  PROVE  IInv'
<1> USE ReverseAssumption, ThreadsAssumption DEF IInv, Goto
<1>1. CASE Begin(t)
  <2>1. TypeOK'
    BY <1>1
      DEF Begin, TypeOK, SupervisorTypeOK, Holder, ProcStates, ReqStates, Responses, Pcs,
          Kinds, Status
  <2>2. OpenInv'
    BY <1>1 DEF Begin, TypeOK, SupervisorTypeOK, OpenInv, ClientInv, Clients
  <2>3. ClientInv'
    BY <1>1
      DEF Begin, TypeOK, SupervisorTypeOK, OpenInv, ClientInv, Closer, Clients, Outcome
  <2>4. CloseInv'
    BY <1>1
      DEF Begin, TypeOK, SupervisorTypeOK, OpenInv, ClientInv, CloseInv, Closer, Clients,
          Outcome, ProcStates
  <2> QED
    BY <2>1, <2>2, <2>3, <2>4
<1>2. CASE AcquireRequestLock(t)
  <2>1. TypeOK'
    BY <1>2
      DEF AcquireRequestLock, Ask, TypeOK, SupervisorTypeOK, Holder, ProcStates, ReqStates,
          Responses, Pcs, Kinds, Status
  <2>2. OpenInv'
    BY <1>2
      DEF AcquireRequestLock, Ask, TypeOK, SupervisorTypeOK, OpenInv, ClientInv, Clients
  <2>3. ClientInv'
    BY <1>2
      DEF AcquireRequestLock, Ask, TypeOK, SupervisorTypeOK, OpenInv, ClientInv, Closer,
          Clients, Outcome
  <2>4. CloseInv'
    BY <1>2
      DEF AcquireRequestLock, Ask, TypeOK, SupervisorTypeOK, OpenInv, ClientInv, CloseInv,
          Closer, Clients, Outcome, ProcStates
  <2> QED
    BY <2>1, <2>2, <2>3, <2>4
<1>3. CASE Answered(t)
  <2>1. TypeOK'
    BY <1>3
      DEF Answered, TypeOK, SupervisorTypeOK, Holder, ProcStates, ReqStates, Responses, Pcs,
          Kinds, Status
  <2>2. OpenInv'
    BY <1>3 DEF Answered, TypeOK, SupervisorTypeOK, OpenInv, ClientInv, Clients
  <2>3. ClientInv'
    BY <1>3
      DEF Answered, TypeOK, SupervisorTypeOK, OpenInv, ClientInv, Closer, Clients, Outcome
  <2>4. CloseInv'
    BY <1>3
      DEF Answered, TypeOK, SupervisorTypeOK, OpenInv, ClientInv, CloseInv, Closer, Clients,
          Outcome, ProcStates
  <2> QED
    BY <2>1, <2>2, <2>3, <2>4
<1> QED
  BY <1>1, <1>2, <1>3

\* close_worker and kill_worker.
LEMMA RemoveStep ==
  ASSUME NEW t \in Threads, IInv,
         Remove(t) \/ KillReap(t) \/ CloseReap(t)
  PROVE  IInv'
<1> USE ReverseAssumption, ThreadsAssumption DEF IInv, Goto
<1>1. CASE Remove(t)
  <2>1. TypeOK'
    BY <1>1
      DEF Remove, RemoveWorker, TypeOK, SupervisorTypeOK, Holder, ProcStates, ReqStates,
          Responses, Pcs, Kinds, Status
  <2>2. OpenInv'
    BY <1>1 DEF Remove, RemoveWorker, TypeOK, SupervisorTypeOK, OpenInv, ClientInv, Clients
  <2>3. ClientInv'
    BY <1>1
      DEF Remove, RemoveWorker, TypeOK, SupervisorTypeOK, OpenInv, ClientInv, Closer,
          Clients, Outcome
  <2>4. CloseInv'
    BY <1>1
      DEF Remove, RemoveWorker, TypeOK, SupervisorTypeOK, OpenInv, ClientInv, CloseInv,
          Closer, Clients, Outcome, ProcStates
  <2> QED
    BY <2>1, <2>2, <2>3, <2>4
<1>2. CASE KillReap(t)
  <2>1. TypeOK'
    BY <1>2
      DEF KillReap, KillChild, TypeOK, SupervisorTypeOK, Holder, ProcStates, ReqStates,
          Responses, Pcs, Kinds, Status
  <2>2. OpenInv'
    BY <1>2 DEF KillReap, KillChild, TypeOK, SupervisorTypeOK, OpenInv, ClientInv, Clients
  <2>3. ClientInv'
    BY <1>2
      DEF KillReap, KillChild, TypeOK, SupervisorTypeOK, OpenInv, ClientInv, Closer,
          Clients, Outcome
  <2>4. CloseInv'
    BY <1>2
      DEF KillReap, KillChild, TypeOK, SupervisorTypeOK, OpenInv, ClientInv, CloseInv,
          Closer, Clients, Outcome, ProcStates
  <2> QED
    BY <2>1, <2>2, <2>3, <2>4
<1>3. CASE CloseReap(t)
  <2>1. TypeOK'
    BY <1>3
      DEF CloseReap, WaitChild, TypeOK, SupervisorTypeOK, Holder, ProcStates, ReqStates,
          Responses, Pcs, Kinds, Status
  <2>2. OpenInv'
    BY <1>3 DEF CloseReap, WaitChild, TypeOK, SupervisorTypeOK, OpenInv, ClientInv, Clients
  <2>3. ClientInv'
    BY <1>3
      DEF CloseReap, WaitChild, TypeOK, SupervisorTypeOK, OpenInv, ClientInv, Closer,
          Clients, Outcome
  <2>4. CloseInv'
    BY <1>3
      DEF CloseReap, WaitChild, TypeOK, SupervisorTypeOK, OpenInv, ClientInv, CloseInv,
          Closer, Clients, Outcome, ProcStates
  <2> QED
    BY <2>1, <2>2, <2>3, <2>4
<1> QED
  BY <1>1, <1>2, <1>3

\* The outcome.
LEMMA OutcomeStep ==
  ASSUME NEW t \in Threads, IInv,
         Record(t) \/ RecordFails(t) \/ Commit(t)
  PROVE  IInv'
<1> USE ReverseAssumption, ThreadsAssumption DEF IInv, Goto
<1>1. CASE Record(t)
  <2>1. TypeOK'
    BY <1>1
      DEF Record, Outcome, TypeOK, SupervisorTypeOK, Holder, ProcStates, ReqStates,
          Responses, Pcs, Kinds, Status
  <2>2. OpenInv'
    BY <1>1 DEF Record, Outcome, TypeOK, SupervisorTypeOK, OpenInv, ClientInv, Clients
  <2>3. ClientInv'
    BY <1>1
      DEF Record, Outcome, TypeOK, SupervisorTypeOK, OpenInv, ClientInv, Closer, Clients
  <2>4. CloseInv'
    BY <1>1
      DEF Record, Outcome, TypeOK, SupervisorTypeOK, OpenInv, ClientInv, CloseInv, Closer,
          Clients, ProcStates
  <2> QED
    BY <2>1, <2>2, <2>3, <2>4
<1>2. CASE RecordFails(t)
  <2>1. TypeOK'
    BY <1>2
      DEF RecordFails, TypeOK, SupervisorTypeOK, Holder, ProcStates, ReqStates, Responses,
          Pcs, Kinds, Status
  <2>2. OpenInv'
    BY <1>2 DEF RecordFails, TypeOK, SupervisorTypeOK, OpenInv, ClientInv, Clients
  <2>3. ClientInv'
    BY <1>2
      DEF RecordFails, TypeOK, SupervisorTypeOK, OpenInv, ClientInv, Closer, Clients,
          Outcome
  <2>4. CloseInv'
    BY <1>2
      DEF RecordFails, TypeOK, SupervisorTypeOK, OpenInv, ClientInv, CloseInv, Closer,
          Clients, Outcome, ProcStates
  <2> QED
    BY <2>1, <2>2, <2>3, <2>4
<1>3. CASE Commit(t)
  <2>1. TypeOK'
    BY <1>3
      DEF Commit, Outcome, Kept, TypeOK, SupervisorTypeOK, Holder, ProcStates, ReqStates,
          Responses, Pcs, Kinds, Status
  <2>2. OpenInv'
    BY <1>3 DEF Commit, Outcome, Kept, TypeOK, SupervisorTypeOK, OpenInv, ClientInv, Clients
  <2>3. ClientInv'
    BY <1>3
      DEF Commit, Outcome, Kept, TypeOK, SupervisorTypeOK, OpenInv, ClientInv, Closer,
          Clients
  <2>4. CloseInv'
    BY <1>3
      DEF Commit, Outcome, Kept, TypeOK, SupervisorTypeOK, OpenInv, ClientInv, CloseInv,
          Closer, Clients, ProcStates
  <2> QED
    BY <2>1, <2>2, <2>3, <2>4
<1> QED
  BY <1>1, <1>2, <1>3

\* The transport and the worker.
LEMMA WorkerStep ==
  ASSUME NEW t \in Threads, IInv,
         Transport(t) \/ AnswerOpen(t) \/ AnswerQuery(t) \/ AnswerClose(t)
  PROVE  IInv'
<1> USE ReverseAssumption, ThreadsAssumption DEF IInv, Goto
<1>1. CASE Transport(t)
  <2>1. TypeOK'
    BY <1>1
      DEF Transport, LookupWorker, LockTransport, PipeBroken, TypeOK, SupervisorTypeOK,
          Holder, ProcStates, ReqStates, Responses, Pcs, Kinds, Status
  <2>2. OpenInv'
    BY <1>1
      DEF Transport, LookupWorker, LockTransport, PipeBroken, TypeOK, SupervisorTypeOK,
          OpenInv, ClientInv, Clients
  <2>3. ClientInv'
    BY <1>1
      DEF Transport, LookupWorker, LockTransport, PipeBroken, TypeOK, SupervisorTypeOK,
          OpenInv, ClientInv, Closer, Clients, Outcome
  <2>4. CloseInv'
    BY <1>1
      DEF Transport, LookupWorker, LockTransport, PipeBroken, TypeOK, SupervisorTypeOK,
          OpenInv, ClientInv, CloseInv, Closer, Clients, Outcome, ProcStates
  <2> QED
    BY <2>1, <2>2, <2>3, <2>4
<1>2. CASE AnswerOpen(t)
  <2>1. TypeOK'
    BY <1>2
      DEF AnswerOpen, Asks, WorkerAnswers, TypeOK, SupervisorTypeOK, Holder, ProcStates,
          ReqStates, Responses, Pcs, Kinds, Status
  <2>2. OpenInv'
    BY <1>2
      DEF AnswerOpen, Asks, WorkerAnswers, TypeOK, SupervisorTypeOK, OpenInv, ClientInv,
          Clients
  <2>3. ClientInv'
    BY <1>2
      DEF AnswerOpen, Asks, WorkerAnswers, TypeOK, SupervisorTypeOK, OpenInv, ClientInv,
          Closer, Clients, Outcome
  <2>4. CloseInv'
    BY <1>2
      DEF AnswerOpen, Asks, WorkerAnswers, TypeOK, SupervisorTypeOK, OpenInv, ClientInv,
          CloseInv, Closer, Clients, Outcome, ProcStates
  <2> QED
    BY <2>1, <2>2, <2>3, <2>4
<1>3. CASE AnswerQuery(t)
  <2>1. TypeOK'
    BY <1>3
      DEF AnswerQuery, Asks, WorkerAnswers, TypeOK, SupervisorTypeOK, Holder, ProcStates,
          ReqStates, Responses, Pcs, Kinds, Status
  <2>2. OpenInv'
    BY <1>3
      DEF AnswerQuery, Asks, WorkerAnswers, TypeOK, SupervisorTypeOK, OpenInv, ClientInv,
          Clients
  <2>3. ClientInv'
    BY <1>3
      DEF AnswerQuery, Asks, WorkerAnswers, TypeOK, SupervisorTypeOK, OpenInv, ClientInv,
          Closer, Clients, Outcome
  <2>4. CloseInv'
    BY <1>3
      DEF AnswerQuery, Asks, WorkerAnswers, TypeOK, SupervisorTypeOK, OpenInv, ClientInv,
          CloseInv, Closer, Clients, Outcome, ProcStates
  <2> QED
    BY <2>1, <2>2, <2>3, <2>4
<1>4. CASE AnswerClose(t)
  <2>1. TypeOK'
    BY <1>4
      DEF AnswerClose, Asks, WorkerAnswers, TypeOK, SupervisorTypeOK, Holder, ProcStates,
          ReqStates, Responses, Pcs, Kinds, Status
  <2>2. OpenInv'
    BY <1>4
      DEF AnswerClose, Asks, WorkerAnswers, TypeOK, SupervisorTypeOK, OpenInv, ClientInv,
          Clients
  <2>3. ClientInv'
    BY <1>4
      DEF AnswerClose, Asks, WorkerAnswers, TypeOK, SupervisorTypeOK, OpenInv, ClientInv,
          Closer, Clients, Outcome
  <2>4. CloseInv'
    BY <1>4
      DEF AnswerClose, Asks, WorkerAnswers, TypeOK, SupervisorTypeOK, OpenInv, ClientInv,
          CloseInv, Closer, Clients, Outcome, ProcStates
  <2> QED
    BY <2>1, <2>2, <2>3, <2>4
<1> QED
  BY <1>1, <1>2, <1>3, <1>4

\* The worker's process ends.
LEMMA EndStep ==
  ASSUME IInv,
         WorkerEnds
  PROVE  IInv'
<1> USE ReverseAssumption, ThreadsAssumption DEF IInv, Goto
<1>1. CASE WorkerEnds
  <2>1. TypeOK'
    BY <1>1
      DEF WorkerEnds, WorkerCrash, WorkerLeaves, TypeOK, SupervisorTypeOK, Holder,
          ProcStates, ReqStates, Responses, Pcs, Kinds, Status
  <2>2. OpenInv'
    BY <1>1
      DEF WorkerEnds, WorkerCrash, WorkerLeaves, TypeOK, SupervisorTypeOK, OpenInv,
          ClientInv, Clients
  <2>3. ClientInv'
    BY <1>1
      DEF WorkerEnds, WorkerCrash, WorkerLeaves, TypeOK, SupervisorTypeOK, OpenInv,
          ClientInv, Closer, Clients, Outcome
  <2>4. CloseInv'
    BY <1>1
      DEF WorkerEnds, WorkerCrash, WorkerLeaves, TypeOK, SupervisorTypeOK, OpenInv,
          ClientInv, CloseInv, Closer, Clients, Outcome, ProcStates
  <2> QED
    BY <2>1, <2>2, <2>3, <2>4
<1> QED
  BY <1>1

LEMMA StutterStep == ASSUME IInv, UNCHANGED vars PROVE IInv'
<1> USE DEF IInv
<1>1. TypeOK' /\ OpenInv'
  BY DEF TypeOK, SupervisorTypeOK, OpenInv
<1>2. ClientInv' /\ CloseInv'
  BY DEF ClientInv, CloseInv, Closer, Outcome
<1> QED
  BY <1>1, <1>2

\* IInv is an invariant: no interleaving of the RPCs of a reverse session, with refused
\* writes and a worker that dies at any time, leaves the states it describes.
THEOREM ReverseInvariance == Spec => []IInv
<1>1. IInv /\ [Next]_vars => IInv'
  <2> SUFFICES ASSUME IInv, [Next]_vars PROVE IInv'
    OBVIOUS
  <2>1. CASE Quiet \/ UNCHANGED vars
    BY <2>1, StutterStep DEF Quiet
  <2>2. ASSUME NEW t \in Threads,
               Begin(t) \/ Handler(t) \/ Answer(t) \/ PublishFails(t) \/ RecordFails(t)
        PROVE  IInv'
    BY <2>2, OpenStep, RequestStep, RemoveStep, OutcomeStep, WorkerStep DEF Handler, Answer
  <2>3. CASE WorkerEnds
    BY <2>3, EndStep
  <2> QED
    BY <2>1, <2>2, <2>3 DEF Next
<1> QED
  BY InitInv, <1>1, PTL DEF Spec

\* Every variable of the session, its RPCs and its worker keeps its type.
THEOREM ReverseTypeCorrect == Spec => []TypeOK
<1>1. IInv => TypeOK
  BY DEF IInv
<1> QED
  BY <1>1, ReverseInvariance, PTL

\* A closed session has no worker and no database left.
THEOREM ClosedSessionIsGone == Spec => []ClosedMeansGone
<1>1. IInv => ClosedMeansGone
  BY DEF IInv, CloseInv, Clients, ClosedMeansGone
<1> QED
  BY <1>1, ReverseInvariance, PTL

\* No worker is left to itself by a failing open, a close or any other RPC.
THEOREM WorkerHasOwner == Spec => []WorkerOwned
<1>1. IInv => WorkerOwned
  BY DEF IInv, TypeOK, OpenInv, ClientInv, CloseInv, Clients, Closer, WorkerOwned
<1> QED
  BY <1>1, ReverseInvariance, PTL
=============================================================================
