------------------------- MODULE ServiceUpdateProofs -------------------------
(***************************************************************************)
(* Proofs about ServiceUpdate, for any number of updates that do not run   *)
(* at the same time: IInv is inductive, and the safety properties follow.  *)
(***************************************************************************)
EXTENDS ServiceUpdate, TLAPS

USE DEF vars, dirs

LEMMA InitInv == Init => IInv
<1> SUFFICES ASSUME Init PROVE IInv
  OBVIOUS
<1>1. TypeOK
  BY UpdateAssumption DEF Init, TypeOK, Trees, Tree, Parts
<1>2. OneUpdater /\ StagingInv
  BY UpdateAssumption DEF Init, OneUpdater, StagingInv, Running
<1>3. MissingInv /\ PayloadKept
  BY UpdateAssumption DEF Init, MissingInv, PayloadKept, Whole, Tree, Trees, Parts
<1> QED
  BY <1>1, <1>2, <1>3 DEF IInv

\* Up to the swap.
LEMMA BeginStep ==
  ASSUME NEW u \in Updaters, ~Overlap, IInv,
         Request(u) \/ CopyPayload(u) \/ CopyConfig(u) \/ StopService(u) \/ Fails(u)
         \/ TimesOut(u)
  PROVE  IInv'
<1> USE UpdateAssumption DEF IInv, Goto
<1>1. CASE Request(u)
  <2>1. TypeOK'
    BY <1>1 DEF Request, TypeOK, Trees, Parts, Tree, Whole, Running, Over
  <2>2. OneUpdater'
    BY <1>1 DEF Request, TypeOK, OneUpdater, Running
  <2>3. StagingInv'
    BY <1>1
      DEF Request, TypeOK, Trees, Parts, Tree, Whole, Running, Over, OneUpdater, StagingInv,
          PayloadKept
  <2>4. MissingInv'
    BY <1>1
      DEF Request, TypeOK, Trees, Parts, Tree, Whole, Running, Over, OneUpdater, StagingInv,
          MissingInv
  <2>5. PayloadKept'
    BY <1>1
      DEF Request, TypeOK, Trees, Parts, Tree, Whole, Running, Over, StagingInv, MissingInv,
          PayloadKept
  <2> QED
    BY <2>1, <2>2, <2>3, <2>4, <2>5
<1>2. CASE CopyPayload(u)
  <2>1. TypeOK'
    BY <1>2 DEF CopyPayload, AfterCopy, TypeOK, Trees, Parts, Tree, Whole, Running, Over
  <2>2. OneUpdater'
    BY <1>2 DEF CopyPayload, AfterCopy, TypeOK, OneUpdater, Running
  <2>3. StagingInv'
    BY <1>2
      DEF CopyPayload, AfterCopy, TypeOK, Trees, Parts, Tree, Whole, Running, Over,
          OneUpdater, StagingInv, PayloadKept
  <2>4. MissingInv'
    BY <1>2
      DEF CopyPayload, AfterCopy, TypeOK, Trees, Parts, Tree, Whole, Running, Over,
          OneUpdater, StagingInv, MissingInv
  <2>5. PayloadKept'
    BY <1>2
      DEF CopyPayload, AfterCopy, TypeOK, Trees, Parts, Tree, Whole, Running, Over,
          StagingInv, MissingInv, PayloadKept
  <2> QED
    BY <2>1, <2>2, <2>3, <2>4, <2>5
<1>3. CASE CopyConfig(u)
  <2>1. TypeOK'
    BY <1>3 DEF CopyConfig, TypeOK, Trees, Parts, Tree, Whole, Running, Over
  <2>2. OneUpdater'
    BY <1>3 DEF CopyConfig, TypeOK, OneUpdater, Running
  <2>3. StagingInv'
    BY <1>3
      DEF CopyConfig, TypeOK, Trees, Parts, Tree, Whole, Running, Over, OneUpdater,
          StagingInv, PayloadKept
  <2>4. MissingInv'
    BY <1>3
      DEF CopyConfig, TypeOK, Trees, Parts, Tree, Whole, Running, Over, OneUpdater,
          StagingInv, MissingInv
  <2>5. PayloadKept'
    BY <1>3
      DEF CopyConfig, TypeOK, Trees, Parts, Tree, Whole, Running, Over, StagingInv,
          MissingInv, PayloadKept
  <2> QED
    BY <2>1, <2>2, <2>3, <2>4, <2>5
<1>4. CASE StopService(u)
  <2>1. TypeOK'
    BY <1>4 DEF StopService, TypeOK, Trees, Parts, Tree, Whole, Running, Over
  <2>2. OneUpdater'
    BY <1>4 DEF StopService, TypeOK, OneUpdater, Running
  <2>3. StagingInv'
    BY <1>4
      DEF StopService, TypeOK, Trees, Parts, Tree, Whole, Running, Over, OneUpdater,
          StagingInv, PayloadKept
  <2>4. MissingInv'
    BY <1>4
      DEF StopService, TypeOK, Trees, Parts, Tree, Whole, Running, Over, OneUpdater,
          StagingInv, MissingInv
  <2>5. PayloadKept'
    BY <1>4
      DEF StopService, TypeOK, Trees, Parts, Tree, Whole, Running, Over, StagingInv,
          MissingInv, PayloadKept
  <2> QED
    BY <2>1, <2>2, <2>3, <2>4, <2>5
<1>5. CASE Fails(u)
  <2>1. TypeOK'
    BY <1>5 DEF Fails, TypeOK, Trees, Parts, Tree, Whole, Running, Over
  <2>2. OneUpdater'
    BY <1>5 DEF Fails, TypeOK, OneUpdater, Running
  <2>3. StagingInv'
    BY <1>5
      DEF Fails, TypeOK, Trees, Parts, Tree, Whole, Running, Over, OneUpdater, StagingInv,
          PayloadKept
  <2>4. MissingInv'
    BY <1>5
      DEF Fails, TypeOK, Trees, Parts, Tree, Whole, Running, Over, OneUpdater, StagingInv,
          MissingInv
  <2>5. PayloadKept'
    BY <1>5
      DEF Fails, TypeOK, Trees, Parts, Tree, Whole, Running, Over, StagingInv, MissingInv,
          PayloadKept
  <2> QED
    BY <2>1, <2>2, <2>3, <2>4, <2>5
<1>6. CASE TimesOut(u)
  <2>1. TypeOK'
    BY <1>6 DEF TimesOut, TypeOK, Trees, Parts, Tree, Whole, Running, Over
  <2>2. OneUpdater'
    BY <1>6 DEF TimesOut, TypeOK, OneUpdater, Running
  <2>3. StagingInv'
    BY <1>6
      DEF TimesOut, TypeOK, Trees, Parts, Tree, Whole, Running, Over, OneUpdater,
          StagingInv, PayloadKept
  <2>4. MissingInv'
    BY <1>6
      DEF TimesOut, TypeOK, Trees, Parts, Tree, Whole, Running, Over, OneUpdater,
          StagingInv, MissingInv
  <2>5. PayloadKept'
    BY <1>6
      DEF TimesOut, TypeOK, Trees, Parts, Tree, Whole, Running, Over, StagingInv,
          MissingInv, PayloadKept
  <2> QED
    BY <2>1, <2>2, <2>3, <2>4, <2>5
<1> QED
  BY <1>1, <1>2, <1>3, <1>4, <1>5, <1>6

\* The renames of the swap and their retries.
LEMMA SwapStep ==
  ASSUME NEW u \in Updaters, IInv,
         MoveOut(u) \/ MoveIn(u) \/ Restore(u) \/ Retry(u)
  PROVE  IInv'
<1> USE UpdateAssumption DEF IInv, Goto
<1>1. CASE MoveOut(u)
  <2>1. TypeOK'
    BY <1>1 DEF MoveOut, TypeOK, Trees, Parts, Tree, Whole, Running, Over
  <2>2. OneUpdater'
    BY <1>1 DEF MoveOut, TypeOK, OneUpdater, Running
  <2>3. StagingInv'
    BY <1>1
      DEF MoveOut, TypeOK, Trees, Parts, Tree, Whole, Running, Over, OneUpdater, StagingInv,
          PayloadKept
  <2>4. MissingInv'
    BY <1>1
      DEF MoveOut, TypeOK, Trees, Parts, Tree, Whole, Running, Over, OneUpdater, StagingInv,
          MissingInv
  <2>5. PayloadKept'
    BY <1>1
      DEF MoveOut, TypeOK, Trees, Parts, Tree, Whole, Running, Over, StagingInv, MissingInv,
          PayloadKept
  <2> QED
    BY <2>1, <2>2, <2>3, <2>4, <2>5
<1>2. CASE MoveIn(u)
  <2>1. TypeOK'
    BY <1>2 DEF MoveIn, TypeOK, Trees, Parts, Tree, Whole, Running, Over
  <2>2. OneUpdater'
    BY <1>2 DEF MoveIn, TypeOK, OneUpdater, Running
  <2>3. StagingInv'
    BY <1>2
      DEF MoveIn, TypeOK, Trees, Parts, Tree, Whole, Running, Over, OneUpdater, StagingInv,
          PayloadKept
  <2>4. MissingInv'
    BY <1>2
      DEF MoveIn, TypeOK, Trees, Parts, Tree, Whole, Running, Over, OneUpdater, StagingInv,
          MissingInv
  <2>5. PayloadKept'
    BY <1>2
      DEF MoveIn, TypeOK, Trees, Parts, Tree, Whole, Running, Over, StagingInv, MissingInv,
          PayloadKept
  <2> QED
    BY <2>1, <2>2, <2>3, <2>4, <2>5
<1>3. CASE Restore(u)
  <2>1. TypeOK'
    BY <1>3 DEF Restore, PutBack, TypeOK, Trees, Parts, Tree, Whole, Running, Over
  <2>2. OneUpdater'
    BY <1>3 DEF Restore, PutBack, TypeOK, OneUpdater, Running
  <2>3. StagingInv'
    BY <1>3
      DEF Restore, PutBack, TypeOK, Trees, Parts, Tree, Whole, Running, Over, OneUpdater,
          StagingInv, PayloadKept
  <2>4. MissingInv'
    BY <1>3
      DEF Restore, PutBack, TypeOK, Trees, Parts, Tree, Whole, Running, Over, OneUpdater,
          StagingInv, MissingInv
  <2>5. PayloadKept'
    BY <1>3
      DEF Restore, PutBack, TypeOK, Trees, Parts, Tree, Whole, Running, Over, StagingInv,
          MissingInv, PayloadKept
  <2> QED
    BY <2>1, <2>2, <2>3, <2>4, <2>5
<1>4. CASE Retry(u)
  <2>1. TypeOK'
    BY <1>4 DEF Retry, PutBack, TypeOK, Trees, Parts, Tree, Whole, Running, Over
  <2>2. OneUpdater'
    BY <1>4 DEF Retry, PutBack, TypeOK, OneUpdater, Running
  <2>3. StagingInv'
    BY <1>4
      DEF Retry, PutBack, TypeOK, Trees, Parts, Tree, Whole, Running, Over, OneUpdater,
          StagingInv, PayloadKept
  <2>4. MissingInv'
    BY <1>4
      DEF Retry, PutBack, TypeOK, Trees, Parts, Tree, Whole, Running, Over, OneUpdater,
          StagingInv, MissingInv
  <2>5. PayloadKept'
    BY <1>4
      DEF Retry, PutBack, TypeOK, Trees, Parts, Tree, Whole, Running, Over, StagingInv,
          MissingInv, PayloadKept
  <2> QED
    BY <2>1, <2>2, <2>3, <2>4, <2>5
<1> QED
  BY <1>1, <1>2, <1>3, <1>4

\* After the swap.
LEMMA AfterStep ==
  ASSUME NEW u \in Updaters, IInv,
         StartService(u) \/ Cleanup(u) \/ CleanupEnds(u)
  PROVE  IInv'
<1> USE UpdateAssumption DEF IInv, Goto
<1>1. CASE StartService(u)
  <2>1. TypeOK'
    BY <1>1 DEF StartService, TypeOK, Trees, Parts, Tree, Whole, Running, Over
  <2>2. OneUpdater'
    BY <1>1 DEF StartService, TypeOK, OneUpdater, Running
  <2>3. StagingInv'
    BY <1>1
      DEF StartService, TypeOK, Trees, Parts, Tree, Whole, Running, Over, OneUpdater,
          StagingInv, PayloadKept
  <2>4. MissingInv'
    BY <1>1
      DEF StartService, TypeOK, Trees, Parts, Tree, Whole, Running, Over, OneUpdater,
          StagingInv, MissingInv
  <2>5. PayloadKept'
    BY <1>1
      DEF StartService, TypeOK, Trees, Parts, Tree, Whole, Running, Over, StagingInv,
          MissingInv, PayloadKept
  <2> QED
    BY <2>1, <2>2, <2>3, <2>4, <2>5
<1>2. CASE Cleanup(u)
  <2>1. TypeOK'
    BY <1>2 DEF Cleanup, Removed, TypeOK, Trees, Parts, Tree, Whole, Running, Over
  <2>2. OneUpdater'
    BY <1>2 DEF Cleanup, Removed, TypeOK, OneUpdater, Running
  <2>3. StagingInv'
    BY <1>2
      DEF Cleanup, Removed, TypeOK, Trees, Parts, Tree, Whole, Running, Over, OneUpdater,
          StagingInv, PayloadKept
  <2>4. MissingInv'
    BY <1>2
      DEF Cleanup, Removed, TypeOK, Trees, Parts, Tree, Whole, Running, Over, OneUpdater,
          StagingInv, MissingInv
  <2>5. PayloadKept'
    BY <1>2
      DEF Cleanup, Removed, TypeOK, Trees, Parts, Tree, Whole, Running, Over, StagingInv,
          MissingInv, PayloadKept
  <2> QED
    BY <2>1, <2>2, <2>3, <2>4, <2>5
<1>3. CASE CleanupEnds(u)
  <2>1. TypeOK'
    BY <1>3 DEF CleanupEnds, TypeOK, Trees, Parts, Tree, Whole, Running, Over
  <2>2. OneUpdater'
    BY <1>3 DEF CleanupEnds, TypeOK, OneUpdater, Running
  <2>3. StagingInv'
    BY <1>3
      DEF CleanupEnds, TypeOK, Trees, Parts, Tree, Whole, Running, Over, OneUpdater,
          StagingInv, PayloadKept
  <2>4. MissingInv'
    BY <1>3
      DEF CleanupEnds, TypeOK, Trees, Parts, Tree, Whole, Running, Over, OneUpdater,
          StagingInv, MissingInv
  <2>5. PayloadKept'
    BY <1>3
      DEF CleanupEnds, TypeOK, Trees, Parts, Tree, Whole, Running, Over, StagingInv,
          MissingInv, PayloadKept
  <2> QED
    BY <2>1, <2>2, <2>3, <2>4, <2>5
<1> QED
  BY <1>1, <1>2, <1>3

\* Time passes, an updater dies.
LEMMA AroundStep ==
  ASSUME NEW u \in Updaters, IInv,
         Deadline(u) \/ Crash(u)
  PROVE  IInv'
<1> USE UpdateAssumption DEF IInv, Goto
<1>1. CASE Deadline(u)
  <2>1. TypeOK'
    BY <1>1 DEF Deadline, TypeOK, Trees, Parts, Tree, Whole, Running, Over
  <2>2. OneUpdater'
    BY <1>1 DEF Deadline, TypeOK, OneUpdater, Running
  <2>3. StagingInv'
    BY <1>1
      DEF Deadline, TypeOK, Trees, Parts, Tree, Whole, Running, Over, OneUpdater,
          StagingInv, PayloadKept
  <2>4. MissingInv'
    BY <1>1
      DEF Deadline, TypeOK, Trees, Parts, Tree, Whole, Running, Over, OneUpdater,
          StagingInv, MissingInv
  <2>5. PayloadKept'
    BY <1>1
      DEF Deadline, TypeOK, Trees, Parts, Tree, Whole, Running, Over, StagingInv,
          MissingInv, PayloadKept
  <2> QED
    BY <2>1, <2>2, <2>3, <2>4, <2>5
<1>2. CASE Crash(u)
  <2>1. TypeOK'
    BY <1>2 DEF Crash, TypeOK, Trees, Parts, Tree, Whole, Running, Over
  <2>2. OneUpdater'
    BY <1>2 DEF Crash, TypeOK, OneUpdater, Running
  <2>3. StagingInv'
    BY <1>2
      DEF Crash, TypeOK, Trees, Parts, Tree, Whole, Running, Over, OneUpdater, StagingInv,
          PayloadKept
  <2>4. MissingInv'
    BY <1>2
      DEF Crash, TypeOK, Trees, Parts, Tree, Whole, Running, Over, OneUpdater, StagingInv,
          MissingInv
  <2>5. PayloadKept'
    BY <1>2
      DEF Crash, TypeOK, Trees, Parts, Tree, Whole, Running, Over, StagingInv, MissingInv,
          PayloadKept
  <2> QED
    BY <2>1, <2>2, <2>3, <2>4, <2>5
<1> QED
  BY <1>1, <1>2

\* The service stops, or is started by someone else.
LEMMA ServiceStep ==
  ASSUME IInv,
         ServiceStopped \/ ServiceStarted
  PROVE  IInv'
<1> USE UpdateAssumption DEF IInv, Goto
<1>1. CASE ServiceStopped
  <2>1. TypeOK'
    BY <1>1 DEF ServiceStopped, TypeOK, Trees, Parts, Tree, Whole, Running, Over
  <2>2. OneUpdater'
    BY <1>1 DEF ServiceStopped, TypeOK, OneUpdater, Running
  <2>3. StagingInv'
    BY <1>1
      DEF ServiceStopped, TypeOK, Trees, Parts, Tree, Whole, Running, Over, OneUpdater,
          StagingInv, PayloadKept
  <2>4. MissingInv'
    BY <1>1
      DEF ServiceStopped, TypeOK, Trees, Parts, Tree, Whole, Running, Over, OneUpdater,
          StagingInv, MissingInv
  <2>5. PayloadKept'
    BY <1>1
      DEF ServiceStopped, TypeOK, Trees, Parts, Tree, Whole, Running, Over, StagingInv,
          MissingInv, PayloadKept
  <2> QED
    BY <2>1, <2>2, <2>3, <2>4, <2>5
<1>2. CASE ServiceStarted
  <2>1. TypeOK'
    BY <1>2 DEF ServiceStarted, TypeOK, Trees, Parts, Tree, Whole, Running, Over
  <2>2. OneUpdater'
    BY <1>2 DEF ServiceStarted, TypeOK, OneUpdater, Running
  <2>3. StagingInv'
    BY <1>2
      DEF ServiceStarted, TypeOK, Trees, Parts, Tree, Whole, Running, Over, OneUpdater,
          StagingInv, PayloadKept
  <2>4. MissingInv'
    BY <1>2
      DEF ServiceStarted, TypeOK, Trees, Parts, Tree, Whole, Running, Over, OneUpdater,
          StagingInv, MissingInv
  <2>5. PayloadKept'
    BY <1>2
      DEF ServiceStarted, TypeOK, Trees, Parts, Tree, Whole, Running, Over, StagingInv,
          MissingInv, PayloadKept
  <2> QED
    BY <2>1, <2>2, <2>3, <2>4, <2>5
<1> QED
  BY <1>1, <1>2

LEMMA StutterStep == ASSUME IInv, UNCHANGED vars PROVE IInv'
  BY DEF IInv, TypeOK, OneUpdater, StagingInv, MissingInv, PayloadKept, Whole

\* IInv is an invariant of updates that do not overlap.
THEOREM UpdateInvariance == ASSUME ~Overlap PROVE Spec => []IInv
<1>1. IInv /\ [Next]_vars => IInv'
  <2> SUFFICES ASSUME IInv, [Next]_vars PROVE IInv'
    OBVIOUS
  <2>1. CASE Quiet \/ UNCHANGED vars
    BY <2>1, StutterStep DEF Quiet
  <2>2. CASE ServiceStopped \/ ServiceStarted
    BY <2>2, ServiceStep
  <2>3. ASSUME NEW u \in Updaters,
               Request(u) \/ Updater(u) \/ Fails(u) \/ Deadline(u) \/ Crash(u)
        PROVE  IInv'
    BY <2>3, BeginStep, SwapStep, AfterStep, AroundStep DEF Updater
  <2> QED
    BY <2>1, <2>2, <2>3 DEF Next
<1> QED
  BY InitInv, <1>1, PTL DEF Spec

\* Every directory, the configuration, the service and the updaters keep their types.
THEOREM UpdateTypeCorrect == ASSUME ~Overlap PROVE Spec => []TypeOK
<1>1. IInv => TypeOK
  BY DEF IInv
<1> QED
  BY <1>1, UpdateInvariance, PTL

\* After any number of updates, failed, killed or complete, there is a complete payload
\* in bin or in a bin.old-*.
THEOREM PayloadIsKept == ASSUME ~Overlap PROVE Spec => []PayloadKept
<1>1. IInv => PayloadKept
  BY DEF IInv
<1> QED
  BY <1>1, UpdateInvariance, PTL

\* bin is missing with no updater at work only after a crash or a refused rename back.
THEOREM BinIsBack == ASSUME ~Overlap PROVE Spec => []BinBack
<1>1. IInv => BinBack
  BY DEF IInv, MissingInv, BinBack, Running
<1> QED
  BY <1>1, UpdateInvariance, PTL
=============================================================================
