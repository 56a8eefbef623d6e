CONSTANTS
  o = o
  t1 = t1
  t2 = t2
  t3 = t3
  NoThread = NoThread
  Threads <- MCThreads
  Opener = o
  IoMayFail = TRUE
SPECIFICATION FairSpec
INVARIANTS ClosedMeansGone WorkerOwned
PROPERTIES RpcReturns
