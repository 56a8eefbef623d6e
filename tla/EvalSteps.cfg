CONSTANTS
  b = b
  k = k
  c1 = c1
  NoThread = NoThread
  Threads <- MCThreads
  Batch = b
  Killer = k
  Cancels <- MCCancels
  Steps = 2
  IoMayFail = TRUE
SPECIFICATION FairSpec
INVARIANTS BatchTruth
PROPERTIES BatchSettles
