CONSTANTS
  t1 = t1
  t2 = t2
  t3 = t3
  t4 = t4
  NoThread = NoThread
  Threads <- MCThreads
  Roles <- MCRoles
  IoMayFail = FALSE
SPECIFICATION FairSpec

INVARIANTS OneRunning
PROPERTIES KillReturns TimedEvalReturns TerminalDrains
