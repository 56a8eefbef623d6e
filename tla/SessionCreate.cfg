CONSTANTS
  Engines = 3
  Targets <- MCTargets
  IoMayFail = TRUE
SPECIFICATION FairSpec
INVARIANTS OneWorkerAtATime FailureLeavesNoWorker SessionBound
PROPERTIES NoSurvivors
