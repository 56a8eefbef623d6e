CONSTANTS
  e1 = e1
  e2 = e2
  e3 = e3
  Enders <- MCEnders
  Targets <- MCTargets
  IoMayFail = TRUE
SPECIFICATION FairSpec
INVARIANTS TraceOwned NoSuspendedTarget OneEnder
PROPERTIES EndReturns
