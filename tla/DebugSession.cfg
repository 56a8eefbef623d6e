CONSTANTS
  t1 = t1
  t2 = t2
  t3 = t3
  t4 = t4
  NoThread = NoThread
  Threads <- MCThreads4
  Roles <- MCRoles4
  IoMayFail = TRUE
SPECIFICATION Spec
SYMMETRY Symmetry4
INVARIANTS TypeOK SerialisedRequests TerminalUnregistered OrphanHasReaper WriteAhead
PROPERTIES NeverRevived OutcomeStable ImplementsContract
