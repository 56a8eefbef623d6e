CONSTANTS
  u1 = u1
  u2 = u2
  Shipped = Shipped
  Absent = Absent
  Updaters <- MCUpdaters
  WithConfig <- MCFirst
  WithRestart <- MCSecond
  Overlap = FALSE
SPECIFICATION FairSpec
INVARIANTS PayloadKept BinBack
PROPERTIES UpdateEnds
