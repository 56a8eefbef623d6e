CONSTANTS
  i1 = i1
  o1 = o1
  k1 = k1
  a = a
  b = b
  m1 = m1
  Pids <- MCPids
  Tids = {"t"}
  Irps = {i1}
  Objects = {o1}
  Keys = {k1}
  Paths = {a, b}
  Stamps = {1}
  Bases = {10}
  Images = {m1}
  None = None
  ZeroPid = "zero"
  Rooted = TRUE
  RootPid = "root"
  Presets = {"process", "file"}
  MaxStamps = 1
  MaxPerStamp = 1
  Faults = {"lost", "inject", "create", "foreign", "delete"}
  Records = {"open", "io", "rename", "name"}
  MaxEvents = 5
  MaxFaults = 1
SPECIFICATION Spec
INVARIANTS FilterFaithful PathTrue PairedRight RowPerRecord
PROPERTIES NothingLost
