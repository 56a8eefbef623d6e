CONSTANTS
  i1 = i1
  o1 = o1
  k1 = k1
  a = a
  b = b
  m1 = m1
  Pids <- MCPids
  Tids = {"t"}
  Irps = {i1}
  Objects = {o1}
  Keys = {k1}
  Paths = {a}
  Stamps = {1, 2}
  Bases = {10}
  Images = {m1}
  None = None
  ZeroPid = "zero"
  Rooted = TRUE
  RootPid = "root"
  Presets = {"process", "thread", "image", "file"}
  MaxStamps = 1
  MaxPerStamp = 1
  Faults = {"lost", "inject", "pid"}
  Records = {"process", "thread", "registry", "file", "image", "stack", "io"}
  MaxEvents = 5
  MaxFaults = 1
SPECIFICATION Spec
INVARIANTS  TreeFollowed FilterFaithful CacheBounded
