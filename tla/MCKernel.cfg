CONSTANTS
  v1 = v1
  v2 = v2
  Cores = {v1, v2}
  None = None
  Corrupt = Corrupt
  Foreign = Foreign
  MaxOps = 3
  p1 = p1
  global = global
  a = a
  b = b
  Nothing = Nothing
  Policies = {p1}
  Global = global
  Nodes = {a, b}
  Syncs = {1, 2}
  Attempts = 2
  MaxActs = 3
  Capacity = 2
  PageLimit = 3
  MaxFrames = 4
  MaxStarts = 2
CHECK_DEADLOCK FALSE
SPECIFICATION MCSpec
INVARIANTS
  CoreRecoverable
  KernelRunsInstalled
  PicksAreUsed
  ShownIsUsed
  StreamIsFaithful
