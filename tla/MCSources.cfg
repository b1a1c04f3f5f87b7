CONSTANTS
  s1 = s1
  r1 = r1
  r2 = r2
  n1 = n1
  a = a
  b = b
  l1 = l1
  l2 = l2
  l3 = l3
  Absent = Absent
  Plain = Plain
  Subs = {s1}
  Rules = {r1, r2}
  Nodes = {n1}
  Manual <- MCManual
  Scheduled = {r1}
  Defs = {"d1", "d2"}
  Contents = {a, b}
  Saved <- MCSaved
  Imported <- MCImported
  Slots = {1, 2, 3}
  RetryTicks = 1
  MaxOps = 2
  Listed = {"i1"}
  MaxEdits = 6
  Launches = {l1, l2, l3}
  MaxRechecks = 3
SPECIFICATION MCSpec
INVARIANTS
  ListsFollowStore
  LossIsShown
  DraftsAreKept
  NoLaunchIsLost
CHECK_DEADLOCK FALSE
