CONSTANTS
  Entry = {e1, e2}
  Content = {c1, c2, c3}
  Nobody = Nobody
  Firsts <- MCFirsts
  Writable <- MCWritable
  Modes = {"rule", "direct"}
  Names = {"auto", "home"}
  Exports <- MCExports
  Body = "body"
  MaxOps = 2
  Ids = {1, 2, 3}
  Absent = Absent
  Unreadable = Unreadable
  Kinds = {"subscription", "rules", "node", "group", "picks", "manual"}
  Left <- MCLeft
  Values <- MCValues
  MaxPolicies = 2
  MaxTargets = 2
  MaxConditions = 2
  Ssh = Ssh
SPECIFICATION MCSpec
INVARIANT CarriedVerbatim
CHECK_DEADLOCK FALSE
