CONSTANTS
  Pid = {p1, p2, p3}
  NoPid = NoPid
  Attempts <- TwoAttempts
SPECIFICATION Spec
INVARIANTS
  OwnedOrLeaked
PROPERTIES
  CrashIsNoticed
