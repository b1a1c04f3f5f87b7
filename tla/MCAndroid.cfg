CONSTANTS
  Urls = {"u1", "bad"}
  Links = {"l1", "l2", "l3"}
  Usable = {"u1", "u2", "l1", "l2", "l3"}
  NameIn <- Names
  GroupNames = {"g", "h"}
  Backups <- Copied
  MaxSources = 3
  MaxGroups = 2
  MaxPhoneRules = 2
  MaxEdits = 5
  Kernels = {k1, k2, k3}
  Threads = {t1, t2}
  Edits = {1, 2}
  Resolvers = {1}
  MaxIntents = 2
  MaxTaps = 4
  NoKernel = NoKernel
SYMMETRY Alike
CHECK_DEADLOCK FALSE
SPECIFICATION MCSpec
INVARIANTS
  GroupsKeepMembers
  NoStrayKernel
  NothingPendingIsServed
