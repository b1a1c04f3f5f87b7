CONSTANTS
  Setting = {web, socks}
  Server = {corp}
  Manis = Manis
  NoServer = NoServer
  NoSnapshot = NoSnapshot
  NoSetting = NoSetting
  Release <- Versions
  Installed <- RunningVersion
  Job = {j1, j2}
  NoUpdate = NoUpdate
  NoJob = NoJob
  None = None
  Theirs = {"corp", "blank", "absent"}
  NoFile = NoFile
  Services = {"wifi", "lan"}
  Resolver = {"Empty", "theirs"}
  Ours114 = "114"
  NoRecord = NoRecord
  Pids = {p1, p2, p3}
  MaxOps = 4
CHECK_DEADLOCK FALSE
SYMMETRY Alike
SPECIFICATION MCSpec
INVARIANTS
  Restorable
  SoleKernel
  RootIsHeld
  ProxyComesBack
  DnsComesBack
PROPERTIES
  Undoable
  InstallsTheOffer
