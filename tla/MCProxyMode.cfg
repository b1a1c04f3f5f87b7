SPECIFICATION Spec
INVARIANTS
  HonestMode
  QuitRestores
PROPERTIES
  CrashGivesBack
