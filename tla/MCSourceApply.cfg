CONSTANTS
  Source = {old, new, bad}
  Valid = {old, new}
  NoSource = NoSource
SPECIFICATION Spec
INVARIANTS
  AppliedMeansServing
  FailedMeansRestored
  BootableStore
PROPERTIES
  TransactionEnds
