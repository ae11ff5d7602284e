SPECIFICATION SetupSpec
CONSTANTS
  Profiles = {a, b}
  Share = share
  Calls = {c1, c2, c3}
  None = None
SYMMETRY ProfileSymmetry
INVARIANTS ProfileTypeOK  FailedCallLeavesNothing CleanupAccepted SuccessIsRecorded
PROPERTIES OnlyItsMakerUndoes
CHECK_DEADLOCK FALSE
