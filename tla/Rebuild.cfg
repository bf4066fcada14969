SPECIFICATION Spec
CONSTANTS
  Drives   <- MCDrives
  Trees    <- MCTrees
INVARIANT PackUsable
CHECK_DEADLOCK FALSE
