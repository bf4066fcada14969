SPECIFICATION Spec
CONSTANTS
  Byte  <- MCByte
  Files <- MCFiles
CHECK_DEADLOCK FALSE
INVARIANT
  LoadedAsLinked
