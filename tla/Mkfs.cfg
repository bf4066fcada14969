SPECIFICATION Spec
CONSTANTS
  BSIZE      = 3
  NDIRECT    = 1
  NBlocks    = 22
  NInodes    = 6
  INOPB      = 3
  NICFREE    = 2
  NICINOD    = 2
  Names      = {"a", "b", "long"}
  TooLong    = {"long"}
  Files     <- MCFiles
  Devices   <- MCDevices
  BYTE       = 3
  WalkDepth  = 2
  Depth      = 2
  MaxEntries = 4
CHECK_DEADLOCK FALSE
INVARIANTS
  TypeOK
  LinksCounted
  BlocksAccounted
  RoundTrip
  Extracted
  InodesAccounted
