SPECIFICATION Spec
CONSTANTS
  Drives    <- MCDrives
  Capacity  <- MCCapacity
  Data      <- MCData
  Zeros     = "zeros"
  HeaderIn  <- MCHeaderIn
  IocbAddr  = {1, 2}
  Page      <- MCPage
  MaxCount  = 2
  IocbImage <- MCIocbImage
  Stored    = {"text"}
  Byte      <- MCByte
  Opcode    <- MCOpcode
  NoLink    = NoLink
  FirstDisk <- MCFirstDisk
INVARIANTS
  TypeOK
  BusyIsUnderway
  LineFollowsCode
  IllegalIsExplained
  ShapeKnown
  PrefixMoved
  TrailAcknowledged
PROPERTIES
  OutcomeReported
  ShapeKeptUntilReset
