SPECIFICATION FairDriverSpec
CONSTANTS
  Drives    <- MCDrives
  Capacity  <- MCCapacity
  Data      <- MCData
  Zeros     = "zeros"
  HeaderIn  <- MCHeaderIn
  IocbAddr  = {1, 2}
  Page      <- MCPage
  MaxCount  = 2
  IocbImage <- NoImages
  Stored    = {"text", "label"}
  Byte      <- NoBytes
  Opcode    <- NoOpcodes
  NoLink    = NoLink
  FirstDisk <- MCFirstDisk
  Program   <- MCProgram
  MaxResets = 1
INVARIANTS
  DriverTypeOK
  NoLostInterrupt
  AnswerIsOurs
PROPERTIES
  EveryCommandCompletes
  ServiceSpec
