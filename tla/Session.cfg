SPECIFICATION FairSpec
CONSTANTS
  Sessions = {"a", "b", "c", "d"}
  Asked    <- Everyday
  Watched  = "here"
  Killable = {"shell", "term"}
  Prompt   = TRUE
CHECK_DEADLOCK FALSE
INVARIANTS
  TypeOK
  OneMachineButOrphans
  LockCoversMachine
  SomebodyGetsThePack
PROPERTY
  LeavingFreesThePack
