SPECIFICATION Spec
CONSTANTS
  Sessions = {"a", "b"}
  Asked    <- OnlyChecks
  Watched  = "here"
  Killable = {"term"}
  Prompt   = TRUE
CHECK_DEADLOCK FALSE
INVARIANT OneMachinePerPack
