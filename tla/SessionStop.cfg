SPECIFICATION Spec
CONSTANTS
  Sessions = {"a"}
  Asked    <- OneTerminal
  Watched  = "here"
  Killable = {}
  Prompt   = TRUE
CHECK_DEADLOCK FALSE
PROPERTY StoppedNotKilled
