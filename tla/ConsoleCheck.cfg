SPECIFICATION FairConsoleSpec
CONSTANTS
  Sessions = {"a"}
  Asked    <- Headless
  Watched  = "here"
  Killable = {}
  Prompt   = TRUE
  Me       = "a"
  Jobs     = {"check", "exec"}
  Scripts  <- Nothing
  Prints   <- Quiet
  Window   = 5
  Budget   = 12
CHECK_DEADLOCK FALSE
INVARIANTS
  ConsoleTypeOK
  CheckIsHonest
PROPERTIES
  ExecRunsToTheEnd
  CheckPasses
  GenixComesUp
  BootAtMonitor
  SessionSpec
