SPECIFICATION ConsoleSpec
CONSTANTS
  Sessions = {"a"}
  Asked    <- Terminal
  Watched  = "here"
  Killable = {"term"}
  Prompt   = TRUE
  Me       = "a"
  Jobs     = {"interactive", "notty"}
  Scripts  <- Words
  Prints   <- Quiet
  Window   = 5
  Budget   = 12
CHECK_DEADLOCK FALSE
INVARIANTS
  SyncReachesShell
  TerminalGivenBack
PROPERTY
  BootAtMonitor
