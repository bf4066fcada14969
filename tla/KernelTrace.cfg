SPECIFICATION Spec
CONSTANTS
  MaxEntries = 3
  MaxLines   = 5
  KernelTop  = 16
  Inputs    <- MCInputs
INVARIANTS
  SymbolsListed
  NamedByNearest
  PathKept
CHECK_DEADLOCK FALSE
