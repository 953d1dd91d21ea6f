SPECIFICATION FairSpec
CONSTANTS
  Stdin = stdin
  Stdout = stdout
  Stderr = stderr
  Size <- MCSize
  ExtraIn = {}
  Retries = TRUE
  MaxOut = 2
  Cap = 1
  MaxForeign = 1
  Chunks = 3
INVARIANTS
  OutputComplete
  ExitCodeHonest
PROPERTIES
  SuccessIsFinal
  RunEnds
CHECK_DEADLOCK FALSE
