SPECIFICATION Spec
CONSTANTS
  Stdin = stdin
  Stdout = stdout
  Stderr = stderr
  Size <- MCSize
  ExtraIn = {}
  Retries = FALSE
  MaxOut = 1
  Cap = 1
  MaxForeign = 0
  Chunks = 2
INVARIANTS
  NotLaunchedIsNotOk
CHECK_DEADLOCK FALSE
