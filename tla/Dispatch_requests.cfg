SPECIFICATION FairSpec
CONSTANTS
  Requests = {r1, r2}
  Browsers = {b1, b2}
  Keys = {k1, k2}
  Acts = {"reset", "pin", "delete", "ascii", "card", "dice"}
  None = None
  NAttrs = 2
  MaxFaults = 2
INVARIANTS
  ToldOnce
  ToldTrue
  NotHalfDeleted
  DownForAReason
PROPERTIES
  Answered
\* All requests may be over, or the server down.
CHECK_DEADLOCK FALSE
