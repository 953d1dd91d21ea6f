SPECIFICATION FairSpec
CONSTANTS
  Moves = {m1, m2}
  MaxFaults = 2
INVARIANTS
  LeftoverReported
PROPERTIES
  ImplementsCardMove
  Settled
\* All moves may be over, or the server down.
CHECK_DEADLOCK FALSE
