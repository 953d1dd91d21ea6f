CONSTANTS
  Requests = {r1, r2}
  OldKeys = {}
  Vacant = Vacant
  NUids = 2
  NSubs = 1
  NSlots = 1
  MaxFaults = 0
SPECIFICATION Spec
INVARIANTS
  ResolvedIsComplete
  NoMoveAfterReject
PROPERTIES
  ImplementsTransfer
SYMMETRY Symmetry
CHECK_DEADLOCK FALSE
