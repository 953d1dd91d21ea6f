CONSTANTS
  Requests = {r1}
  OldKeys = {old}
  Vacant = Vacant
  NUids = 2
  NSubs = 2
  NSlots = 3
  MaxFaults = 2
SPECIFICATION FairSpec
INVARIANTS
  CardMatches
PROPERTIES
  AnsweredOrLost
  TransferEnds
CHECK_DEADLOCK FALSE
