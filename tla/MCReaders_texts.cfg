SPECIFICATION Spec
CONSTANTS
  MaxKeyLines = 6
  MaxCardLines = 4
  CardIds = {c1, c2}
  Slots = 2
INVARIANT ServerReadsText
INVARIANT QuietPolls
INVARIANT PamFindsTheSame
SYMMETRY Symmetry
CHECK_DEADLOCK FALSE
