CONSTANTS
  Kinds = {keys}
  KeyRings = {keys}
  Sockets = {s1, s2}
  Chains = {c1, c2, c3, c4}
  Transfers = {t1}
  Values = {empty, full, bare}
  Unreadable = {bare}
  Empty = empty
  NoValue = NoValue
  NoTimer = NoTimer
  MaxChanges = 1
SPECIFICATION Spec
INVARIANTS
  PollingAlive
  ServedOrPending
PROPERTIES
  OnlyRegisterDisagrees
SYMMETRY Symmetry
CHECK_DEADLOCK FALSE
