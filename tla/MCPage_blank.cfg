SPECIFICATION Spec
CONSTANTS
  Sockets = {s1, s2}
  NoSocket = NoSocket
  Keys = {k1}
  NoKey = NoKey
  CardLists <- NoCardLists
  KeyLists <- AllKeys
  Actions = {"pem-private", "pem-public"}
  MaxTimers = 1
  MaxAsks = 1
  Readers0 = {}
  Revs = {}
INVARIANTS
  SendsConnected
