SPECIFICATION FairSpec
CONSTANTS
  Sockets = {s1, s2}
  NoSocket = NoSocket
  Keys = {k1, k2}
  NoKey = NoKey
  CardLists <- MCCardLists
  KeyLists <- AllKeys
  Actions = {"pem-private", "pem-public"}
  MaxTimers = 2
  MaxAsks = 2
  Readers0 = {r1, r2}
  Revs = {1, 2}
INVARIANTS
  OneSocket
  AnswerFits
  LoadingHasReason
  CardsShown
PROPERTIES
  ComesBack
  StatusCatchesUp
