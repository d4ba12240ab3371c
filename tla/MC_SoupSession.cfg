SPECIFICATION FairSpec
CONSTANTS
  Messages = {m1, m2}
  Asks <- MCAsks
  MaxMessages = 2
  MaxConnects = 2
  MaxInFlight = 2
INVARIANTS NumbersAgree ExactlyOnce
PROPERTIES CatchesUp
CHECK_DEADLOCK FALSE
