SPECIFICATION FairSpec
CONSTANTS
  Calls = {k1, k2}
  None = None
  Worlds <- MCWorlds
  MaxSockets = 3
  MaxClients = 3
INVARIANTS NoRequestLeft CallsSafe NothingLeaks LinksAgree
PROPERTY ByeEnds
CHECK_DEADLOCK FALSE
