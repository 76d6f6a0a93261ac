SPECIFICATION Spec
CONSTANTS
  Calls = {k1, k2}
  None = None
  Worlds <- MCBreaks
  MaxSockets = 2
  MaxClients = 2
INVARIANT AllLinksClosed
CHECK_DEADLOCK FALSE
