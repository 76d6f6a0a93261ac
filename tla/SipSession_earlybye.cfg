SPECIFICATION Spec
CONSTANTS
  Calls = {k1, k2}
  None = None
  Worlds <- MCLate
  MaxSockets = 2
  MaxClients = 2
INVARIANT SocketsKnown
CHECK_DEADLOCK FALSE
