SPECIFICATION Spec
CONSTANTS
  Calls = {k1, k2}
  Keys = {s1, s2}
  KeyOf <- MCOwnKey
  MinBacklog = 1
  QueueMax = 2
  Workers = 1
  MaxPackets = 1
  MaxNodes = 2
  MaxClients = 2
  None = None
INVARIANT MemorySafe
