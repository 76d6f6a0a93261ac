SPECIFICATION Spec
CONSTANTS
  Calls = {k1, k2}
  Keys = {s1}
  KeyOf <- MCOneKey
  MinBacklog = 1
  QueueMax = 2
  Workers = 2
  MaxPackets = 1
  MaxNodes = 2
  MaxClients = 2
  None = None
INVARIANT HandedOverIsDetached
