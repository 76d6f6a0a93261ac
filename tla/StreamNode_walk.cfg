SPECIFICATION Spec
CONSTANTS
  Calls = {k1, k2, k3}
  Keys = {s1}
  KeyOf <- MCOneKey
  MinBacklog = 1
  QueueMax = 2
  Workers = 1
  MaxPackets = 2
  MaxNodes = 1
  MaxClients = 3
  None = None
INVARIANTS MemorySafe WalkInBounds
PROPERTY KeptWhileServed
SYMMETRY MCSymmetry
