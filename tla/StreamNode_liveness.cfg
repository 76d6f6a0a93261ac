SPECIFICATION FairSpec
CONSTANTS
  Calls = {k1, k2}
  Keys = {s1}
  KeyOf <- MCOneKey
  MinBacklog = 1
  QueueMax = 2
  Workers = 1
  MaxPackets = 1
  MaxNodes = 1
  MaxClients = 2
  None = None
PROPERTIES DyingNodeFreed FlaggedClientFreed
