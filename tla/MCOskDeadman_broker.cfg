CONSTANTS
  Random = random
  Truncated = truncated
  k1 = k1
  k2 = k2
  k3 = k3
  Keys = {k1, k2, k3}
  EraseAfter = 2
  ChannelCapacity = 1
  MaxWrite = 1
  MaxHandles = 2
  BrokerMayFail = TRUE
  ExitModes = {}

SPECIFICATION FairSpec
PROPERTY EveryKeyErased
