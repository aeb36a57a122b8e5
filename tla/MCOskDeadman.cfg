CONSTANTS
  Random = random
  Truncated = truncated
  k1 = k1
  k2 = k2
  k3 = k3
  k4 = k4
  Keys = {k1, k2, k3, k4}
  EraseAfter = 4
  ChannelCapacity = 2
  MaxWrite = 2
  MaxHandles = 2
  BrokerMayFail = TRUE
  ExitModes = {"return", "kill"}

SPECIFICATION FairSpec
INVARIANT TypeOK
INVARIANT BoundedLifetime
INVARIANT ShutdownErases
PROPERTY KeptUntilDue
PROPERTY ImplementsExpiringSlot
PROPERTY GuardedKeyErased
PROPERTY RequestWritten
