CONSTANTS
  None = None
  MaxBudding = 2
  NotificationCapacity = 2
  RequestCapacity = 1
  MaxConnections = 3
  MaxRounds = 2

SPECIFICATION Spec
INVARIANT ExitsAreKnown

\* The server ends when its event loop fails.
CHECK_DEADLOCK FALSE
