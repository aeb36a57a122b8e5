CONSTANTS
  None = None
  MaxBudding = 1
  NotificationCapacity = 1
  RequestCapacity = 1
  MaxConnections = 2
  MaxRounds = 2

SPECIFICATION FairSpec
PROPERTY NotificationsAccepted
PROPERTY KeysDelivered

\* The server ends when its event loop fails.
CHECK_DEADLOCK FALSE
