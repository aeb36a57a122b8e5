CONSTANTS
  None = None
  MaxBudding = 1
  NotificationCapacity = 1
  RequestCapacity = 1
  MaxConnections = 3
  MaxRounds = 1
  MaxFaults = 2
  FatalFaults = FALSE

SPECIFICATION ExchangeFairSpec
PROPERTY Convergence

\* The bounds on connections and rounds end every run.
CHECK_DEADLOCK FALSE
