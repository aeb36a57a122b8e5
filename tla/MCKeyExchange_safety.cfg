CONSTANTS
  None = None
  MaxBudding = 2
  NotificationCapacity = 2
  RequestCapacity = 1
  MaxConnections = 2
  MaxRounds = 2
  MaxFaults = 2
  FatalFaults = TRUE

SPECIFICATION ExchangeSpec
INVARIANT ExchangeTypeOK
INVARIANT ServerNeverAhead
INVARIANT SettledAgree
PROPERTY ImplementsHandover

\* The bounds on connections and rounds end every run.
CHECK_DEADLOCK FALSE
