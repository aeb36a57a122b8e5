CONSTANTS
  None = None
  Intervals = {0, 2, 5}
  Margin = 4
  RetryDelay = 1
  MaxPrepare = 1
  MaxConfirm = 2
  MaxWait = 1
  MaxWrite = 1
  MaxBreaks = 2

SPECIFICATION FairSpec
INVARIANT TypeOK
INVARIANT SplitBounded
PROPERTY KeptWhileRekeying
PROPERTY KeysRotate
PROPERTY SilenceErases
