CONSTANTS
  None = None
  p1 = p1
  p2 = p2
  Psks = {p1, p2}
  PeerIds = {3, 7}
  AnswerCounts = {0, 1, 2}
  AnswerLens = {16, 31, 32, 33}
  MaxSessions = 2
  MaxNonces = 3
  MaxRestarts = 1

SPECIFICATION Spec
INVARIANT TypeOK
INVARIANT KeysMatch
INVARIANT NoKeyTwice

\* The bounds on sessions and nonces end every run.
CHECK_DEADLOCK FALSE
