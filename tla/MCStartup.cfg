CONSTANTS
  None = None
  Malformed = Malformed
  Authorities = {qkd_ca, other_ca}
  Configs <- MCConfigs
  PskFiles <- MCPskFiles
  Builds = {"debug", "release"}
  KeyLength = 32
  RekeyInterval = 120
  Margin = 30
  MaxU64 = 1023
  MaxDuration = 511

SPECIFICATION FairSpec
INVARIANT TypeOK
INVARIANT NoSilentTruncation
INVARIANT PanicsAreOverflow
INVARIANT RunningIsGuarded
PROPERTY OnlyTrustedDevice
PROPERTY ClientsAuthenticated
PROPERTY StartEnds
