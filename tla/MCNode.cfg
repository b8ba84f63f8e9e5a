SPECIFICATION Spec
CONSTANTS
  ReportKey = {r1}
  Caller = {a, b}
  MaxChanges = 3
  MaxWriteFails = 1
  MaxCrashes = 1
  Content = {None, v1, v2}
  None = None
  MaxEdits = 2
  MaxRestarts = 1
  EventsAreLost = TRUE
  SecretKey = {k1, k2}
  Updater = {w1, w2}
  MaxUpdates = 2
  MaxKubeFails = 2
  MaxKubeRestarts = 1
  Servers = 2
  MaxMoves = 1
  MaxNatFails = 2
  MaxReplaced = 2
  MaxIntegrityFails = 2
  MaxAgentRestarts = 2
INVARIANTS
  FilesFollow
  RefsBacked
PROPERTIES
  NoLostUpdate
  ReportsLive
  
  
  VerificationLive
CHECK_DEADLOCK FALSE
