SPECIFICATION Spec
CONSTANTS
  SessionID = {s1, s2}
  NoID = NoID
  MaxSessions = 1
  DefaultTimeout = 1
  MaxTime = 2
  MaxCreated = 2
  MaxAccepts = 1
  Client = {c1, c2}
INVARIANTS
  SessionsHeld
  SshAccounted
PROPERTIES
  TimedSessionsEnd
  
CHECK_DEADLOCK FALSE
