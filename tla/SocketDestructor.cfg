SPECIFICATION FairSpec
CONSTANTS
  Senders = {t1}
  Sockets = {s1}
  SessionIds = {a}
  None = None
  ClientSessionId = a
  PoolSize = 2
  MaxSeq = 2
  WriterPreference = FALSE
CHECK_DEADLOCK FALSE
PROPERTIES
  DestructorTerminates
