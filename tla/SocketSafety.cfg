SPECIFICATION Spec
CONSTANTS
  Senders = {t1, t2}
  Sockets = {s1, s2, s3}
  SessionIds = {a, b}
  None = None
  ClientSessionId = None
  PoolSize = 2
  MaxSeq = 2
  WriterPreference = FALSE
SYMMETRY Symmetry
CHECK_DEADLOCK FALSE
INVARIANTS
  TypeOK
  OneSession
  EraseIsSafe
  NoEmptySession
  FrameNumbersUnique
