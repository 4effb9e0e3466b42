SPECIFICATION Spec
CONSTANTS
  Senders = {t1, t2}
  Sockets = {s1, s2}
  SessionIds = {a}
  None = None
  ClientSessionId = a
  PoolSize = 2
  MaxSeq = 2
  WriterPreference = FALSE
SYMMETRY Symmetry
CHECK_DEADLOCK FALSE
INVARIANTS
  SeqNumsConsecutive
