SPECIFICATION Spec
CONSTANTS
  Senders = {t1, t2, t3}
  Sockets = {s1, s2}
  SessionIds = {a}
  None = None
  ClientSessionId = a
  PoolSize = 2
  MaxSeq = 3
  WriterPreference = FALSE
SYMMETRY Symmetry
CHECK_DEADLOCK FALSE
INVARIANTS
  WaiterMovesOn
