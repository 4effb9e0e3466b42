SPECIFICATION FairSpec
CONSTANTS
  Callers = {c1, c2}
  Receivers = {r1}
  Last <- MCLast
  StoresOrdered = FALSE
CHECK_DEADLOCK FALSE
INVARIANTS
  TypeOK
  CountsCalls
  NoCallIntoDetached
  AssertsHold
  OwnerIsWoken
PROPERTIES
  NoNewCalls
  DestructionEnds
