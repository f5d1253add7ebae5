CONSTANTS
  Turns = {t1, t2, t3, t4}
  Conversations = {a, b}
  NoConversation = noConversation
  NoTurn = noTurn
SPECIFICATION CoordinatorSpec
CHECK_DEADLOCK FALSE
INVARIANTS
  CoordinatorConsistent
PROPERTIES
  NobodyStarves
  LockKept
