CONSTANTS
  Turns = {t1, t2, r1}
  Chats = {t1, t2}
  Requests = {r1}
  Calls = {k1}
  Conversations = {a}
  NoConversation = noConversation
  NoCall = noCall
  NoWorker = noWorker
  MaxMessages = 3
SPECIFICATION Spec
SYMMETRY ChatSymmetry
INVARIANTS
  TurnsDoNotInterleave
  ContextConsistent
