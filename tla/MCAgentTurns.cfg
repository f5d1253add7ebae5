CONSTANTS
  Turns = {t1, r1, r2}
  Chats = {t1}
  Requests = {r1, r2}
  Calls = {k1}
  Conversations = {a}
  NoConversation = noConversation
  NoCall = noCall
  NoWorker = noWorker
  MaxMessages = 3
SPECIFICATION Spec
INVARIANTS
  AgentRunsAsDecided
  CallsConsistent
PROPERTIES
  EveryTurnEnds
