CONSTANTS
  Codes = {"chat", "ask", "cut", "bid"}
  Keys = {"llm.chat", "online.ask", "agent.skeleton", "agent.extract"}
  Permissions = {"tender"}
  Fields = {"msg", "doc"}
  Binding <- MCBinding
  Handlers = {"llm.chat", "online.ask"}
  AgentHandlers = {"agent.skeleton", "agent.extract"}
  Requests = {"r1", "r2", "r3"}
  Subjects = {"owner", "guest"}
  Permits <- MCPermits
  Offers <- MCOffers
  Seed <- MCSeed
  Uses <- MCUses
  Drafts <- MCDrafts
  Provided <- MCProvided
  GeneralChat = "chat"
  GeneralChatKey = "llm.chat"
  GeneralChatInputs <- MCChatInputs
  McpTools = {"bid"}
  TaskRoutes = {"bid"}
  TopK = 1
  ProposalTTL = 1
  MaxClock = 1
  MaxChanges = 2
  NoRequest = none
  NoIndex = noIndex
  NoCode = noCode
  NoProposal = noProposal
SPECIFICATION Spec
CHECK_DEADLOCK FALSE
INVARIANTS
  RunsAsConfirmed
  CatalogHonoured
PROPERTIES
  ConsentHonoured
