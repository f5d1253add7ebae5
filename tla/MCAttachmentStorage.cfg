CONSTANTS
  Jobs = {"api", "reader", "scoped"}
  Kinds <- MCKinds
  Stores = {"apiStore", "scopedStore"}
  Api = "apiStore"
  StoreOf <- MCStoreOf
  Subjects = {"owner"}
  Conversations = {"c1", "c2"}
  NoConversation = "unbound"
  Homes = {"c1", "unbound"}
  Retention = 1
  MaxArtifacts = 2
  MaxIds = 3
  MaxClock = 1
  MaxCrashes = 1
SPECIFICATION Spec
CHECK_DEADLOCK FALSE
INVARIANTS
  StoresConsistent
  AcknowledgedSurvives
  NothingLeftBehind
