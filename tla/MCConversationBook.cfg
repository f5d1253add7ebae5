CONSTANTS
  ann = ann
  bob = bob
  Owners = {ann, bob}
  Ids = {1, 2, 3}
  Sessions = {s1, s2}
  NoSession = noSession
  PinLimit = 1
  PageSize = 1
  MaxMessages = 2
  MaxCost = 2
  Costs = {1, 3}
  Books <- Starts
  MaxClock = 2
SPECIFICATION Spec
CHECK_DEADLOCK FALSE
INVARIANTS
  PinLimitKept
  ReadsSound
PROPERTIES
  OwnerActsAlone
  GivenNameStays
  RequestsEnd
