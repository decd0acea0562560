SPECIFICATION FairSpec
CONSTANTS
  a = a
  b = b
  ea = ea
  eb = eb
  NoRow = NoRow
  NoDims = NoDims
  Servers = {a, b}
  Events = {ea, eb}
  Owner <- OneEach
  Requests = {r1}
  SharedBroker = FALSE
  Faults = {}
  Operations = {}
  MaxUpdates = 0
INVARIANTS CaughtUp
PROPERTIES FinishedStored StoredAnnounced
CHECK_DEADLOCK FALSE
