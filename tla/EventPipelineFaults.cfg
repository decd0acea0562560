SPECIFICATION Spec
CONSTANTS
  a = a
  b = b
  ea = ea
  eb = eb
  NoRow = NoRow
  NoDims = NoDims
  Servers = {a, b}
  Events = {ea}
  Owner <- OneAlone
  Requests = {r1}
  SharedBroker = FALSE
  Faults = {"lost", "publish", "crash", "fetch", "resize"}
  Operations = {"delete", "protect", "unprotect"}
  MaxUpdates = 2
INVARIANTS  AnnouncedStored
PROPERTIES EndKept 
CHECK_DEADLOCK FALSE
