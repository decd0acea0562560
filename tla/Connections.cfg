SPECIFICATION FairSpec
CONSTANTS
  NoSocket = NoSocket
  Sockets = {s1, s2}
  Setups <- AllSetups
  Cap = 1
  Window = 1
  Quota = 3
  NoPage = NoPage
  MaxEvents = 3
  MaxQueue = 1
  Shown = 2
  Page = 2
INVARIANTS OneConnection ListedOnce Delivered
PROPERTIES  ComesBack Reconnected
CHECK_DEADLOCK FALSE
