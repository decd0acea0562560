SPECIFICATION FairSpec
CONSTANTS
  NoServer = NoServer
  NoClient = NoClient
  NoTask = NoTask
  Servers = {s}
  Settings = {off, v1}
  Listening = {v1}
  Requests = {r1, r2}
  Operations = {"create", "update", "delete", "use"}
  MaxClients = 2
  MaxAttempt = 1
INVARIANTS PoolFresh SendsOpen
PROPERTIES Reconnects
CHECK_DEADLOCK FALSE
