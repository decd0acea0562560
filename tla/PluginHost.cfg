SPECIFICATION HostSpec
CONSTANTS
  c1 = c1
  c2 = c2
  v1 = v1
  v2 = v2
  NoInstance = NoInstance
  Cameras = {c1}
  Configs = {v1, v2}
  Wants <- FirstOnly
  Requests = {r1, r2}
  Operations = {"enable", "disable", "configure"}
  LoadFails = TRUE
  MaxInstances = 2
  MaxTasks = 2
  None = None
  Places = {0, 2}
  MaxObjects = 2
  MaxPeople = 1
  Gaps = {1, 2}
  Persistence = 2
  Suspicious = 0
  Pending = 1
  Abandoned = 2
  Stale = 2
  Removed = 1
INVARIANTS OneAtATime  
PROPERTIES FramesKeepComing 
CHECK_DEADLOCK FALSE
