SPECIFICATION Spec
CONSTANTS
  NoToken = NoToken
  Tabs = {t1, t2}
  Calls = {k1, k2}
  Operations = {"fault"}
  MaxClock = 4
INVARIANTS Renewable SessionKept
CHECK_DEADLOCK FALSE
