SPECIFICATION FairExchangeSpec
CONSTANTS
  NoToken = NoToken
  Tabs = {t1, t2}
  Calls = {k1}
  Operations = {"login", "logout", "reload", "fault"}
  MaxClock = 2
  Pictures = {1, 2}
  Views <- AllViews
  Restarts = 1
INVARIANTS DoneIsWhole
PROPERTIES CallsEnd CardsShow ExportEnds
CHECK_DEADLOCK FALSE
