SPECIFICATION FairSpec
CONSTANTS
  yard = yard
  gate = gate
  Cameras <- MCCameras
  Audio <- MCAudio
  Listings <- MCListings
  Layouts = {1, 2}
  Default = 2
  Batch = 1
  MaxTimers = 1
  None = None
INVARIANTS CountRight TileTold
PROPERTIES ComesOnline
