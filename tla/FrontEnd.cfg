SPECIFICATION Spec
CONSTANTS
  yard = yard
  gate = gate
  Cameras <- MCCameras
  Filters <- MCFilters
  All <- MCAll
  Limit = 1
  MaxRows = 3
  Precious = {1}
  OnMount = 2
  First = yard
  RulesAtStart <- MCRules
  Contents = {"x", "y"}
  DefaultRule = "x"
  Savable = {"y"}
  MaxChanges = 2
  Places = {"x", "y"}
  Outline <- MCOutline
  MaxPoints = 4
  LinesAtStart <- MCLines
  LineKinds = {"x", "y"}
  MaxLines = 1
  MaxSaves = 1
  Recorded <- MCRecorded
  Day = 12
  Stride = 2
  MaxCameras = 2
  MaxDetections = 6
  Detection <- MCDetection
  PageSize = 2
  RowIds = {1, 2}
  RowsAtStart <- MCRows
  Entries = {"y"}
  Urls = {"u", "v"}
  ServerNames = {"s"}
  Existing = {}
  Servers = {"s"}
  Streams = {"", "rtsp", "http"}
  ConfigAtStart <- MCConfig
  FieldValues = {"x", "y"}
  Telegrams = {"off", "on"}
  Invalid = Invalid
  Plugins = {"p", "q"}
  Unconfigured = {"q"}
  MaxCalls = 3
  BoxCameras = {"c"}
  Rests = {"x", "y"}
  MaxPresses = 1
  MaxEdits = 1
  ZoneCameras = {"a", "b"}
  Colours = 2
  MaxZones = 2
  MaxZonePoints = 3
  NotesAtStart <- MCNotes
  Notes = {"y"}
  MaxNotes = 2
  Faces = {1, 2, 3}
  NamesAtStart <- MCNames
  People = {"ana", "unknown"}
  MaxErrands = 2
  
PROPERTIES  DragsOne
CHECK_DEADLOCK FALSE
