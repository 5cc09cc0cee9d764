SPECIFICATION MCSpec
CONSTANTS
  MaxAttempts = 2
  Dashboards = {"a", "b"}
  Tabs = {"config", "dashboard", "sessions", "connection"}
  MaxLosses = 1
  MaxEvents = 1
  Nowhere = Nowhere
  MaxEdits = 1
  LayoutGauges = {"g", "h"}
  LayoutTables = {"t"}
  Spots = {0, 1}
  NewSpot = 0
  NoLimit = NoLimit
  Limit = Limit
  NoPart = NoPart
  MaxBuilt = 2
  MaxLayoutCalls = 2
  TripDashboards = {"d", "e"}
  MaxTrip = 2
  MaxTripCalls = 3
  NoDashboard = "none"
  FrameValues = {0}
  StaleAfter = 2
  Cooldown = 5
  MaxSamples = 1
  NoFrame = NoFrame
  Rpms = {0, 1, 2, 3}
  Points = {0, 3}
  Floors = {0, 1}
  Hold = 3
  NoValue = NoValue
  GaugeSensors = {"a", "b"}
  TopValue = 2
  Gate = 1
  HistogramSize = 1
  Calm = 0
  NoReading = NoReading
  PresetIds = {1, 2}
  PresetNames = {"A", "B"}
  PresetLinks = {"rpm"}
  MaxPresetCalls = 2
  NoPreset = NoPreset
  NoName = NoName
CHECK_DEADLOCK FALSE
INVARIANTS
  DashboardTypeOK
  DashboardSound
  TripKept
  
  GateAgrees
  ReconnectAlive
PROPERTIES
  ReconnectEnds
