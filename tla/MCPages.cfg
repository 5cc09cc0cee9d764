SPECIFICATION MCSpec
CONSTANTS
  TableCells = {"x", "y"}
  CellValues = {0, 1}
  MaxGroups = 2
  MaxVisits = 2
  NoTable = NoTable
  Height = 2
  Width = 3
  GridValues = {0, 100}
  Percents = {130}
  Kernel <- MCKernel
  RecSensors = {s1, s2}
  MaxFeedSeq = 4
  MaxRows = 2
  MaxRecordings = 1
  SessionIds = {"m", "n"}
  SessionNames = {"n1", "n2"}
  Length <- MCLength
  MaxSessionCalls = 2
  NoSession = NoSession
  Items = {"i", "j"}
  Kinds = {"tables", "drivers"}
  Categories = {"c1", "c2"}
  ItemCategory <- MCCategory
  MaxRecent = 1
  MaxListCalls = 3
  Params = {p, q}
  Slots = {l}
  DriverValues = {0, 1, 2}
  Low = 0
  High = 1
  Guarded = p
  Guard = q
  Accepted = 1
  NeedsReset = {q}
  MaxDriverEntries = 3
  NoDriver = NoDriver
  DashNames = {"a", "b"}
  HostLists <- MCHostLists
  NoDash = "none"
  MaxConnects = 2
  MaxMirrorCalls = 2
  Devices = {"p", "q"}
  MaxAsks = 3
  DecisionWindow = 1
  Ports = {"a", "b"}
  NoPort = "none"
  MaxSetupCalls = 3
  Geometries = {"a", "b"}
  DefaultGeometry = "b"
  NoNumber = NoNumber
  Step = 1
  Typed = {1, 20, 40, 95}
  Legacy <- MCLegacy
  ShiftPointMin = 2
  ShiftPointMax = 90
  FloorMin = 1
  IdleFloor = 2
  DefaultDip = 15
  MaxVehicleCalls = 2
  NoConfig = NoConfig
  Dashboards = {"a", "b"}
  Sensors = {"s"}
  DashTables = {"t"}
  Backdrops = {"p"}
  NoBackdrop = "none"
  MaxDashCalls = 2
  LogNumbers = {0, 2}
  SpikeOver = 1
  FlatRun = 2
  NormalMax = 1
  MaxLog = 3
  MaxEntries = 3
  MaxLogCalls = 3
  MecalFiles = {"A", "B"}
  NoMecal = NoMecal
  FileTables = {"t", "u", "n"}
  EcuTables = {"t", "u"}
  ScaledTables = {"u"}
  FileDrivers = {"d", "e"}
  EcuDrivers = {"d"}
  Viewers = {"v", "w"}
  NoViewer = NoViewer
  ListedDashes = {"d", "e"}
  NoListedDash = NoListedDash
  DeviceNames = {"h", "k"}
  NoDeviceName = NoDeviceName
  MaxSettingsCalls = 3
  LevelLooks = {0, 1}
  PointValues = {1, 2, 3}
  TopPoint = 2
  MaxLevels = 2
  MaxPoints = 2
  MaxRowIds = 4
  MaxRowCalls = 3
  NoLevel = NoLevel
  NoWindow = NoWindow
  MaxBridgeCalls = 5
CHECK_DEADLOCK FALSE
INVARIANTS
  PagesTypeOK
  EditorsSound
  GridSound
  RecorderSound
  SessionsAgree
  ImportSound
  
  DecidedOnce
  SetupSound
  
  DashConfigSound
  ListsSound
PROPERTIES
  ImplementsFifo
