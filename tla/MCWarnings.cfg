SPECIFICATION MCSpec
CONSTANTS
  None = None
  Datalinks = {"a", "b", "c"}
  Levels = {"low", "high"}
  MaxStack = 2
  MaxToasts = 3
  MaxHistory = 2
  MaxEntries = 3
  Stored <- MCStored
  NotSet = NotSet
  Rows = {"a", "b"}
  Delays = {0, 500}
  HasDefaults = {"a"}
  MaxCalls = 3
  MaxEdits = 2
  MaxActs = 3
INVARIANTS
  ListenersAgree
  PageSound
PROPERTIES
  SavesKeepTheFile
VIEW MCView
CHECK_DEADLOCK FALSE
