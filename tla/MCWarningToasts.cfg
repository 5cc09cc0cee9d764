SPECIFICATION ToastsSpec
CONSTANTS
  None = None
  Datalinks = {"a", "b", "c"}
  Levels = {"low", "high"}
  MaxStack = 2
  MaxToasts = 4
INVARIANT SingleRepresentation
CHECK_DEADLOCK FALSE
