SPECIFICATION Spec
CONSTANTS
  None = None
  Datalinks = {1}
  Configs <- MCConfigs
  Values <- MCValues
  Delays = {1, 2}
  Kinds = {"edit", "re-enable"}
  StartDelay = 1
  MaxTime = 3
PROPERTIES
  ImplementsSource
  NeverTooEarly
CHECK_DEADLOCK FALSE
