SPECIFICATION ImportSpec
CONSTANTS
  MecalFiles = {"A", "B"}
  NoMecal = NoMecal
  FileTables = {"t", "u", "n"}
  EcuTables = {"t", "u"}
  ScaledTables = {"u"}
  FileDrivers = {"d", "e"}
  EcuDrivers = {"d"}
CHECK_DEADLOCK FALSE
INVARIANT MergedAsShown
