\* A monitor that has ended does nothing more: no deadlock check.
SPECIFICATION LiveSpec
CONSTANTS
  MaxChanges = 1
  MaxGeneration = 2
  MaxReconnects = 1
  ConnectAttempts = 1
  PositionsDiffer = TRUE
CHECK_DEADLOCK FALSE
PROPERTIES
  EndedOrderResolved
  EntriesReopen
  MismatchStops
