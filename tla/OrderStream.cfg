\* A monitor that has ended does nothing more: no deadlock check.
SPECIFICATION Spec
CONSTANTS
  MaxChanges = 2
  MaxGeneration = 3
  MaxReconnects = 2
  ConnectAttempts = 2
  PositionsDiffer = FALSE
CHECK_DEADLOCK FALSE
INVARIANTS
  TypeOK
  ReadyMeansRead
  NoLostUpdate
