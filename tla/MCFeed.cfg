CONSTANTS
  Step = 2
  Grace = 1
  MaxAge = 1
  MaxAhead = 1
  Duration = 6
  MaxTrades = 2
  MaxWire = 1
  MaxGeneration = 2
  FrameIdle = 2
  DataIdle = 3
  Finalization = 0
  Margin = 0
  Ahead = 0
SPECIFICATION FairSpec
INVARIANTS TypeOK BarsInOrder VolumeConserved HolesAreKnown FaultedUnlessWhole
PROPERTY SilenceFaults
CONSTRAINT Followed
CHECK_DEADLOCK FALSE
