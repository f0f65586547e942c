\* The dispatcher stops for good after its verdict: no deadlock check.
SPECIFICATION Spec
CONSTANTS
  Orders = {o1, o2}
  MaxLots = 2
SYMMETRY OrderSymmetry
CHECK_DEADLOCK FALSE
INVARIANTS
  TypeOK
  OneLiveOrder
  ExposureWithinCap
  RecordsTellTheTruth
  PositionSettled
  EventsLawful
  CleanStopIsFlat
PROPERTIES
  ReduceOnlyReduces
  ImplementsAccount
