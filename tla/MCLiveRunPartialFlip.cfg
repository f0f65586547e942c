\* The run ends: no deadlock check.
SPECIFICATION Spec
CONSTANTS
  Slots = {s1, s2}
  None = None
  Lots = 2
  Tp1Lots = 1
  Tp2Lots = 0
  FastAttempts = 1
  MaxExitCancels = 1
  MaxTrades = 2
  Causes = {"error"}
CHECK_DEADLOCK FALSE
PROPERTIES
  PartialFlipHalts
