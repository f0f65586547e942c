\* The run ends: no deadlock check.
SPECIFICATION LiveSpec
CONSTANTS
  Slots = {s1, s2}
  None = None
  Lots = 1
  Tp1Lots = 0
  Tp2Lots = 0
  FastAttempts = 1
  MaxExitCancels = 1
  MaxTrades = 1
  Causes = {"error"}
CHECK_DEADLOCK FALSE
PROPERTIES
  UnresolvedHalts
  ClientStopEndsRun
