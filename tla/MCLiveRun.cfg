\* The run ends: no deadlock check.
SPECIFICATION Spec
CONSTANTS
  Slots = {s1, s2}
  None = None
  Lots = 3
  Tp1Lots = 1
  Tp2Lots = 1
  FastAttempts = 1
  MaxExitCancels = 1
  MaxTrades = 2
  Causes = {"error"}
SYMMETRY SlotSymmetry
CHECK_DEADLOCK FALSE
INVARIANTS
  TypeOK
  AlwaysAdmissible
  FlatIsTrue
PROPERTIES
  EntryNeverResent
  EntriesOnlyWhileTrading
