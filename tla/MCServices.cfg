CONSTANTS
  Windows <- MCWindows
  Second = 1
  CooldownLow = 1
  CooldownHigh = 2
  MaxTime = 4
  MaxAllowed = 3
  MaxMishaps = 2
  Queue = 1
  PendingKept = 1
  Fills <- MCFills
  MaxPushed = 2
  MaxFailures = 2
  MaxOrders = 2
  MaxLots = 2
  MaxTraded = 2
  Attempts = 2
  Charges <- MCCharges
  Prices <- MCPrices
  Digits = 100
  Setups <- MCSetups
  MaxTrades = 2
  MaxQuirks = 1
  MaxCalls = 2
  Triggers = {1, 2, 3}
  MaxCommands = 3
SPECIFICATION Spec
INVARIANTS BudgetHolds UpdatesAccountedFor ViewAddsUp NeverBothFill
PROPERTY StopNeverLoosens
CONSTRAINT Followed
CHECK_DEADLOCK FALSE
