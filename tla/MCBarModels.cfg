CONSTANTS
  Lots = 4
  Tp1Lots = 1
  Tp2Lots = 1
  Prices <- MCPrices
  StepStop = TRUE
  ConfirmWindow = 1
  HoldBars = 2
  TimeoutBars = 2
  Window = 1
  BadR = 0
  GoodR = 2
  MaxQ = 2
  DayEnd = 4
  EntriesUntil = 3
  SquareOff = 3
  Blackouts = {2}
  MaxEpochs = 2
  Modes <- MCModes
SPECIFICATION Spec
INVARIANTS TicksAgreeWithBars FlatOvernight BookFollowsModel EpochPure
PROPERTY ImplementsBarModel
