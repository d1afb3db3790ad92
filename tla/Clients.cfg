SPECIFICATION ClientsSpec
CONSTANTS
  None = None
  Corrupt = Corrupt
  Procs = {1, 2}
  Setups <- MCSetups
  Order <- MCOrder
  QuoteLife = 1
  Calls = {1, 2, 3}
  Configs <- MCConfigs
  Asks <- MCAsks
  HostLife = 1
  EnvFallback = FALSE
  MaxTicks = 2
  MaxRestarts = 1
  Addresses = {1}
  Viewers = {v1, v2}
  Timers = {t1}
  GoodFor = 1
  Apart = 1
  Window = 2
  Keep = 3
  MaxClock = 4
  MaxFee = 1
  MaxOdd = 1
INVARIANTS CyclesAreRefused StuckOnlyByOwnBalance SwapsAreBracketed ExecutesItsQuote SentOnce
INVARIANTS SwapsAsShown HistoryIsSpaced
PROPERTIES FeesOfTheWindow
SYMMETRY ViewersAlike
VIEW ClientsView
CHECK_DEADLOCK FALSE
