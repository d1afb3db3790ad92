SPECIFICATION Spec
CONSTANTS
  None = None  Corrupt = Corrupt  p1 = p1  p2 = p2
  Procs <- MCProcs  Starts <- MCStarts  Slippages = {2}
  Endpoints <- MCEndpoints  HistoryCap = 2  Minute = 2  MaxTime = 2
SYMMETRY Symmetry
INVARIANTS HistoryIsOrdered LimitsWhenAlone OwnCooldown SimulatedIfFresh  MovesOn
CHECK_DEADLOCK FALSE
