SPECIFICATION Spec
CONSTANTS
  None = None  Corrupt = Corrupt  p1 = p1  p2 = p2
  Procs <- OneProc  Starts <- CarelessStarts  Slippages = {2}
  Endpoints <- MCEndpoints  HistoryCap = 2  Minute = 1  MaxTime = 1
INVARIANTS SimulatedBeforeSent
CHECK_DEADLOCK FALSE
