SPECIFICATION CompileSpec
CONSTANTS
  a = a  b = b  c = c
  Ids <- MCIds  Plans <- MCPlans  MaxActions = 3  MaxDeps = 2
INVARIANTS DependenciesFirst OrdersOrReports RestsOnAllowed
CHECK_DEADLOCK FALSE
