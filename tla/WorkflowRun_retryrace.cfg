SPECIFICATION Spec
CONSTANTS
  c1 = c1  c2 = c2  id1 = id1  id2 = id2  id3 = id3  h1 = h1  h2 = h2  None = None
  Steps <- MCSteps  DependsOn <- MCDependsOn  Order <- MCOrder  Refused <- NoneRefused
  Callers <- TwoCallers  Routes <- ByStep  Retries = TRUE  Torn = FALSE
  Ids <- MCIds  Hashes <- OneHash  MaxBoots = 1
SYMMETRY Symmetry
INVARIANTS SameAnswer
CHECK_DEADLOCK FALSE
