SPECIFICATION Spec
CONSTANTS
  c1 = c1  c2 = c2  id1 = id1  id2 = id2  id3 = id3  h1 = h1  h2 = h2  None = None
  Steps <- MCSteps  DependsOn <- MCDependsOn  Order <- MCOrder  Refused <- NoneRefused
  Callers <- TwoCallers  Routes <- AllRoutes  Retries = TRUE  Torn = TRUE
  Ids <- TwoIds  Hashes <- OneHash  MaxBoots = 2
SYMMETRY Symmetry
INVARIANTS StatusIsTrue OffersInOrder
PROPERTIES SignaturesAreKept
CHECK_DEADLOCK FALSE
