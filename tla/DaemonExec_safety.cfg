SPECIFICATION Spec
CONSTANTS
  r1 = r1  r2 = r2  id1 = id1
  None = None  Corrupt = Corrupt
  Reqs <- MCReqs  Ids <- OneId  Kinds <- MCKinds  Networks <- TwoNets
  Policies <- OnePolicy  Decide <- MCDecide  Moves <- NoMoves
  Ttl = 1  HashTtl = 1  HashLife = 1  MaxTime = 2  MaxBoots = 2
SYMMETRY Symmetry
INVARIANTS RequestsOK AnswersAreOnChain DiskBehindMemory CacheStampIsEarly QuietGate
PROPERTIES RetiredForever SignedFresh ImplementsLedger
