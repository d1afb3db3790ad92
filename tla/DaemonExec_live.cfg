SPECIFICATION FairSpec
CONSTANTS
  r1 = r1  r2 = r2  id1 = id1
  None = None  Corrupt = Corrupt
  Reqs <- OneReq  Ids <- OneId  Kinds <- MCKinds  Networks <- TwoNets
  Policies <- OnePolicy  Decide <- MCDecide  Moves <- AllMoves
  Ttl = 1  HashTtl = 1  HashLife = 1  MaxTime = 2  MaxBoots = 2
PROPERTIES EveryCallAnswered PreparedIsDropped
