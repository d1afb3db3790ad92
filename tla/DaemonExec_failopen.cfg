SPECIFICATION Spec
CONSTANTS
  r1 = r1  r2 = r2  id1 = id1
  None = None  Corrupt = Corrupt
  Reqs <- OneReq  Ids <- OneId  Kinds <- MCKinds  Networks <- OneNet
  Policies <- NoPolicies  Decide <- MCDecide  Moves <- NoMoves
  Ttl = 1  HashTtl = 1  HashLife = 1  MaxTime = 1  MaxBoots = 1
INVARIANTS FailsClosed
