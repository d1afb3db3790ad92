SPECIFICATION Spec
CONSTANTS
  r1 = r1  r2 = r2  id1 = id1
  None = None  Corrupt = Corrupt
  Reqs <- MCReqs  Ids <- OneId  Kinds <- MCKinds  Networks <- OneNet
  Policies <- NoPolicies  Decide <- MCDecide  Moves <- NoMoves
  Ttl = 1  HashTtl = 1  HashLife = 1  MaxTime = 2  MaxBoots = 1
INVARIANTS OneShot
