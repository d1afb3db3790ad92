SPECIFICATION FairSpec
CONSTANTS
  None = None
  Window = 2
  Procs = {"p", "q", "r"}
  Setups <- MCSetups
  JupiterRetries = 2
  AdapterRetries = 1
  Ttl = 2
  Cooldown = 2
  QuoteConcurrency = 1
  HttpBurst = 2
  RpcConcurrency = 1
  HashTtl = 2
INVARIANTS AnswersTheIntent NobodyQueuesForNothing
PROPERTIES CacheIsRecent NoBetterOfferLost SparesUpstream AllAreServed
