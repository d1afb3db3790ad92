SPECIFICATION Spec
CONSTANTS
  None = None
  Leaves <- MCLeaves  Depth = 2  Huge <- MCHuge
  Contexts <- MCContexts  Loosest <- MCLoosest  Settings <- MCSettings  MaxGates = 2
INVARIANTS ConfirmWaives RulesMeanWhatTheySay
PROPERTIES StricterNeverPermits UnknownNeverHelps
CHECK_DEADLOCK FALSE
