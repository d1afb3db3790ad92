----------------------------- MODULE PolicyGates -----------------------------
(***************************************************************************)
(* PolicyEngine.decide (packages/policy/src/engine.ts): the gates between  *)
(* a tool that broadcasts and the chain, as a function of a configuration  *)
(* c and a context x.  They are tried in a fixed order and the first that  *)
(* applies answers.  block stops the caller, confirm asks the user, warn   *)
(* and allow let it through.                                               *)
(***************************************************************************)
EXTENDS PolicyRules

CONSTANT None   \* an optional field that is not there

-----------------------------------------------------------------------------
(* The gates.  An allow-list without entries allows everything; an optional *)
(* limit that is None, or not positive, is off.                             *)

Lists(list, x) == list = {} \/ x \in list

NetworkBlocks(c, x) == x.network = "mainnet" /\ ~c.enabled

SimulationMissing(c, x) ==
  x.network = "mainnet" /\ c.requireSimulation /\ x.broadcast /\ ~x.simulationOk

ActionBlocks(c, x) == ~Lists(c.actions, x.action)

\* Mutant: unknown programs pass as no programs.
ProgramBlocksKnown(c, x) ==
  /\ x.chain = "solana" /\ c.programs # {}
  /\ x.programs # None /\ ~(x.programs \subseteq c.programs)

\* Programs that could not be determined are None.
ProgramBlocks(c, x) ==
  /\ x.chain = "solana" /\ c.programs # {}
  /\ x.programs = None \/ ~(x.programs \subseteq c.programs)

CooldownActive(c, x) ==
  /\ x.broadcast /\ c.cooldownSeconds # None /\ c.cooldownSeconds > 0
  /\ x.secondsSinceLast # None /\ x.secondsSinceLast >= 0
  /\ x.secondsSinceLast < c.cooldownSeconds

RateReached(c, x) ==
  /\ x.broadcast /\ c.maxTxPerMinute # None /\ c.maxTxPerMinute > 0
  /\ x.lastMinute # None /\ x.lastMinute >= c.maxTxPerMinute

\* Mutant: the limit in dollars is looked at only where there is none in SOL.
AmountLargeEither(c, x) ==
  IF c.maxSingleSol # None THEN x.amountSol # None /\ x.amountSol > c.maxSingleSol
  ELSE x.amountUsd # None /\ x.amountUsd > c.maxSingleUsd

AmountLarge(c, x) ==
  \/ x.amountSol # None /\ c.maxSingleSol # None /\ x.amountSol > c.maxSingleSol
  \/ x.amountUsd # None /\ x.amountUsd > c.maxSingleUsd

SimulatedSlippageMissing(c, x) ==
  /\ c.requireSimulatedSlippage /\ x.chain = "solana" /\ x.network = "mainnet"
  /\ x.broadcast /\ x.action = "swap" /\ x.simulatedSlippage = None

\* The simulated slippage, where there is one, replaces the requested one.
SlippageHigh(c, x) ==
  LET slippage == IF x.simulatedSlippage # None THEN x.simulatedSlippage ELSE x.slippage
  IN slippage # None /\ slippage > c.maxSlippage

\* The gates that stop a broadcast whatever its size: 1 to 5 of the code.
HardGate(c, x) ==
  \/ NetworkBlocks(c, x)
  \/ SimulationMissing(c, x)
  \/ ActionBlocks(c, x)
  \/ ProgramBlocks(c, x)
  \/ CooldownActive(c, x)
  \/ RateReached(c, x)

\* The context as the rules see it.
Optional(n) == IF n = None THEN Undefined ELSE Num(n)
Environment(x) ==
  [p \in {"amountUsd", "simulationOk", "liquidity"} |->
     CASE p = "amountUsd"    -> Optional(x.amountUsd)
       [] p = "simulationOk" -> Bool(x.simulationOk)
       [] p = "liquidity"    -> Optional(x.liquidity)]

\* Mutant: the limits on the amount come first.
DecideAmountFirst(c, x) ==
  IF AmountLarge(c, x) THEN "confirm"
  ELSE IF HardGate(c, x) \/ SimulatedSlippageMissing(c, x) THEN "block"
  ELSE IF SlippageHigh(c, x) THEN "confirm"
  ELSE EvaluateRules(c.rules, Environment(x))

Decide(c, x) ==
  IF HardGate(c, x) THEN "block"
  ELSE IF AmountLarge(c, x) THEN "confirm"
  ELSE IF SimulatedSlippageMissing(c, x) THEN "block"
  ELSE IF SlippageHigh(c, x) THEN "confirm"
  ELSE EvaluateRules(c.rules, Environment(x))

Permits(answer) == answer \in {"allow", "warn"}
=============================================================================
