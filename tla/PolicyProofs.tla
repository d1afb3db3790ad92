----------------------------- MODULE PolicyProofs -----------------------------
(***************************************************************************)
(* For every policy and every context of PolicyEngine.  The gates are proved *)
(* about first, and nothing there depends on what a condition means; then    *)
(* the parser of conditions, for leaves of any kind and any depth.           *)
(***************************************************************************)
EXTENDS PolicyEngine, WellFoundedInduction, TLAPS

-----------------------------------------------------------------------------
(* Types.                                                                    *)

TypesOK == IsConfig(config) /\ IsContext(ctx)

LEMMA TypesStart == Init => TypesOK
  BY PolicyAssumption DEF Init, TypesOK

LEMMA TightenKeepsTypes ==
  ASSUME TypesOK, NEW f \in DOMAIN Settings, NEW v \in Settings[f], Tighten(f, v)
  PROVE  TypesOK'
<1>1. IsConfig([Loosest EXCEPT ![f] = v]) /\ IsConfig(Loosest) /\ f \in Fields
  BY PolicyAssumption
<1>2. config' = [config EXCEPT ![f] = v] /\ ctx' = ctx
  BY DEF Tighten
<1>3. IsConfig(config)
  BY DEF TypesOK
<1>4. config' = [g \in Fields |-> IF g = f THEN v ELSE config[g]]
  BY <1>1, <1>2, <1>3 DEF IsConfig
<1>5. \A g \in Fields : config'[g] = config[g] \/ config'[g] = [Loosest EXCEPT ![f] = v][g]
  BY <1>1, <1>4 DEF IsConfig
<1>6. /\ Limits \subseteq Fields
      /\ "maxSingleUsd" \in Fields /\ "maxSlippage" \in Fields /\ "rules" \in Fields
  BY DEF Fields, Limits
<1>7. config' = [g \in Fields |-> config'[g]]
  BY <1>4
<1>8. \A g \in Limits : config'[g] \in Limit
  BY <1>1, <1>3, <1>5, <1>6 DEF IsConfig
<1>9. IsConfig(config')
  BY <1>1, <1>3, <1>5, <1>6, <1>7, <1>8 DEF IsConfig
<1>. QED
  BY <1>2, <1>9 DEF TypesOK

LEMMA ForgetKeepsTypes ==
  ASSUME TypesOK, NEW f \in {"simulationOk", "programs", "simulatedSlippage"}, Forget(f)
  PROVE  TypesOK'
<1>1. ctx' = [ctx EXCEPT ![f] = Unknown(f)] /\ config' = config
  BY DEF Forget
<1>2. IsContext(ctx)
  BY DEF TypesOK
<1>3. f = "simulatedSlippage" => Unknown(f) = None
  BY DEF Unknown
<1>4. ctx' = [g \in DOMAIN ctx |-> IF g = f THEN Unknown(f) ELSE ctx[g]]
  BY <1>1, <1>2 DEF IsContext
<1>5. Facts \cup Amounts \subseteq DOMAIN ctx
  BY <1>2 DEF IsContext
<1>6. \A g \in Amounts : ctx'[g] = ctx[g] \/ ctx'[g] = None
  BY <1>3, <1>4, <1>5 DEF Amounts
<1>7. {"amountUsd", "slippage", "simulatedSlippage"} \subseteq Amounts
  BY DEF Amounts
<1>8. ctx' = [g \in DOMAIN ctx' |-> ctx'[g]] /\ Facts \cup Amounts \subseteq DOMAIN ctx'
  BY <1>4, <1>5
<1>9. IsContext(ctx')
  <2>1. ctx'.simulationOk \in BOOLEAN
    BY <1>2, <1>4, <1>5 DEF IsContext, Facts, Unknown
  <2>. QED
    BY <1>2, <1>6, <1>7, <1>8, <2>1 DEF IsContext, Limit
<1>. QED
  BY <1>1, <1>9 DEF TypesOK

LEMMA TypesTheorem == Spec => []TypesOK
<1>1. TypesOK /\ [Next]_vars => TypesOK'
  <2>. SUFFICES ASSUME TypesOK, [Next]_vars PROVE TypesOK'
    OBVIOUS
  <2>1. CASE UNCHANGED vars
    BY <2>1 DEF vars, TypesOK
  <2>. QED
    BY <2>1, TightenKeepsTypes, ForgetKeepsTypes DEF Next
<1>. QED
  BY <1>1, TypesStart, PTL DEF Spec

-----------------------------------------------------------------------------
(* What the user's yes waives.                                               *)

LEMMA NoRules == \A env : EvaluateRules(<<>>, env) = "allow"
  BY DEF EvaluateRules, Firing

LEMMA UnlimitedFields ==
  ASSUME NEW c, IsConfig(c)
  PROVE  LET u == Unlimited(c)
             n == Undemanding(c)
         IN  /\ \A f \in {"enabled", "requireSimulation", "actions", "programs",
                          "cooldownSeconds", "maxTxPerMinute"} : u[f] = c[f] /\ n[f] = c[f]
             /\ u.maxSingleSol = None /\ u.maxSingleUsd = Huge /\ u.maxSlippage = Huge
             /\ n.maxSingleSol = None /\ n.maxSingleUsd = Huge /\ n.maxSlippage = Huge
             /\ u.rules = <<>> /\ n.rules = <<>>
             /\ u.requireSimulatedSlippage = c.requireSimulatedSlippage
             /\ n.requireSimulatedSlippage = FALSE
  BY SMTT(30) DEF Undemanding, Unlimited, IsConfig, Fields, Limits

\* A policy u that has the gates of c up to the rate, and whose limits nothing exceeds,
\* allows what those gates let through, unless it demands a simulated slippage.
LEMMA WithinLimits ==
  ASSUME NEW c, NEW u, NEW x, IsContext(x),
         ~HardGate(c, x), ~SimulatedSlippageMissing(u, x),
         \A f \in {"enabled", "requireSimulation", "actions", "programs",
                   "cooldownSeconds", "maxTxPerMinute"} : u[f] = c[f],
         u.maxSingleSol = None, u.maxSingleUsd = Huge, u.maxSlippage = Huge, u.rules = <<>>
  PROVE  Decide(u, x) = "allow"
<1>1. ~HardGate(u, x)
  BY DEF HardGate, NetworkBlocks, SimulationMissing, ActionBlocks, ProgramBlocks,
         CooldownActive, RateReached
<1>2. Huge \in Int /\ \A f \in {"amountUsd", "slippage", "simulatedSlippage"} :
        x[f] # None => x[f] \in Int /\ x[f] <= Huge
  BY PolicyAssumption DEF IsContext, Amounts, Limit
<1>3. ~AmountLarge(u, x) /\ ~SlippageHigh(u, x)
  BY <1>2 DEF AmountLarge, SlippageHigh
<1>. QED
  BY <1>1, <1>3, NoRules DEF Decide

\* A yes waives neither the gates on the network, the simulation, the allow-lists and the
\* rate, nor, unless an amount was asked about, the demand for simulated slippage; a
\* warning waives no limit (engine.ts, the order of the gates).
THEOREM ConfirmTheorem == Spec => []ConfirmWaives
<1>1. TypesOK => ConfirmWaives
  <2>. SUFFICES ASSUME TypesOK PROVE ConfirmWaives
    OBVIOUS
  <2>. DEFINE u == Unlimited(config)
              n == Undemanding(config)
              r == [config EXCEPT !.rules = <<>>]
  <2>1. IsConfig(config) /\ IsContext(ctx)
    BY DEF TypesOK
  <2>2. ASSUME Answer \in {"confirm", "warn"} PROVE Decide(n, ctx) = "allow"
    <3>1. ~HardGate(config, ctx)
      BY <2>2 DEF Answer, Decide
    <3>2. ~SimulatedSlippageMissing(n, ctx)
      BY <2>1, UnlimitedFields DEF SimulatedSlippageMissing
    <3>. HIDE DEF n
    <3>. QED
      BY <2>1, <3>1, <3>2, UnlimitedFields, WithinLimits DEF n
  <2>3. ASSUME Answer \in {"confirm", "warn"}, ~AmountLarge(config, ctx)
        PROVE  Decide(u, ctx) = "allow"
    <3>1. ~HardGate(config, ctx) /\ ~SimulatedSlippageMissing(config, ctx)
      BY <2>3 DEF Answer, Decide
    <3>2. ~SimulatedSlippageMissing(u, ctx)
      BY <2>1, <3>1, UnlimitedFields DEF SimulatedSlippageMissing
    <3>. HIDE DEF u
    <3>. QED
      BY <2>1, <3>1, <3>2, UnlimitedFields, WithinLimits DEF u
  <2>4. ASSUME Answer = "warn" PROVE Decide(r, ctx) = "allow"
    <3>1. /\ ~HardGate(config, ctx) /\ ~AmountLarge(config, ctx)
          /\ ~SimulatedSlippageMissing(config, ctx) /\ ~SlippageHigh(config, ctx)
      BY <2>4 DEF Answer, Decide
    <3>2. r.rules = <<>> /\ \A f \in Fields \ {"rules"} : r[f] = config[f]
      BY <2>1 DEF IsConfig, Fields
    <3>. HIDE DEF r
    <3>3. /\ ~HardGate(r, ctx) /\ ~AmountLarge(r, ctx)
          /\ ~SimulatedSlippageMissing(r, ctx) /\ ~SlippageHigh(r, ctx)
      BY <3>1, <3>2 DEF HardGate, NetworkBlocks, SimulationMissing, ActionBlocks,
         ProgramBlocks, CooldownActive, RateReached, AmountLarge, SimulatedSlippageMissing,
         SlippageHigh, Fields, Limits
    <3>. QED
      BY <3>2, <3>3, NoRules DEF Decide
  <2>. QED
    BY <2>2, <2>3, <2>4 DEF ConfirmWaives
<1>. QED
  BY <1>1, TypesTheorem, PTL

-----------------------------------------------------------------------------
(* A look-up that fails.                                                     *)

\* What a policy demands to know and the caller could not find out is never let through.
THEOREM UnknownTheorem == Spec => UnknownNeverHelps
<1>. DEFINE Step == \A f \in {"simulationOk", "programs", "simulatedSlippage"} :
                      ctx'[f] # ctx[f] /\ Demands(config, ctx, f) => ~Permits(Answer')
<1>1. ASSUME TypesOK, NEW f \in {"simulationOk", "programs", "simulatedSlippage"}, Forget(f)
      PROVE  Step
  <2>. SUFFICES ASSUME NEW g \in {"simulationOk", "programs", "simulatedSlippage"},
                       ctx'[g] # ctx[g], Demands(config, ctx, g)
                PROVE  ~Permits(Answer')
    OBVIOUS
  <2>1. ctx' = [ctx EXCEPT ![f] = Unknown(f)] /\ config' = config
    BY <1>1 DEF Forget
  <2>2. /\ ctx = [h \in DOMAIN ctx |-> ctx[h]]
        /\ Facts \cup Amounts \subseteq DOMAIN ctx
    BY <1>1 DEF TypesOK, IsContext
  <2>3. ctx' = [h \in DOMAIN ctx |-> IF h = f THEN Unknown(f) ELSE ctx[h]]
    BY <2>1, <2>2
  <2>4. g = f /\ ctx'[g] = Unknown(g)
    BY <2>2, <2>3 DEF Facts, Amounts
  <2>5. \A h \in Facts \cup Amounts : h # g => ctx'[h] = ctx[h]
    BY <2>2, <2>3, <2>4
  <2>6. CASE g = "simulationOk"
    <3>1. SimulationMissing(config', ctx')
      BY <2>1, <2>4, <2>5, <2>6 DEF Demands, SimulationMissing, Unknown, Facts
    <3>. QED
      BY <3>1 DEF HardGate, Answer, Decide, Permits
  <2>7. CASE g = "programs"
    <3>1. ProgramBlocks(config', ctx')
      BY <2>1, <2>4, <2>5, <2>7 DEF Demands, ProgramBlocks, Unknown, Facts
    <3>. QED
      BY <3>1 DEF HardGate, Answer, Decide, Permits
  <2>8. CASE g = "simulatedSlippage"
    <3>1. SimulatedSlippageMissing(config', ctx')
      BY <2>1, <2>4, <2>5, <2>8 DEF Demands, SimulatedSlippageMissing, Unknown, Facts
    <3>. QED
      BY <3>1 DEF Answer, Decide, Permits
  <2>. QED
    BY <2>6, <2>7, <2>8
<1>2. TypesOK /\ Next => Step
  <2>. SUFFICES ASSUME TypesOK, Next PROVE Step
    OBVIOUS
  <2>1. ASSUME NEW f \in DOMAIN Settings, NEW v \in Settings[f], Tighten(f, v)
        PROVE  Step
    BY <2>1 DEF Tighten
  <2>. QED
    BY <1>1, <2>1 DEF Next
<1>. HIDE DEF Step
<1>3. TypesOK /\ [Next]_vars => [Step]_vars
  BY <1>2
<1>4. Spec => [][Step]_vars
  BY <1>3, TypesTheorem, PTL DEF Spec
<1>. QED
  BY <1>4 DEF UnknownNeverHelps, Step

-----------------------------------------------------------------------------
(* A stricter policy.                                                        *)

\* A nonempty set of places in a sequence has a first.
LEMMA FirstPlace ==
  ASSUME NEW S \in SUBSET Nat, S # {}
  PROVE  \E i \in S : \A j \in S : i <= j
<1>1. PICK i \in S : \A j \in S : ~(<<j, i>> \in OpToRel(<, Nat))
  BY NatLessThanWellFounded, WFMin
<1>2. \A j \in S : ~(j < i)
  BY <1>1 DEF OpToRel
<1>. QED
  BY <1>2

\* A rule behind the others is asked only when none of them fires.
LEMMA RuleBehind ==
  ASSUME NEW old, NEW new, NEW env,
         Len(old) \in Nat, DOMAIN old = 1 .. Len(old),
         Len(new) = Len(old) + 1, DOMAIN new = 1 .. Len(new),
         \A i \in DOMAIN old : new[i] = old[i],
         Permits(EvaluateRules(new, env))
  PROVE  Permits(EvaluateRules(old, env))
<1>. DEFINE F == Firing(old, env)
            G == Firing(new, env)
<1>1. CASE F = {}
  BY <1>1 DEF EvaluateRules, Permits
<1>2. CASE F # {}
  <2>1. F \in SUBSET Nat /\ F \subseteq G /\ F \subseteq DOMAIN old
    BY DEF Firing
  <2>2. \A j \in G : j \in F \/ j = Len(new)
    BY DEF Firing
  <2>3. PICK i \in F : \A j \in F : i <= j
    BY <1>2, <2>1, FirstPlace
  <2>4. \A j \in G : i <= j
    BY <2>1, <2>2, <2>3
  <2>5. (CHOOSE k \in F : \A j \in F : k <= j) = i
    BY <2>1, <2>3
  <2>6. (CHOOSE k \in G : \A j \in G : k <= j) = i
    <3>1. G \in SUBSET Nat /\ i \in G
      BY <2>1, <2>3 DEF Firing
    <3>. QED
      BY <2>4, <3>1
  <2>7. F # {} /\ G # {}
    BY <1>2, <2>1
  <2>. QED
    BY <2>1, <2>3, <2>5, <2>6, <2>7 DEF EvaluateRules
<1>. QED
  BY <1>1, <1>2

\* Whatever field is made stricter, a gate that stopped or asked still does.
LEMMA GatesStayClosed ==
  ASSUME TypesOK, NEW f \in DOMAIN Settings, NEW v \in Settings[f], Tighten(f, v)
  PROVE  /\ HardGate(config, ctx) => HardGate(config', ctx)
         /\ AmountLarge(config, ctx) => AmountLarge(config', ctx)
         /\ SimulatedSlippageMissing(config, ctx) => SimulatedSlippageMissing(config', ctx)
         /\ SlippageHigh(config, ctx) => SlippageHigh(config', ctx)
<1>. DEFINE c == config
            d == config'
<1>1. /\ c = [g \in Fields |-> c[g]] /\ d = [g \in Fields |-> d[g]]
      /\ \A g \in Limits : c[g] \in Limit /\ d[g] \in Limit
      /\ c.maxSingleUsd \in Int /\ c.maxSlippage \in Int
      /\ d.maxSingleUsd \in Int /\ d.maxSlippage \in Int
  BY TightenKeepsTypes DEF TypesOK, IsConfig
<1>2. f \in Fields /\ d = [c EXCEPT ![f] = v] /\ StricterField(f, c[f], v)
  BY PolicyAssumption DEF Tighten
<1>3. d[f] = v /\ \A g \in Fields : g # f => d[g] = c[g]
  BY <1>1, <1>2
<1>4. \A g \in Amounts : ctx[g] \in Limit
  BY DEF TypesOK, IsContext
<1>5. \A g \in {"enabled", "requireSimulation", "requireSimulatedSlippage"} :
        g \in Fields /\ (d[g] # c[g] => f = g)
  BY <1>3 DEF Fields
<1>6. /\ d.enabled => c.enabled
      /\ c.requireSimulation => d.requireSimulation
      /\ c.requireSimulatedSlippage => d.requireSimulatedSlippage
  <2>1. f = "enabled" => c.enabled /\ ~d.enabled
    BY <1>2, <1>3 DEF StricterField
  <2>2. f = "requireSimulation" => ~c.requireSimulation /\ d.requireSimulation
    BY <1>2, <1>3 DEF StricterField
  <2>3. f = "requireSimulatedSlippage" => ~c.requireSimulatedSlippage /\ d.requireSimulatedSlippage
    BY <1>2, <1>3 DEF StricterField
  <2>. QED
    BY <1>5, <2>1, <2>2, <2>3
<1>7. \A g \in {"actions", "programs"} : d[g] = c[g] \/ Shrinks(c[g], d[g])
  BY <1>2, <1>3 DEF StricterField, Fields
<1>8. d.cooldownSeconds = c.cooldownSeconds \/ Lengthens(c.cooldownSeconds, d.cooldownSeconds)
  BY <1>2, <1>3 DEF StricterField, Fields, Limits
<1>9. \A g \in {"maxTxPerMinute", "maxSingleSol", "maxSingleUsd", "maxSlippage"} :
        d[g] = c[g] \/ Lowers(c[g], d[g])
  BY <1>2, <1>3 DEF StricterField, Fields, Limits
<1>10. HardGate(c, ctx) => HardGate(d, ctx)
  <2>1. NetworkBlocks(c, ctx) => NetworkBlocks(d, ctx)
    BY <1>6 DEF NetworkBlocks
  <2>2. SimulationMissing(c, ctx) => SimulationMissing(d, ctx)
    BY <1>6 DEF SimulationMissing
  <2>3. ActionBlocks(c, ctx) => ActionBlocks(d, ctx)
    BY <1>7 DEF ActionBlocks, Lists, Shrinks
  <2>4. ProgramBlocks(c, ctx) => ProgramBlocks(d, ctx)
    BY <1>7 DEF ProgramBlocks, Shrinks
  <2>5. CooldownActive(c, ctx) => CooldownActive(d, ctx)
    BY <1>1, <1>4, <1>8 DEF CooldownActive, Lengthens, Limit, Limits, Amounts
  <2>6. RateReached(c, ctx) => RateReached(d, ctx)
    BY <1>1, <1>4, <1>9 DEF RateReached, Lowers, Limit, Limits, Amounts
  <2>. QED
    BY <2>1, <2>2, <2>3, <2>4, <2>5, <2>6 DEF HardGate
<1>11. AmountLarge(c, ctx) => AmountLarge(d, ctx)
  <2>1. ctx.amountSol \in Limit /\ ctx.amountUsd \in Limit
    BY <1>4 DEF Amounts
  <2>2. c.maxSingleSol \in Limit /\ d.maxSingleSol \in Limit
    BY <1>1 DEF Limits
  <2>3. d.maxSingleSol = c.maxSingleSol \/ Lowers(c.maxSingleSol, d.maxSingleSol)
    BY <1>9
  <2>4. d.maxSingleUsd = c.maxSingleUsd \/ Lowers(c.maxSingleUsd, d.maxSingleUsd)
    BY <1>9
  <2>5. ASSUME ctx.amountSol # None, c.maxSingleSol # None, ctx.amountSol > c.maxSingleSol
        PROVE  d.maxSingleSol # None /\ ctx.amountSol > d.maxSingleSol
    BY <2>1, <2>2, <2>3, <2>5 DEF Lowers, Limit
  <2>6. c.maxSingleUsd # None => d.maxSingleUsd <= c.maxSingleUsd
    BY <1>1, <2>4 DEF Lowers
  <2>7. ASSUME ctx.amountUsd # None, ctx.amountUsd > c.maxSingleUsd
        PROVE  ctx.amountUsd > d.maxSingleUsd
    <3>1. c.maxSingleUsd # None
      BY PolicyAssumption, <1>1
    <3>2. ctx.amountUsd \in Int
      BY <2>1, <2>7 DEF Limit
    <3>. QED
      BY <1>1, <2>6, <2>7, <3>1, <3>2
  <2>. QED
    BY <2>5, <2>7 DEF AmountLarge
<1>12. SimulatedSlippageMissing(c, ctx) => SimulatedSlippageMissing(d, ctx)
  BY <1>6 DEF SimulatedSlippageMissing
<1>13. SlippageHigh(c, ctx) => SlippageHigh(d, ctx)
  <2>1. ctx.slippage \in Limit /\ ctx.simulatedSlippage \in Limit
    BY <1>4 DEF Amounts
  <2>2. d.maxSlippage = c.maxSlippage \/ Lowers(c.maxSlippage, d.maxSlippage)
    BY <1>9
  <2>3. d.maxSlippage <= c.maxSlippage
    BY PolicyAssumption, <1>1, <2>2 DEF Lowers
  <2>. QED
    BY <1>1, <2>1, <2>3 DEF SlippageHigh, Limit
<1>. QED
  BY <1>10, <1>11, <1>12, <1>13

LEMMA RulesStayStrict ==
  ASSUME TypesOK, NEW f \in DOMAIN Settings, NEW v \in Settings[f], Tighten(f, v), NEW env,
         Permits(EvaluateRules(config'.rules, env))
  PROVE  Permits(EvaluateRules(config.rules, env))
<1>1. IsConfig(config) /\ IsConfig(config')
  BY TightenKeepsTypes DEF TypesOK
<1>2. f \in Fields /\ config' = [config EXCEPT ![f] = v] /\ StricterField(f, config[f], v)
  BY PolicyAssumption DEF Tighten
<1>3. "rules" \in Fields /\ config = [g \in Fields |-> config[g]]
  BY <1>1 DEF IsConfig, Fields
<1>4. CASE f = "rules"
  <2>1. config'.rules = v /\ config.rules = config[f]
    BY <1>2, <1>3, <1>4
  <2>2. Len(v) = Len(config.rules) + 1 /\ \A i \in DOMAIN config.rules : v[i] = config.rules[i]
    BY <1>2, <1>4, <2>1 DEF StricterField
  <2>. QED
    BY <1>1, <2>1, <2>2, RuleBehind DEF IsConfig
<1>5. CASE f # "rules"
  BY <1>2, <1>3, <1>5
<1>. QED
  BY <1>4, <1>5

\* Tightening one field of a policy never lets through what the policy stopped or asked
\* about: the order in which decide tries its gates hides none of them.
THEOREM StricterTheorem == Spec => StricterNeverPermits
<1>. DEFINE Step == config' # config => (Permits(Answer') => Permits(Answer))
<1>1. ASSUME TypesOK, NEW f \in DOMAIN Settings, NEW v \in Settings[f], Tighten(f, v),
             Permits(Answer')
      PROVE  Permits(Answer)
  <2>1. ctx' = ctx
    BY <1>1 DEF Tighten
  <2>2. /\ ~HardGate(config', ctx) /\ ~AmountLarge(config', ctx)
        /\ ~SimulatedSlippageMissing(config', ctx) /\ ~SlippageHigh(config', ctx)
        /\ Permits(EvaluateRules(config'.rules, Environment(ctx)))
    BY <1>1, <2>1 DEF Answer, Decide, Permits
  <2>3. Permits(EvaluateRules(config.rules, Environment(ctx)))
    BY <1>1, <2>2, RulesStayStrict
  <2>. QED
    BY <1>1, <2>2, <2>3, GatesStayClosed DEF Answer, Decide
<1>2. TypesOK /\ Next => Step
  <2>. SUFFICES ASSUME TypesOK, Next PROVE Step
    OBVIOUS
  <2>1. ASSUME NEW f, Forget(f) PROVE Step
    BY <2>1 DEF Forget
  <2>. QED
    BY <1>1, <2>1 DEF Next
<1>. HIDE DEF Step
<1>3. TypesOK /\ [Next]_vars => [Step]_vars
  BY <1>2
<1>4. Spec => [][Step]_vars
  BY <1>3, TypesTheorem, PTL DEF Spec
<1>. QED
  BY <1>4 DEF StricterNeverPermits, Step

-----------------------------------------------------------------------------
(* What each method does with the results of those it calls.                 *)

LEMMA ResultFields == \A v, p : Result(v, p).val = v /\ Result(v, p).pos = p
  BY DEF Result

LEMMA OrText ==
  ASSUME NEW tokens, NEW env, NEW P, NEW p, NEW v, NEW j, P[<<"andExpr", p>>] = Result(v, j)
  PROVE  Method(tokens, env, P, "orExpr", p) = OrElse(Result(v, j), P[<<"orRest", j>>])
  BY ResultFields DEF Method

LEMMA AndText ==
  ASSUME NEW tokens, NEW env, NEW P, NEW p, NEW v, NEW j, P[<<"notExpr", p>>] = Result(v, j)
  PROVE  Method(tokens, env, P, "andExpr", p) = AndAlso(Result(v, j), P[<<"andRest", j>>])
  BY ResultFields DEF Method

LEMMA ComparesText ==
  ASSUME NEW tokens, NEW env, NEW P, NEW p, Peek(tokens, p).type # "not"
  PROVE  Method(tokens, env, P, "notExpr", p) = P[<<"comparison", p>>]
  BY DEF Method

LEMMA NotText ==
  ASSUME NEW tokens, NEW env, NEW P, NEW p, NEW v \in BOOLEAN, NEW j, NEW next, next = p + 1,
         Peek(tokens, p).type = "not", P[<<"comparison", next>>] = Result(v, j),
         NEW k \in BOOLEAN, k <=> ~v
  PROVE  Method(tokens, env, P, "notExpr", p) = Result(k, j)
  BY ResultFields DEF Method

LEMMA OrEnds ==
  ASSUME NEW tokens, NEW env, NEW P, NEW p, NEW no \in BOOLEAN, ~no, Peek(tokens, p).type # "or"
  PROVE  Method(tokens, env, P, "orRest", p) = Result(no, p)
  BY DEF Method

LEMMA AndEnds ==
  ASSUME NEW tokens, NEW env, NEW P, NEW p, NEW yes \in BOOLEAN, yes, Peek(tokens, p).type # "and"
  PROVE  Method(tokens, env, P, "andRest", p) = Result(yes, p)
  BY DEF Method

LEMMA FlagText ==
  ASSUME NEW tokens, NEW env, NEW P, NEW p, NEW v, NEW j,
         P[<<"primary", p>>] = Result(v, j), Peek(tokens, j).type # "op"
  PROVE  Method(tokens, env, P, "comparison", p) = Result(Truthy(v), j)
  BY ResultFields DEF Method

\* A rest that goes on reads what an expression does, one token further.
LEMMA RestTexts ==
  ASSUME NEW tokens, NEW env, NEW P, NEW p
  PROVE  /\ Peek(tokens, p).type = "or" =>
              Method(tokens, env, P, "orRest", p) = Method(tokens, env, P, "orExpr", p + 1)
         /\ Peek(tokens, p).type = "and" =>
              Method(tokens, env, P, "andRest", p) = Method(tokens, env, P, "andExpr", p + 1)
  BY DEF Method

LEMMA ComparisonText ==
  ASSUME NEW tokens, NEW env, NEW P, NEW p, NEW v, NEW j, NEW w, NEW i,
         P[<<"primary", p>>] = Result(v, j), Peek(tokens, j).type = "op",
         P[<<"primary", j + 1>>] = Result(w, i)
  PROVE  Method(tokens, env, P, "comparison", p) =
           Result(Compare(v, Peek(tokens, j).value, w), i)
<1>1. Result(v, j).val = v /\ Result(v, j).pos = j /\ Result(w, i).val = w /\ Result(w, i).pos = i
  BY ResultFields
<1>. QED
  BY <1>1 DEF Method

LEMMA ParenText ==
  ASSUME NEW tokens, NEW env, NEW P, NEW p, NEW v \in BOOLEAN, NEW j, NEW b, b = Bool(v),
         Peek(tokens, p).type = "lparen", NEW next, next = p + 1, P[<<"orExpr", next>>] = Result(v, j),
         Peek(tokens, j).type = "rparen"
  PROVE  Method(tokens, env, P, "primary", p) = Result(b, j + 1)
  BY ResultFields DEF Method

LEMMA PrimaryTexts ==
  ASSUME NEW tokens, NEW env, NEW P, NEW p
  PROVE  /\ Peek(tokens, p).type = "literal" =>
              Method(tokens, env, P, "primary", p) = Result(Peek(tokens, p).value, p + 1)
         /\ Peek(tokens, p).type = "ident" =>
              Method(tokens, env, P, "primary", p) =
                Result(GetByPath(env, Peek(tokens, p).value), p + 1)
         /\ Peek(tokens, p).type = "eof" =>
              Method(tokens, env, P, "primary", p) = Result(Undefined, p + 1)
  BY DEF Method

-----------------------------------------------------------------------------
(* The parser.  It comes to an end because every method but the two that read *)
(* a rest reads a token, so its methods can be defined from the end of the    *)
(* tokens backwards.                                                          *)

Invocations == Nonterminals \X Nat
Rests == {"orRest", "andRest"}

\* Which method calls which at the position where it is called itself.
Leads == {<<"orExpr", "andExpr">>, <<"andExpr", "notExpr">>, <<"notExpr", "comparison">>,
          <<"comparison", "primary">>}

\* A result of n at p moves on.
Onwards(n, p, r) == r.pos \in Nat /\ r.pos >= p /\ (n \notin Rests => r.pos > p)

LEMMA MethodMoves ==
  ASSUME NEW tokens, NEW env, NEW f, NEW p \in Nat, NEW n \in Nonterminals,
         \A m \in Nonterminals, q \in Nat : q > p => Onwards(m, q, f[<<m, q>>]),
         \A m \in Nonterminals : <<n, m>> \in Leads => Onwards(m, p, f[<<m, p>>])
  PROVE  Onwards(n, p, Method(tokens, env, f, n, p))
<1>1. CASE n = "orExpr"
  BY <1>1 DEF Leads, Onwards, Method, OrElse, Result, Rests, Nonterminals
<1>2. CASE n = "orRest"
  BY <1>2 DEF Leads, Onwards, Method, OrElse, Result, Rests, Nonterminals
<1>3. CASE n = "andExpr"
  BY <1>3 DEF Leads, Onwards, Method, AndAlso, Result, Rests, Nonterminals
<1>4. CASE n = "andRest"
  BY <1>4 DEF Leads, Onwards, Method, AndAlso, Result, Rests, Nonterminals
<1>5. CASE n = "notExpr"
  BY <1>5 DEF Leads, Onwards, Method, Result, Rests, Nonterminals
<1>6. CASE n = "comparison"
  BY <1>6 DEF Leads, Onwards, Method, Result, Rests, Nonterminals
<1>7. CASE n = "primary"
  BY <1>7 DEF Leads, Onwards, Method, Result, Rests, Nonterminals
<1>. QED
  BY <1>1, <1>2, <1>3, <1>4, <1>5, <1>6, <1>7 DEF Nonterminals

LEMMA MethodLooksAhead ==
  ASSUME NEW tokens, NEW env, NEW f, NEW g, NEW p \in Nat, NEW n \in Nonterminals,
         \A m \in Nonterminals, q \in Nat : q > p => Onwards(m, q, f[<<m, q>>]) /\ g[<<m, q>>] = f[<<m, q>>],
         \A m \in Nonterminals : <<n, m>> \in Leads => Onwards(m, p, f[<<m, p>>]) /\ g[<<m, p>>] = f[<<m, p>>]
  PROVE  Method(tokens, env, g, n, p) = Method(tokens, env, f, n, p)
<1>1. CASE n = "orExpr"
  BY <1>1 DEF Leads, Onwards, Method, Rests, Nonterminals
<1>2. CASE n = "orRest"
  <2>. DEFINE a == f[<<"andExpr", p + 1>>]
  <2>1. g[<<"andExpr", p + 1>>] = a /\ a.pos \in Nat /\ a.pos > p
    BY DEF Onwards, Rests, Nonterminals
  <2>2. g[<<"orRest", a.pos>>] = f[<<"orRest", a.pos>>]
    BY <2>1 DEF Nonterminals
  <2>. HIDE DEF a
  <2>. QED
    BY <1>2, <2>1, <2>2 DEF Method, a
<1>3. CASE n = "andExpr"
  BY <1>3 DEF Leads, Onwards, Method, Rests, Nonterminals
<1>4. CASE n = "andRest"
  <2>. DEFINE a == f[<<"notExpr", p + 1>>]
  <2>1. g[<<"notExpr", p + 1>>] = a /\ a.pos \in Nat /\ a.pos > p
    BY DEF Onwards, Rests, Nonterminals
  <2>2. g[<<"andRest", a.pos>>] = f[<<"andRest", a.pos>>]
    BY <2>1 DEF Nonterminals
  <2>. HIDE DEF a
  <2>. QED
    BY <1>4, <2>1, <2>2 DEF Method, a
<1>5. CASE n = "notExpr"
  BY <1>5 DEF Leads, Onwards, Method, Rests, Nonterminals
<1>6. CASE n = "comparison"
  BY <1>6 DEF Leads, Onwards, Method, Rests, Nonterminals
<1>7. CASE n = "primary"
  BY <1>7 DEF Leads, Onwards, Method, Rests, Nonterminals
<1>. QED
  BY <1>1, <1>2, <1>3, <1>4, <1>5, <1>6, <1>7 DEF Nonterminals


\* f has what the methods return behind position k and, at k, what those in ready return.
Tabulates(tokens, env, f, k, ready) ==
  /\ f = [c \in Invocations |-> f[c]]
  /\ \A n \in Nonterminals, q \in Nat :
       q > k \/ (q = k /\ n \in ready) =>
         Onwards(n, q, f[<<n, q>>]) /\ f[<<n, q>>] = Method(tokens, env, f, n, q)

LEMMA OneMore ==
  ASSUME NEW tokens, NEW env, NEW k \in Nat, NEW ready, NEW n \in Nonterminals \ ready,
         \A m \in ready \cup {n}, l \in Nonterminals : <<m, l>> \in Leads => l \in ready,
         \E f : Tabulates(tokens, env, f, k, ready)
  PROVE  \E f : Tabulates(tokens, env, f, k, ready \cup {n})
<1>1. PICK f : Tabulates(tokens, env, f, k, ready)
  OBVIOUS
<1>. DEFINE M(h, m, q) == Method(tokens, env, h, m, q)
            g == [c \in Invocations |-> IF c = <<n, k>> THEN M(f, n, k) ELSE f[c]]
<1>2. /\ g[<<n, k>>] = M(f, n, k)
      /\ \A m \in Nonterminals, q \in Nat : m # n \/ q # k => g[<<m, q>>] = f[<<m, q>>]
  BY DEF Invocations
<1>3. g = [c \in Invocations |-> g[c]]
  OBVIOUS
<1>. HIDE DEF g
<1>4. ASSUME NEW m \in Nonterminals, NEW q \in Nat, q > k \/ (q = k /\ m \in ready \cup {n})
      PROVE  Onwards(m, q, M(f, m, q)) /\ M(g, m, q) = M(f, m, q)
  <2>1. \A l \in Nonterminals, r \in Nat :
          r > q => Onwards(l, r, f[<<l, r>>]) /\ g[<<l, r>>] = f[<<l, r>>]
    BY <1>1, <1>2, <1>4 DEF Tabulates
  <2>2. \A l \in Nonterminals :
          <<m, l>> \in Leads => Onwards(l, q, f[<<l, q>>]) /\ g[<<l, q>>] = f[<<l, q>>]
    <3>. SUFFICES ASSUME NEW l \in Nonterminals, <<m, l>> \in Leads
                  PROVE  q > k \/ (q = k /\ l \in ready)
      BY <1>1, <1>2 DEF Tabulates
    <3>. QED
      BY <1>4
  <2>3. Onwards(m, q, M(f, m, q))
    BY <2>1, <2>2, MethodMoves
  <2>4. M(g, m, q) = M(f, m, q)
    BY <2>1, <2>2, MethodLooksAhead
  <2>. QED
    BY <2>3, <2>4
<1>5. ASSUME NEW m \in Nonterminals, NEW q \in Nat, q > k \/ (q = k /\ m \in ready \cup {n})
      PROVE  Onwards(m, q, g[<<m, q>>]) /\ g[<<m, q>>] = M(g, m, q)
  <2>1. g[<<m, q>>] = M(f, m, q)
    <3>1. CASE m = n /\ q = k
      BY <1>2, <3>1
    <3>2. CASE ~(m = n /\ q = k)
      BY <1>1, <1>2, <1>5, <3>2 DEF Tabulates
    <3>. QED
      BY <3>1, <3>2
  <2>. QED
    BY <1>4, <1>5, <2>1
<1>6. Tabulates(tokens, env, g, k, ready \cup {n})
  BY <1>3, <1>5 DEF Tabulates
<1>. QED
  BY <1>6

LEMMA OnePosition ==
  ASSUME NEW tokens, NEW env, NEW k \in Nat, \E f : Tabulates(tokens, env, f, k, {})
  PROVE  \E f : Tabulates(tokens, env, f, k, Nonterminals)
<1>. DEFINE T(ready) == \E f : Tabulates(tokens, env, f, k, ready)
<1>1. ASSUME NEW ready, NEW n \in Nonterminals \ ready, T(ready),
             \A m \in ready \cup {n}, l \in Nonterminals : <<m, l>> \in Leads => l \in ready
      PROVE  T(ready \cup {n})
  BY <1>1, OneMore
<1>. HIDE DEF T
<1>2. T({} \cup {"primary"})
  <2>1. "primary" \in Nonterminals \ {}
    BY DEF Nonterminals
  <2>2. \A m \in {} \cup {"primary"}, l \in Nonterminals : <<m, l>> \in Leads => l \in {}
    BY DEF Leads, Nonterminals
  <2>3. T({})
    BY DEF T
  <2>. QED
    BY <1>1, <2>1, <2>2, <2>3
<1>3. T({"primary"} \cup {"comparison"})
  <2>1. "comparison" \in Nonterminals \ {"primary"}
    BY DEF Nonterminals
  <2>2. \A m \in {"primary"} \cup {"comparison"}, l \in Nonterminals : <<m, l>> \in Leads => l \in {"primary"}
    BY DEF Leads, Nonterminals
  <2>3. T({"primary"})
    <3>1. {"primary"} = {} \cup {"primary"}
      OBVIOUS
    <3>. QED
      BY <1>2, <3>1
  <2>. QED
    BY <1>1, <2>1, <2>2, <2>3
<1>4. T({"primary", "comparison"} \cup {"notExpr"})
  <2>1. "notExpr" \in Nonterminals \ {"primary", "comparison"}
    BY DEF Nonterminals
  <2>2. \A m \in {"primary", "comparison"} \cup {"notExpr"}, l \in Nonterminals : <<m, l>> \in Leads => l \in {"primary", "comparison"}
    BY DEF Leads, Nonterminals
  <2>3. T({"primary", "comparison"})
    <3>1. {"primary", "comparison"} = {"primary"} \cup {"comparison"}
      OBVIOUS
    <3>. QED
      BY <1>3, <3>1
  <2>. QED
    BY <1>1, <2>1, <2>2, <2>3
<1>5. T({"primary", "comparison", "notExpr"} \cup {"andExpr"})
  <2>1. "andExpr" \in Nonterminals \ {"primary", "comparison", "notExpr"}
    BY DEF Nonterminals
  <2>2. \A m \in {"primary", "comparison", "notExpr"} \cup {"andExpr"}, l \in Nonterminals : <<m, l>> \in Leads => l \in {"primary", "comparison", "notExpr"}
    BY DEF Leads, Nonterminals
  <2>3. T({"primary", "comparison", "notExpr"})
    <3>1. {"primary", "comparison", "notExpr"} = {"primary", "comparison"} \cup {"notExpr"}
      OBVIOUS
    <3>. QED
      BY <1>4, <3>1
  <2>. QED
    BY <1>1, <2>1, <2>2, <2>3
<1>6. T({"primary", "comparison", "notExpr", "andExpr"} \cup {"orExpr"})
  <2>1. "orExpr" \in Nonterminals \ {"primary", "comparison", "notExpr", "andExpr"}
    BY DEF Nonterminals
  <2>2. \A m \in {"primary", "comparison", "notExpr", "andExpr"} \cup {"orExpr"}, l \in Nonterminals : <<m, l>> \in Leads => l \in {"primary", "comparison", "notExpr", "andExpr"}
    BY DEF Leads, Nonterminals
  <2>3. T({"primary", "comparison", "notExpr", "andExpr"})
    <3>1. {"primary", "comparison", "notExpr", "andExpr"} = {"primary", "comparison", "notExpr"} \cup {"andExpr"}
      OBVIOUS
    <3>. QED
      BY <1>5, <3>1
  <2>. QED
    BY <1>1, <2>1, <2>2, <2>3
<1>7. T({"primary", "comparison", "notExpr", "andExpr", "orExpr"} \cup {"andRest"})
  <2>1. "andRest" \in Nonterminals \ {"primary", "comparison", "notExpr", "andExpr", "orExpr"}
    BY DEF Nonterminals
  <2>2. \A m \in {"primary", "comparison", "notExpr", "andExpr", "orExpr"} \cup {"andRest"}, l \in Nonterminals : <<m, l>> \in Leads => l \in {"primary", "comparison", "notExpr", "andExpr", "orExpr"}
    BY DEF Leads, Nonterminals
  <2>3. T({"primary", "comparison", "notExpr", "andExpr", "orExpr"})
    <3>1. {"primary", "comparison", "notExpr", "andExpr", "orExpr"} = {"primary", "comparison", "notExpr", "andExpr"} \cup {"orExpr"}
      OBVIOUS
    <3>. QED
      BY <1>6, <3>1
  <2>. QED
    BY <1>1, <2>1, <2>2, <2>3
<1>8. T({"primary", "comparison", "notExpr", "andExpr", "orExpr", "andRest"} \cup {"orRest"})
  <2>1. "orRest" \in Nonterminals \ {"primary", "comparison", "notExpr", "andExpr", "orExpr", "andRest"}
    BY DEF Nonterminals
  <2>2. \A m \in {"primary", "comparison", "notExpr", "andExpr", "orExpr", "andRest"} \cup {"orRest"}, l \in Nonterminals : <<m, l>> \in Leads => l \in {"primary", "comparison", "notExpr", "andExpr", "orExpr", "andRest"}
    BY DEF Leads, Nonterminals
  <2>3. T({"primary", "comparison", "notExpr", "andExpr", "orExpr", "andRest"})
    <3>1. {"primary", "comparison", "notExpr", "andExpr", "orExpr", "andRest"} = {"primary", "comparison", "notExpr", "andExpr", "orExpr"} \cup {"andRest"}
      OBVIOUS
    <3>. QED
      BY <1>7, <3>1
  <2>. QED
    BY <1>1, <2>1, <2>2, <2>3
<1>9. Nonterminals = {"primary", "comparison", "notExpr", "andExpr", "orExpr", "andRest"} \cup {"orRest"}
  BY DEF Nonterminals
<1>. QED
  BY <1>8, <1>9 DEF T

\* Induction over the numbers up to n, said of a set.
LEMMA StepByStep ==
  ASSUME NEW n \in Nat, NEW A, 0 \in A, \A k \in 0 .. n - 1 : k \in A => k + 1 \in A
  PROVE  n \in A
<1>. DEFINE bad == (0 .. n) \ A
<1>1. SUFFICES ASSUME bad # {} PROVE FALSE
  OBVIOUS
<1>2. PICK k \in bad : \A j \in bad : k <= j
  <2>1. bad \in SUBSET Nat
    OBVIOUS
  <2>. HIDE DEF bad
  <2>. QED
    BY <1>1, <2>1, FirstPlace
<1>3. k \in 1 .. n /\ k - 1 \in 0 .. n - 1 /\ k - 1 \notin bad
  BY <1>2
<1>4. k - 1 \in A /\ (k - 1) + 1 = k
  BY <1>3
<1>. QED
  BY <1>2, <1>3, <1>4

\* Behind the last token every method returns at once.
LEMMA BehindTheEnd ==
  ASSUME NEW tokens, NEW env, Len(tokens) \in Nat
  PROVE  \E f : Tabulates(tokens, env, f, Len(tokens), {})
<1>1. PICK no \in BOOLEAN, yes \in BOOLEAN : ~no /\ yes
  OBVIOUS
<1>. DEFINE f == [c \in Invocations |->
                    CASE c[1] = "primary" -> Result(Undefined, c[2] + 1)
                      [] c[1] = "andRest" -> Result(yes, c[2])
                      [] c[1] = "orRest"  -> Result(no, c[2])
                      [] OTHER            -> Result(no, c[2] + 1)]
            M(n, q) == Method(tokens, env, f, n, q)
<1>2. \A r \in Nat :
        /\ f[<<"primary", r>>] = Result(Undefined, r + 1)
        /\ f[<<"comparison", r>>] = Result(no, r + 1) /\ f[<<"notExpr", r>>] = Result(no, r + 1)
        /\ f[<<"andExpr", r>>] = Result(no, r + 1) /\ f[<<"orExpr", r>>] = Result(no, r + 1)
        /\ f[<<"andRest", r>>] = Result(yes, r) /\ f[<<"orRest", r>>] = Result(no, r)
  BY DEF Invocations, Nonterminals
<1>3. f = [c \in Invocations |-> f[c]]
  OBVIOUS
<1>4. Truthy(Undefined) = no
  BY <1>1 DEF Truthy, Undefined
<1>. HIDE DEF f
<1>5. ASSUME NEW q \in Nat, q > Len(tokens)
      PROVE  \A n \in Nonterminals : Onwards(n, q, f[<<n, q>>]) /\ f[<<n, q>>] = M(n, q)
  <2>1. /\ q \in Nat /\ q + 1 \in Nat /\ q + 1 > q
        /\ Peek(tokens, q).type = "eof" /\ Peek(tokens, q + 1).type = "eof"
    BY <1>5 DEF Peek, Sign
  <2>2. /\ f[<<"primary", q>>] = Result(Undefined, q + 1)
        /\ f[<<"comparison", q>>] = Result(no, q + 1) /\ f[<<"notExpr", q>>] = Result(no, q + 1)
        /\ f[<<"andExpr", q>>] = Result(no, q + 1) /\ f[<<"orExpr", q>>] = Result(no, q + 1)
        /\ f[<<"andRest", q>>] = Result(yes, q) /\ f[<<"orRest", q>>] = Result(no, q)
        /\ f[<<"andRest", q + 1>>] = Result(yes, q + 1) /\ f[<<"orRest", q + 1>>] = Result(no, q + 1)
    BY <1>2, <2>1
  <2>3. /\ AndAlso(Result(no, q + 1), Result(yes, q + 1)) = Result(no, q + 1)
        /\ OrElse(Result(no, q + 1), Result(no, q + 1)) = Result(no, q + 1)
    BY <1>1 DEF AndAlso, OrElse, Result
  <2>4. M("primary", q) = Result(Undefined, q + 1)
    BY <2>1, PrimaryTexts
  <2>5. M("comparison", q) = Result(no, q + 1)
    BY <1>4, <2>1, <2>2, FlagText
  <2>6. M("notExpr", q) = Result(no, q + 1)
    BY <2>1, <2>2, ComparesText
  <2>7. M("andExpr", q) = Result(no, q + 1)
    BY <2>2, <2>3, AndText
  <2>8. M("orExpr", q) = Result(no, q + 1)
    BY <2>2, <2>3, OrText
  <2>9. M("andRest", q) = Result(yes, q) /\ M("orRest", q) = Result(no, q)
    BY <1>1, <2>1, OrEnds, AndEnds
  <2>. HIDE DEF M
  <2>10. \A n \in Nonterminals : f[<<n, q>>] = M(n, q)
    BY <2>2, <2>4, <2>5, <2>6, <2>7, <2>8, <2>9 DEF Nonterminals
  <2>11. ASSUME NEW n \in Nonterminals PROVE Onwards(n, q, f[<<n, q>>])
    <3>1. \E v : f[<<n, q>>] = Result(v, q + 1) \/ (n \in Rests /\ f[<<n, q>>] = Result(v, q))
      BY <2>2, <2>11 DEF Nonterminals, Rests
    <3>. QED
      BY <2>1, <3>1, ResultFields DEF Onwards
  <2>. QED
    BY <2>10, <2>11
<1>6. Tabulates(tokens, env, f, Len(tokens), {})
  BY <1>3, <1>5 DEF Tabulates
<1>. QED
  BY <1>6

\* The parser's methods return what their texts say.
Reads(tokens, env, P) ==
  \A n \in Nonterminals, p \in Nat : P[<<n, p>>] = Method(tokens, env, P, n, p)

LEMMA ParserReads ==
  ASSUME NEW tokens, NEW env, Len(tokens) \in Nat
  PROVE  Reads(tokens, env, Parser(tokens, env))
<1>. DEFINE T(k, ready) == \E f : Tabulates(tokens, env, f, k, ready)
            A == {j \in 0 .. Len(tokens) : T(Len(tokens) - j, {})}
<1>1. 0 \in A
  BY BehindTheEnd
<1>2. ASSUME NEW j \in 0 .. Len(tokens) - 1, j \in A PROVE j + 1 \in A
  <2>. DEFINE k == Len(tokens) - j
  <2>1. k \in Nat /\ k - 1 \in Nat /\ k - 1 = Len(tokens) - (j + 1) /\ j + 1 \in 0 .. Len(tokens)
    OBVIOUS
  <2>2. T(k, {})
    BY <1>2
  <2>. HIDE DEF k
  <2>3. PICK f : Tabulates(tokens, env, f, k, Nonterminals)
    BY <2>1, <2>2, OnePosition
  <2>4. \A q \in Nat : q > k - 1 => q > k \/ q = k
    BY <2>1
  <2>5. Tabulates(tokens, env, f, k - 1, {})
    BY <2>3, <2>4, Zenon DEF Tabulates
  <2>. QED
    BY <2>1, <2>5
<1>3. Len(tokens) \in A
  <2>. HIDE DEF A
  <2>. QED
    BY <1>1, <1>2, StepByStep
<1>4. T(0, {})
  BY <1>3
<1>5. PICK f : Tabulates(tokens, env, f, 0, Nonterminals)
  BY <1>4, OnePosition
<1>6. f = [c \in Invocations |-> Method(tokens, env, f, c[1], c[2])]
  <2>1. \A c \in Invocations : f[c] = Method(tokens, env, f, c[1], c[2])
    <3>. SUFFICES ASSUME NEW n \in Nonterminals, NEW q \in Nat
                  PROVE  f[<<n, q>>] = Method(tokens, env, f, n, q)
      BY DEF Invocations
    <3>. QED
      BY <1>5 DEF Tabulates
  <2>2. f = [c \in Invocations |-> f[c]]
    BY <1>5 DEF Tabulates
  <2>. QED
    BY <2>1, <2>2
<1>7. Parser(tokens, env) =
        [c \in Invocations |-> Method(tokens, env, Parser(tokens, env), c[1], c[2])]
  <2>. DEFINE Is(P) == P = [c \in Invocations |-> Method(tokens, env, P, c[1], c[2])]
  <2>1. Parser(tokens, env) = CHOOSE P : Is(P)
    BY DEF Parser, Invocations
  <2>2. \E P : Is(P)
    BY <1>6
  <2>. HIDE DEF Is
  <2>3. Is(Parser(tokens, env))
    BY <2>1, <2>2
  <2>. QED
    BY <2>3 DEF Is
<1>. QED
  BY <1>7 DEF Reads, Invocations

-----------------------------------------------------------------------------
(* What the parser makes of tokens w that stand somewhere in a condition.  m *)
(* is what they mean; kinds are the tokens that may not stand behind them.    *)

\* w stands at p, and q is the position behind it.
Stands(tokens, p, w, q, kinds) ==
  /\ Len(tokens) \in Nat /\ p \in Nat /\ q \in Nat /\ q = p + Len(w)
  /\ \A i \in 1 .. Len(w) : Peek(tokens, p + i - 1) = w[i]
  /\ Peek(tokens, q).type \notin kinds

AsComparison(env, w, m) ==
  \A tokens, p, q : Stands(tokens, p, w, q, {"op"}) =>
    /\ Peek(tokens, p).type # "not"
    /\ Parser(tokens, env)[<<"comparison", p>>] = Result(m, q)

AsNot(env, w, m) ==
  \A tokens, p, q : Stands(tokens, p, w, q, {"op"}) =>
    Parser(tokens, env)[<<"notExpr", p>>] = Result(m, q)

AsAnd(env, w, m) ==
  \A tokens, p, q : Stands(tokens, p, w, q, {"op"}) =>
    Parser(tokens, env)[<<"andExpr", p>>] =
      AndAlso(Result(m, q), Parser(tokens, env)[<<"andRest", q>>])

AsOr(env, w, m) ==
  \A tokens, p, q : Stands(tokens, p, w, q, {"op", "and"}) =>
    Parser(tokens, env)[<<"orExpr", p>>] =
      OrElse(Result(m, q), Parser(tokens, env)[<<"orRest", q>>])

LEMMA Calling ==
  ASSUME NEW tokens, NEW env, Len(tokens) \in Nat, NEW p \in Nat, NEW n \in Nonterminals
  PROVE  Parser(tokens, env)[<<n, p>>] = Method(tokens, env, Parser(tokens, env), n, p)
  BY ParserReads DEF Reads

\* What binds tighter may stand where what binds less is asked for.
LEMMA ComparisonIsNot ==
  ASSUME NEW env, NEW w, NEW m \in BOOLEAN, AsComparison(env, w, m)
  PROVE  AsNot(env, w, m)
<1>. SUFFICES ASSUME NEW tokens, NEW p, NEW q, Stands(tokens, p, w, q, {"op"})
              PROVE  Parser(tokens, env)[<<"notExpr", p>>] = Result(m, q)
  BY DEF AsNot
<1>1. Len(tokens) \in Nat /\ p \in Nat /\ "notExpr" \in Nonterminals
  BY DEF Stands, Nonterminals
<1>2. Peek(tokens, p).type # "not" /\ Parser(tokens, env)[<<"comparison", p>>] = Result(m, q)
  BY DEF AsComparison
<1>. QED
  BY <1>1, <1>2, Calling, ComparesText

LEMMA NotIsAnd ==
  ASSUME NEW env, NEW w, NEW m \in BOOLEAN, AsNot(env, w, m)
  PROVE  AsAnd(env, w, m)
<1>. SUFFICES ASSUME NEW tokens, NEW p, NEW q, Stands(tokens, p, w, q, {"op"})
              PROVE  Parser(tokens, env)[<<"andExpr", p>>] =
                       AndAlso(Result(m, q), Parser(tokens, env)[<<"andRest", q>>])
  BY DEF AsAnd
<1>1. Len(tokens) \in Nat /\ p \in Nat /\ "andExpr" \in Nonterminals
  BY DEF Stands, Nonterminals
<1>2. Parser(tokens, env)[<<"notExpr", p>>] = Result(m, q)
  BY DEF AsNot
<1>. QED
  BY <1>1, <1>2, Calling, AndText

LEMMA AndIsOr ==
  ASSUME NEW env, NEW w, NEW m \in BOOLEAN, AsAnd(env, w, m)
  PROVE  AsOr(env, w, m)
<1>. SUFFICES ASSUME NEW tokens, NEW p, NEW q, Stands(tokens, p, w, q, {"op", "and"})
              PROVE  Parser(tokens, env)[<<"orExpr", p>>] =
                       OrElse(Result(m, q), Parser(tokens, env)[<<"orRest", q>>])
  BY DEF AsOr
<1>. DEFINE P == Parser(tokens, env)
<1>1. /\ Len(tokens) \in Nat /\ p \in Nat /\ q \in Nat /\ Peek(tokens, q).type # "and"
      /\ {"andExpr", "andRest", "orExpr"} \subseteq Nonterminals
  BY DEF Stands, Nonterminals
<1>2. P[<<"andExpr", p>>] = AndAlso(Result(m, q), P[<<"andRest", q>>])
  BY DEF AsAnd, Stands
<1>3. PICK yes \in BOOLEAN : yes
  OBVIOUS
<1>4. P[<<"andRest", q>>] = Result(yes, q)
  <2>1. Method(tokens, env, P, "andRest", q) = Result(yes, q)
    BY <1>1, <1>3, AndEnds
  <2>. QED
    BY <1>1, <2>1, Calling
<1>5. AndAlso(Result(m, q), Result(yes, q)) = Result(m, q)
  BY <1>3 DEF AndAlso, Result
<1>6. P[<<"andExpr", p>>] = Result(m, q)
  BY <1>2, <1>4, <1>5
<1>. QED
  BY <1>1, <1>6, Calling, OrText

\* Parentheses make a comparison of anything, and have no meaning of their own.
LEMMA InParens ==
  ASSUME NEW env, NEW S, NEW w \in Seq(S), NEW m \in BOOLEAN, AsOr(env, w, m)
  PROVE  AsComparison(env, Parens(w), m)
<1>. SUFFICES ASSUME NEW tokens, NEW p, NEW q, Stands(tokens, p, Parens(w), q, {"op"})
              PROVE  /\ Peek(tokens, p).type # "not"
                     /\ Parser(tokens, env)[<<"comparison", p>>] = Result(m, q)
  BY DEF AsComparison
<1>. DEFINE P == Parser(tokens, env)
            e == p + 1 + Len(w)
<1>1. /\ Len(Parens(w)) = Len(w) + 2 /\ Len(w) \in Nat
      /\ Parens(w)[1] = Sign("lparen") /\ Parens(w)[Len(w) + 2] = Sign("rparen")
      /\ \A i \in 1 .. Len(w) : Parens(w)[i + 1] = w[i]
  BY DEF Parens
<1>2. /\ Len(tokens) \in Nat /\ p \in Nat /\ p + 1 \in Nat /\ e \in Nat /\ q = e + 1 /\ q \in Nat
      /\ \A i \in 1 .. Len(w) + 2 : Peek(tokens, p + i - 1) = Parens(w)[i]
      /\ Peek(tokens, q).type # "op"
  BY <1>1 DEF Stands
<1>3. Peek(tokens, p) = Sign("lparen") /\ Peek(tokens, e) = Sign("rparen")
  <2>1. 1 \in 1 .. Len(w) + 2 /\ Len(w) + 2 \in 1 .. Len(w) + 2 /\ p + 1 - 1 = p /\ p + (Len(w) + 2) - 1 = e
    BY <1>1, <1>2
  <2>. HIDE DEF e
  <2>. QED
    BY <1>1, <1>2, <2>1
<1>4. ASSUME NEW i \in 1 .. Len(w) PROVE Peek(tokens, p + 1 + i - 1) = w[i]
  <2>1. i + 1 \in 1 .. Len(w) + 2 /\ p + (i + 1) - 1 = p + 1 + i - 1
    BY <1>1, <1>2
  <2>. QED
    BY <1>1, <1>2, <2>1
<1>5. Peek(tokens, p).type = "lparen" /\ Peek(tokens, e).type = "rparen"
  BY <1>3 DEF Sign
<1>6. Stands(tokens, p + 1, w, e, {"op", "and"})
  BY <1>2, <1>4, <1>5 DEF Stands
<1>7. P[<<"orExpr", p + 1>>] = OrElse(Result(m, e), P[<<"orRest", e>>])
  BY <1>6 DEF AsOr
<1>8. PICK no \in BOOLEAN : ~no
  OBVIOUS
<1>. HIDE DEF e
<1>9. {"orRest", "orExpr", "primary", "comparison"} \subseteq Nonterminals
  BY DEF Nonterminals
<1>10. P[<<"orRest", e>>] = Result(no, e)
  BY <1>2, <1>5, <1>8, <1>9, Calling, OrEnds
<1>11. OrElse(Result(m, e), Result(no, e)) = Result(m, e)
  BY <1>8 DEF OrElse, Result
<1>12. P[<<"orExpr", p + 1>>] = Result(m, e)
  BY <1>7, <1>10, <1>11
<1>13. PICK b : b = Bool(m)
  OBVIOUS
<1>14. P[<<"primary", p>>] = Result(b, q)
  <2>1. Method(tokens, env, P, "primary", p) = Result(b, e + 1)
    <3>1. PICK next : next = p + 1
      OBVIOUS
    <3>2. P[<<"orExpr", next>>] = Result(m, e)
      BY <1>12, <3>1
    <3>. QED
      BY <1>5, <1>13, <3>1, <3>2, ParenText
  <2>. QED
    BY <1>2, <1>9, <2>1, Calling
<1>15. Truthy(b) = m
  BY <1>13 DEF Truthy, Bool
<1>16. P[<<"comparison", p>>] = Result(m, q)
  BY <1>2, <1>9, <1>14, <1>15, Calling, FlagText
<1>. QED
  BY <1>5, <1>16

-----------------------------------------------------------------------------
(* How the parts of a condition make the whole.                               *)

LEMMA StandsBehind ==
  ASSUME NEW S, NEW w \in Seq(S), NEW d \in S, NEW tokens, NEW p, NEW q, NEW kinds,
         Stands(tokens, p, <<d>> \o w, q, kinds)
  PROVE  Peek(tokens, p) = d /\ Stands(tokens, p + 1, w, q, kinds)
<1>. DEFINE all == <<d>> \o w
<1>1. /\ Len(all) = Len(w) + 1 /\ Len(w) \in Nat
      /\ all[1] = d /\ \A i \in 1 .. Len(w) : all[i + 1] = w[i]
  OBVIOUS
<1>. HIDE DEF all
<1>2. /\ Len(tokens) \in Nat /\ p \in Nat /\ q \in Nat /\ q = p + 1 + Len(w) /\ p + 1 \in Nat
      /\ \A i \in 1 .. Len(w) + 1 : Peek(tokens, p + i - 1) = all[i]
      /\ Peek(tokens, q).type \notin kinds
  BY <1>1 DEF Stands, all
<1>3. Peek(tokens, p) = d
  <2>1. 1 \in 1 .. Len(w) + 1 /\ p + 1 - 1 = p
    BY <1>1, <1>2
  <2>. QED
    BY <1>1, <1>2, <2>1
<1>4. ASSUME NEW i \in 1 .. Len(w) PROVE Peek(tokens, p + 1 + i - 1) = w[i]
  <2>1. i + 1 \in 1 .. Len(w) + 1 /\ p + (i + 1) - 1 = p + 1 + i - 1
    BY <1>1, <1>2
  <2>. QED
    BY <1>1, <1>2, <2>1
<1>. QED
  BY <1>2, <1>3, <1>4 DEF Stands

LEMMA StandsBefore ==
  ASSUME NEW S, NEW u \in Seq(S), NEW w \in Seq(S), Len(w) > 0, NEW tokens, NEW p, NEW q, NEW kinds,
         NEW others, w[1].type \notin others, Stands(tokens, p, u \o w, q, kinds)
  PROVE  Stands(tokens, p, u, p + Len(u), others) /\ Stands(tokens, p + Len(u), w, q, kinds)
<1>. DEFINE all == u \o w
            r == p + Len(u)
<1>1. /\ Len(all) = Len(u) + Len(w) /\ Len(u) \in Nat /\ Len(w) \in Nat
      /\ \A i \in 1 .. Len(u) : all[i] = u[i]
      /\ \A i \in 1 .. Len(w) : all[Len(u) + i] = w[i]
  OBVIOUS
<1>. HIDE DEF all
<1>2. /\ Len(tokens) \in Nat /\ p \in Nat /\ q \in Nat /\ q = p + Len(u) + Len(w)
      /\ \A i \in 1 .. Len(u) + Len(w) : Peek(tokens, p + i - 1) = all[i]
      /\ Peek(tokens, q).type \notin kinds
  BY <1>1 DEF Stands, all
<1>3. \A i \in 1 .. Len(u) : Peek(tokens, p + i - 1) = u[i]
  BY <1>1, <1>2
<1>4. ASSUME NEW i \in 1 .. Len(w) PROVE Peek(tokens, r + i - 1) = w[i]
  <2>1. Len(u) + i \in 1 .. Len(u) + Len(w) /\ p + (Len(u) + i) - 1 = r + i - 1
    BY <1>1, <1>2
  <2>. QED
    BY <1>1, <1>2, <2>1
<1>5. r \in Nat /\ r + 1 - 1 = r /\ q = r + Len(w) /\ 1 \in 1 .. Len(w)
  BY <1>1, <1>2
<1>6. Peek(tokens, r) = w[1]
  <2>. HIDE DEF r
  <2>. QED
    BY <1>4, <1>5
<1>7. Stands(tokens, p, u, r, others)
  BY <1>2, <1>3, <1>5, <1>6 DEF Stands
<1>8. Stands(tokens, r, w, q, kinds)
  <2>. HIDE DEF r
  <2>. QED
    BY <1>2, <1>4, <1>5 DEF Stands
<1>. QED
  BY <1>7, <1>8

\* Two expressions with a sign between them.
LEMMA StandsBetween ==
  ASSUME NEW S, NEW u \in Seq(S), NEW w \in Seq(S), NEW d \in S, NEW tokens, NEW p, NEW q, NEW kinds,
         NEW others, d.type \notin others, Stands(tokens, p, u \o <<d>> \o w, q, kinds)
  PROVE  \E r \in Nat : /\ Stands(tokens, p, u, r, others) /\ Peek(tokens, r) = d
                        /\ Stands(tokens, r + 1, w, q, kinds)
<1>1. /\ <<d>> \o w \in Seq(S) /\ Len(<<d>> \o w) > 0 /\ (<<d>> \o w)[1] = d
      /\ u \o <<d>> \o w = u \o (<<d>> \o w)
  OBVIOUS
<1>2. /\ Stands(tokens, p, u, p + Len(u), others)
      /\ Stands(tokens, p + Len(u), <<d>> \o w, q, kinds)
  BY <1>1, StandsBefore
<1>3. Peek(tokens, p + Len(u)) = d /\ Stands(tokens, p + Len(u) + 1, w, q, kinds)
  BY <1>2, StandsBehind
<1>4. p + Len(u) \in Nat
  BY <1>2 DEF Stands
<1>. QED
  BY <1>2, <1>3, <1>4

LEMMA NotOf ==
  ASSUME NEW env, NEW S, NEW w \in Seq(S), Sign("not") \in S, NEW m \in BOOLEAN, AsComparison(env, w, m),
         NEW k \in BOOLEAN, k <=> ~m
  PROVE  AsNot(env, <<Sign("not")>> \o w, k)
<1>. SUFFICES ASSUME NEW tokens, NEW p, NEW q, Stands(tokens, p, <<Sign("not")>> \o w, q, {"op"})
              PROVE  Parser(tokens, env)[<<"notExpr", p>>] = Result(k, q)
  BY DEF AsNot
<1>. DEFINE P == Parser(tokens, env)
<1>1. Peek(tokens, p) = Sign("not") /\ Stands(tokens, p + 1, w, q, {"op"})
  BY StandsBehind
<1>2. PICK next : next = p + 1
  OBVIOUS
<1>3. P[<<"comparison", next>>] = Result(m, q)
  BY <1>1, <1>2 DEF AsComparison
<1>4. Method(tokens, env, P, "notExpr", p) = Result(k, q)
  BY <1>1, <1>2, <1>3, NotText DEF Sign
<1>5. Len(tokens) \in Nat /\ p \in Nat /\ "notExpr" \in Nonterminals
  BY DEF Stands, Nonterminals
<1>. QED
  BY <1>4, <1>5, Calling

LEMMA AndOf ==
  ASSUME NEW env, NEW S, NEW u \in Seq(S), NEW w \in Seq(S), Sign("and") \in S,
         NEW m \in BOOLEAN, NEW n \in BOOLEAN, AsAnd(env, u, m), AsAnd(env, w, n),
         NEW k \in BOOLEAN, k <=> (m /\ n)
  PROVE  AsAnd(env, u \o <<Sign("and")>> \o w, k)
<1>. SUFFICES ASSUME NEW tokens, NEW p, NEW q, Stands(tokens, p, u \o <<Sign("and")>> \o w, q, {"op"})
              PROVE  Parser(tokens, env)[<<"andExpr", p>>] =
                       AndAlso(Result(k, q), Parser(tokens, env)[<<"andRest", q>>])
  BY DEF AsAnd
<1>. DEFINE P == Parser(tokens, env)
<1>1. Sign("and").type \notin {"op"}
  BY DEF Sign
<1>2. PICK r \in Nat : /\ Stands(tokens, p, u, r, {"op"}) /\ Peek(tokens, r) = Sign("and")
                       /\ Stands(tokens, r + 1, w, q, {"op"})
  <2>. DEFINE d == Sign("and")
              kinds == {"op"}
  <2>1. d \in S /\ d.type \notin kinds /\ Stands(tokens, p, u \o <<d>> \o w, q, kinds)
    BY <1>1
  <2>. HIDE DEF d, kinds
  <2>2. \E r \in Nat : /\ Stands(tokens, p, u, r, kinds) /\ Peek(tokens, r) = d
                       /\ Stands(tokens, r + 1, w, q, kinds)
    BY <2>1, StandsBetween
  <2>. QED
    BY <2>2 DEF d, kinds
<1>3. P[<<"andExpr", p>>] = AndAlso(Result(m, r), P[<<"andRest", r>>])
  BY <1>2 DEF AsAnd
<1>4. P[<<"andExpr", r + 1>>] = AndAlso(Result(n, q), P[<<"andRest", q>>])
  BY <1>2 DEF AsAnd
<1>5. P[<<"andRest", r>>] = P[<<"andExpr", r + 1>>]
  <2>1. Len(tokens) \in Nat /\ r + 1 \in Nat /\ {"andRest", "andExpr"} \subseteq Nonterminals
    BY <1>2 DEF Stands, Nonterminals
  <2>2. Peek(tokens, r).type = "and"
    BY <1>2 DEF Sign
  <2>3. Method(tokens, env, P, "andRest", r) = Method(tokens, env, P, "andExpr", r + 1)
    BY <2>2, RestTexts
  <2>. QED
    BY <2>1, <2>3, Calling
<1>6. \A x : AndAlso(Result(m, r), AndAlso(Result(n, q), x)) = AndAlso(Result(k, q), x)
  BY DEF AndAlso, Result
<1>. QED
  BY <1>3, <1>4, <1>5, <1>6

LEMMA OrOf ==
  ASSUME NEW env, NEW S, NEW u \in Seq(S), NEW w \in Seq(S), Sign("or") \in S,
         NEW m \in BOOLEAN, NEW n \in BOOLEAN, AsOr(env, u, m), AsOr(env, w, n),
         NEW k \in BOOLEAN, k <=> (m \/ n)
  PROVE  AsOr(env, u \o <<Sign("or")>> \o w, k)
<1>. SUFFICES ASSUME NEW tokens, NEW p, NEW q,
                     Stands(tokens, p, u \o <<Sign("or")>> \o w, q, {"op", "and"})
              PROVE  Parser(tokens, env)[<<"orExpr", p>>] =
                       OrElse(Result(k, q), Parser(tokens, env)[<<"orRest", q>>])
  BY DEF AsOr
<1>. DEFINE P == Parser(tokens, env)
<1>1. Sign("or").type \notin {"op", "and"}
  BY DEF Sign
<1>2. PICK r \in Nat : /\ Stands(tokens, p, u, r, {"op", "and"}) /\ Peek(tokens, r) = Sign("or")
                       /\ Stands(tokens, r + 1, w, q, {"op", "and"})
  <2>. DEFINE d == Sign("or")
              kinds == {"op", "and"}
  <2>1. d \in S /\ d.type \notin kinds /\ Stands(tokens, p, u \o <<d>> \o w, q, kinds)
    BY <1>1
  <2>. HIDE DEF d, kinds
  <2>2. \E r \in Nat : /\ Stands(tokens, p, u, r, kinds) /\ Peek(tokens, r) = d
                       /\ Stands(tokens, r + 1, w, q, kinds)
    BY <2>1, StandsBetween
  <2>. QED
    BY <2>2 DEF d, kinds
<1>3. P[<<"orExpr", p>>] = OrElse(Result(m, r), P[<<"orRest", r>>])
  BY <1>2 DEF AsOr
<1>4. P[<<"orExpr", r + 1>>] = OrElse(Result(n, q), P[<<"orRest", q>>])
  BY <1>2 DEF AsOr
<1>5. P[<<"orRest", r>>] = P[<<"orExpr", r + 1>>]
  <2>1. Len(tokens) \in Nat /\ r + 1 \in Nat /\ {"orRest", "orExpr"} \subseteq Nonterminals
    BY <1>2 DEF Stands, Nonterminals
  <2>2. Peek(tokens, r).type = "or"
    BY <1>2 DEF Sign
  <2>3. Method(tokens, env, P, "orRest", r) = Method(tokens, env, P, "orExpr", r + 1)
    BY <2>2, RestTexts
  <2>. QED
    BY <2>1, <2>3, Calling
<1>6. \A x : OrElse(Result(m, r), OrElse(Result(n, q), x)) = OrElse(Result(k, q), x)
  BY DEF OrElse, Result
<1>. QED
  BY <1>3, <1>4, <1>5, <1>6

LEMMA FlagIs ==
  ASSUME NEW env, NEW path, NEW m, m = Truthy(GetByPath(env, path))
  PROVE  AsComparison(env, <<Ident(path)>>, m)
<1>. SUFFICES ASSUME NEW tokens, NEW p, NEW q, Stands(tokens, p, <<Ident(path)>>, q, {"op"})
              PROVE  /\ Peek(tokens, p).type # "not"
                     /\ Parser(tokens, env)[<<"comparison", p>>] = Result(m, q)
  BY DEF AsComparison
<1>. DEFINE P == Parser(tokens, env)
            w == <<Ident(path)>>
<1>1. Len(w) = 1 /\ w[1] = Ident(path)
  OBVIOUS
<1>. HIDE DEF w
<1>2. /\ Len(tokens) \in Nat /\ p \in Nat /\ q = p + 1 /\ Peek(tokens, q).type # "op"
      /\ \A i \in 1 .. 1 : Peek(tokens, p + i - 1) = w[i]
  BY <1>1 DEF Stands, w
<1>3. Peek(tokens, p) = Ident(path)
  <2>1. 1 \in 1 .. 1 /\ p + 1 - 1 = p
    BY <1>2
  <2>. QED
    BY <1>1, <1>2, <2>1
<1>4. /\ Peek(tokens, p).type = "ident" /\ Peek(tokens, p).value = path
      /\ {"primary", "comparison"} \subseteq Nonterminals
  BY <1>3 DEF Ident, Nonterminals
<1>5. P[<<"primary", p>>] = Result(GetByPath(env, path), q)
  BY <1>2, <1>4, Calling, PrimaryTexts
<1>6. Method(tokens, env, P, "comparison", p) = Result(m, q)
  BY <1>2, <1>5, FlagText
<1>. QED
  BY <1>2, <1>4, <1>6, Calling

LEMMA LeafIs ==
  ASSUME NEW env, NEW path, NEW op, NEW v, NEW m, m = Compare(GetByPath(env, path), op, v)
  PROVE  AsComparison(env, <<Ident(path), Op(op), Literal(v)>>, m)
<1>. SUFFICES ASSUME NEW tokens, NEW p, NEW q,
                     Stands(tokens, p, <<Ident(path), Op(op), Literal(v)>>, q, {"op"})
              PROVE  /\ Peek(tokens, p).type # "not"
                     /\ Parser(tokens, env)[<<"comparison", p>>] = Result(m, q)
  BY DEF AsComparison
<1>. DEFINE P == Parser(tokens, env)
            w == <<Ident(path), Op(op), Literal(v)>>
<1>1. Len(w) = 3 /\ w[1] = Ident(path) /\ w[2] = Op(op) /\ w[3] = Literal(v)
  OBVIOUS
<1>. HIDE DEF w
<1>2. /\ Len(tokens) \in Nat /\ p \in Nat /\ q = p + 3
      /\ \A i \in 1 .. 3 : Peek(tokens, p + i - 1) = w[i]
  BY <1>1 DEF Stands, w
<1>3. PICK j, k : j = p + 1 /\ k = p + 2
  OBVIOUS
<1>4. j \in Nat /\ k \in Nat /\ k = j + 1 /\ q = k + 1
  BY <1>2, <1>3
<1>5. Peek(tokens, p) = Ident(path) /\ Peek(tokens, j) = Op(op) /\ Peek(tokens, k) = Literal(v)
  <2>1. {1, 2, 3} \subseteq 1 .. 3 /\ p + 1 - 1 = p /\ p + 2 - 1 = j /\ p + 3 - 1 = k
    BY <1>2, <1>3
  <2>2. Peek(tokens, p + 1 - 1) = w[1] /\ Peek(tokens, p + 2 - 1) = w[2] /\ Peek(tokens, p + 3 - 1) = w[3]
    BY <1>2, <2>1
  <2>. QED
    BY <1>1, <2>1, <2>2
<1>6. /\ Peek(tokens, p).type = "ident" /\ Peek(tokens, p).value = path
      /\ Peek(tokens, j).type = "op" /\ Peek(tokens, j).value = op
      /\ Peek(tokens, k).type = "literal" /\ Peek(tokens, k).value = v
      /\ {"primary", "comparison"} \subseteq Nonterminals
  BY <1>5 DEF Ident, Op, Literal, Nonterminals
<1>7. P[<<"primary", p>>] = Result(GetByPath(env, path), j)
  <2>1. Method(tokens, env, P, "primary", p) = Result(GetByPath(env, path), p + 1)
    BY <1>6, PrimaryTexts
  <2>. QED
    BY <1>2, <1>3, <1>6, <2>1, Calling
<1>8. P[<<"primary", k>>] = Result(v, q)
  BY <1>2, <1>4, <1>6, Calling, PrimaryTexts
<1>9. Method(tokens, env, P, "comparison", p) = Result(m, q)
  BY <1>4, <1>6, <1>7, <1>8, ComparisonText
<1>. QED
  BY <1>2, <1>6, <1>9, Calling

-----------------------------------------------------------------------------
(* The expressions, level by level.                                           *)

LEMMA Levels ==
  Nested = [d \in 0 .. Depth |-> IF d = 0 THEN Leaves ELSE Deeper(Nested[d - 1])]
<1>. DEFINE Is(g, n) == g = [d \in 0 .. n |-> IF d = 0 THEN Leaves ELSE Deeper(g[d - 1])]
            A == {n \in 0 .. Depth : \E g : Is(g, n)}
<1>1. Depth \in Nat
  BY PolicyAssumption
<1>2. 0 \in A
  <2>1. Is([d \in 0 .. 0 |-> Leaves], 0)
    OBVIOUS
  <2>2. 0 \in 0 .. Depth
    BY <1>1
  <2>. HIDE DEF Is
  <2>. QED
    BY <2>1, <2>2
<1>3. ASSUME NEW n \in 0 .. Depth - 1, n \in A PROVE n + 1 \in A
  <2>1. PICK g : Is(g, n)
    BY <1>3
  <2>. DEFINE h == [d \in 0 .. n + 1 |-> IF d <= n THEN g[d] ELSE Deeper(g[n])]
  <2>2. ASSUME NEW d \in 0 .. n + 1
        PROVE  h[d] = IF d = 0 THEN Leaves ELSE Deeper(h[d - 1])
    <3>1. CASE d = 0
      BY <1>1, <2>1, <3>1
    <3>2. CASE d \in 1 .. n
      <4>1. g[d] = Deeper(g[d - 1]) /\ h[d] = g[d] /\ h[d - 1] = g[d - 1] /\ d # 0
        BY <1>1, <2>1, <3>2
      <4>. HIDE DEF h
      <4>. QED
        BY <4>1
    <3>3. CASE d = n + 1
      <4>1. h[d] = Deeper(g[n]) /\ h[d - 1] = g[n] /\ d # 0
        BY <1>1, <3>3
      <4>. HIDE DEF h
      <4>. QED
        BY <4>1
    <3>. QED
      BY <1>1, <2>2, <3>1, <3>2, <3>3
  <2>3. h = [d \in 0 .. n + 1 |-> h[d]]
    OBVIOUS
  <2>. HIDE DEF h
  <2>4. Is(h, n + 1)
    BY <2>2, <2>3
  <2>5. n + 1 \in 0 .. Depth
    BY <1>1
  <2>. QED
    BY <2>4, <2>5
<1>4. \E g : Is(g, Depth)
  <2>1. Depth \in A
    <3>. HIDE DEF A
    <3>. QED
      BY <1>1, <1>2, <1>3, StepByStep
  <2>. QED
    BY <2>1
<1>5. Nested = CHOOSE g : Is(g, Depth)
  BY DEF Nested
<1>. HIDE DEF Is
<1>6. Is(Nested, Depth)
  BY <1>4, <1>5
<1>. QED
  BY <1>6 DEF Is

\* An expression made of those in E.
IsMade(e, E) ==
  \/ e \in Leaves
  \/ \E x \in E : e = Not(x)
  \/ \E x, y \in E : e = And(x, y) \/ e = Or(x, y)

LEMMA AllMade ==
  \A d \in 0 .. Depth : \A e \in Nested[d] : IsMade(e, Nested[IF d = 0 THEN 0 ELSE d - 1])
<1>. DEFINE A == {d \in 0 .. Depth : \A e \in Nested[d] : IsMade(e, Nested[IF d = 0 THEN 0 ELSE d - 1])}
<1>1. Depth \in Nat /\ Nested[0] = Leaves /\ \A e \in Leaves : IsLeaf(e)
  BY PolicyAssumption, Levels
<1>2. 0 \in A
  BY <1>1 DEF IsMade
<1>3. ASSUME NEW d \in 0 .. Depth - 1, d \in A PROVE d + 1 \in A
  <2>1. /\ d + 1 \in 0 .. Depth /\ (d + 1) - 1 = d /\ d + 1 # 0 /\ d \in 0 .. Depth
        /\ Nested[d + 1] = Deeper(Nested[d])
    BY <1>1, Levels
  <2>2. Nested[IF d = 0 THEN 0 ELSE d - 1] \subseteq Nested[d]
    <3>1. CASE d = 0
      BY <3>1
    <3>2. CASE d # 0
      <4>1. Nested[d] = Deeper(Nested[d - 1])
        BY <2>1, <3>2, Levels
      <4>. QED
        BY <3>2, <4>1 DEF Deeper
    <3>. QED
      BY <3>1, <3>2
  <2>3. \A e \in Nested[d] : IsMade(e, Nested[d])
    BY <1>3, <2>2 DEF IsMade
  <2>4. \A e \in Nested[d + 1] : IsMade(e, Nested[d])
    BY <2>1, <2>3 DEF IsMade, Deeper
  <2>. QED
    BY <2>1, <2>4
<1>4. \A d \in 0 .. Depth : d \in A
  <2>. SUFFICES ASSUME NEW d \in 0 .. Depth PROVE d \in A
    OBVIOUS
  <2>1. d \in Nat /\ \A k \in 0 .. d - 1 : k \in 0 .. Depth - 1
    BY <1>1
  <2>. HIDE DEF A
  <2>. QED
    BY <1>2, <1>3, <2>1, StepByStep
<1>. QED
  BY <1>4

LEMMA SpellingLooksInside ==
  ASSUME NEW E, NEW f, NEW g, \A x \in E : f[x] = g[x], NEW e, IsMade(e, E)
  PROVE  Spelling(f, e) = Spelling(g, e)
<1>1. CASE e \in Leaves
  BY <1>1, PolicyAssumption DEF IsLeaf, Spelling
<1>2. ASSUME NEW x \in E, e = Not(x) PROVE Spelling(f, e) = Spelling(g, e)
  BY <1>2 DEF Not, Spelling, Inside
<1>3. ASSUME NEW x \in E, NEW y \in E, e = And(x, y) \/ e = Or(x, y)
      PROVE  Spelling(f, e) = Spelling(g, e)
  BY <1>3 DEF And, Or, Spelling, Inside
<1>. QED
  BY <1>1, <1>2, <1>3 DEF IsMade

LEMMA TruthLooksInside ==
  ASSUME NEW env, NEW E, NEW f, NEW g, \A x \in E : f[x] = g[x], NEW e, IsMade(e, E)
  PROVE  Truth(env, f, e) = Truth(env, g, e)
<1>1. CASE e \in Leaves
  BY <1>1, PolicyAssumption DEF IsLeaf, Truth
<1>2. ASSUME NEW x \in E, e = Not(x) PROVE Truth(env, f, e) = Truth(env, g, e)
  BY <1>2 DEF Not, Truth
<1>3. ASSUME NEW x \in E, NEW y \in E, e = And(x, y) \/ e = Or(x, y)
      PROVE  Truth(env, f, e) = Truth(env, g, e)
  BY <1>3 DEF And, Or, Truth
<1>. QED
  BY <1>1, <1>2, <1>3 DEF IsMade

\* Every expression has a spelling, made of those of the expressions in it.
LEMMA Spelled ==
  Written = [e \in Expressions |-> Spelling(Written, e)]
<1>. DEFINE Is(f, d) == f = [e \in Nested[d] |-> Spelling(f, e)]
            A == {d \in 0 .. Depth : \E f : Is(f, d)}
<1>1. Depth \in Nat /\ 0 \in 0 .. Depth
  BY PolicyAssumption
<1>2. ASSUME NEW d \in 0 .. Depth, NEW E, \A e \in Nested[d] : IsMade(e, E),
             NEW f, \A x \in E : x \in Nested[d] /\ f[x] = Spelling(f, x)
      PROVE  d \in A
  <2>. DEFINE g == [e \in Nested[d] |-> Spelling(f, e)]
  <2>1. \A e \in Nested[d] : g[e] = Spelling(f, e)
    OBVIOUS
  <2>2. g = [e \in Nested[d] |-> g[e]]
    OBVIOUS
  <2>. HIDE DEF g
  <2>3. \A x \in E : f[x] = g[x]
    BY <1>2, <2>1
  <2>4. \A e \in Nested[d] : Spelling(f, e) = Spelling(g, e)
    BY <1>2, <2>3, SpellingLooksInside
  <2>5. Is(g, d)
    BY <2>1, <2>2, <2>4
  <2>. HIDE DEF Is
  <2>. QED
    BY <1>2, <2>5
<1>3. 0 \in A
  <2>1. \A e \in Nested[0] : IsMade(e, {})
    BY <1>1, Levels DEF IsMade
  <2>. HIDE DEF A
  <2>. QED
    BY <1>1, <1>2, <2>1
<1>4. ASSUME NEW d \in 0 .. Depth - 1, d \in A PROVE d + 1 \in A
  <2>1. /\ d + 1 \in 0 .. Depth /\ d + 1 # 0 /\ (d + 1) - 1 = d
        /\ Nested[d + 1] = Deeper(Nested[d])
    BY <1>1, Levels
  <2>2. \A e \in Nested[d + 1] : IsMade(e, Nested[d])
    BY <2>1, AllMade
  <2>3. \A x \in Nested[d] : x \in Nested[d + 1]
    BY <2>1 DEF Deeper
  <2>4. PICK f : \A x \in Nested[d] : f[x] = Spelling(f, x)
    BY <1>4
  <2>. HIDE DEF A
  <2>. QED
    BY <1>2, <2>1, <2>2, <2>3, <2>4
<1>5. \E f : Is(f, Depth)
  <2>1. Depth \in A
    <3>. HIDE DEF A
    <3>. QED
      BY <1>1, <1>3, <1>4, StepByStep
  <2>. QED
    BY <2>1
<1>6. Written = CHOOSE f : Is(f, Depth)
  BY DEF Written, Expressions
<1>. HIDE DEF Is
<1>7. Is(Written, Depth)
  BY <1>5, <1>6
<1>. QED
  BY <1>7 DEF Is, Expressions

\* Every expression has a truth, made of those of the expressions in it.
LEMMA Meant ==
  ASSUME NEW env
  PROVE  Meaning(env) = [e \in Expressions |-> Truth(env, Meaning(env), e)]
<1>. DEFINE Is(f, d) == f = [e \in Nested[d] |-> Truth(env, f, e)]
            A == {d \in 0 .. Depth : \E f : Is(f, d)}
<1>1. Depth \in Nat /\ 0 \in 0 .. Depth
  BY PolicyAssumption
<1>2. ASSUME NEW d \in 0 .. Depth, NEW E, \A e \in Nested[d] : IsMade(e, E),
             NEW f, \A x \in E : x \in Nested[d] /\ f[x] = Truth(env, f, x)
      PROVE  d \in A
  <2>. DEFINE g == [e \in Nested[d] |-> Truth(env, f, e)]
  <2>1. \A e \in Nested[d] : g[e] = Truth(env, f, e)
    OBVIOUS
  <2>2. g = [e \in Nested[d] |-> g[e]]
    OBVIOUS
  <2>. HIDE DEF g
  <2>3. \A x \in E : f[x] = g[x]
    BY <1>2, <2>1
  <2>4. \A e \in Nested[d] : Truth(env, f, e) = Truth(env, g, e)
    BY <1>2, <2>3, TruthLooksInside
  <2>5. Is(g, d)
    BY <2>1, <2>2, <2>4
  <2>. HIDE DEF Is
  <2>. QED
    BY <1>2, <2>5
<1>3. 0 \in A
  <2>1. \A e \in Nested[0] : IsMade(e, {})
    BY <1>1, Levels DEF IsMade
  <2>. HIDE DEF A
  <2>. QED
    BY <1>1, <1>2, <2>1
<1>4. ASSUME NEW d \in 0 .. Depth - 1, d \in A PROVE d + 1 \in A
  <2>1. /\ d + 1 \in 0 .. Depth /\ d + 1 # 0 /\ (d + 1) - 1 = d
        /\ Nested[d + 1] = Deeper(Nested[d])
    BY <1>1, Levels
  <2>2. \A e \in Nested[d + 1] : IsMade(e, Nested[d])
    BY <2>1, AllMade
  <2>3. \A x \in Nested[d] : x \in Nested[d + 1]
    BY <2>1 DEF Deeper
  <2>4. PICK f : \A x \in Nested[d] : f[x] = Truth(env, f, x)
    BY <1>4
  <2>. HIDE DEF A
  <2>. QED
    BY <1>2, <2>1, <2>2, <2>3, <2>4
<1>5. \E f : Is(f, Depth)
  <2>1. Depth \in A
    <3>. HIDE DEF A
    <3>. QED
      BY <1>1, <1>3, <1>4, StepByStep
  <2>. QED
    BY <2>1
<1>6. Meaning(env) = CHOOSE f : Is(f, Depth)
  BY DEF Meaning, Expressions
<1>. HIDE DEF Is
<1>7. Is(Meaning(env), Depth)
  BY <1>5, <1>6
<1>. QED
  BY <1>7 DEF Is, Expressions

-----------------------------------------------------------------------------
(* What is written means what was meant.                                      *)

Tokens ==
  {Sign(t) : t \in {"lparen", "rparen", "and", "or", "not"}}
  \cup {Ident(e[2]) : e \in Leaves} \cup {Op(e[3]) : e \in Leaves} \cup {Literal(e[4]) : e \in Leaves}

\* w is a condition that reads as m wherever an expression of kind k may stand.
Says(env, k, w, m) ==
  /\ w \in Seq(Tokens) /\ m \in BOOLEAN
  /\ AsOr(env, w, m)
  /\ k \in {"leaf", "flag", "not", "and"} => AsAnd(env, w, m)
  /\ k \in {"leaf", "flag", "not"} => AsNot(env, w, m)
  /\ k \in {"leaf", "flag"} => AsComparison(env, w, m)

Right(env, e) ==
  e[1] \in {"leaf", "flag", "not", "and", "or"} /\ Says(env, e[1], Written[e], Meaning(env)[e])

LEMMA SaysUpwards ==
  ASSUME NEW env, NEW k, NEW w \in Seq(Tokens), NEW m \in BOOLEAN
  PROVE  /\ AsComparison(env, w, m) => Says(env, k, w, m)
         /\ AsNot(env, w, m) /\ k \notin {"leaf", "flag"} => Says(env, k, w, m)
         /\ AsAnd(env, w, m) /\ k \notin {"leaf", "flag", "not"} => Says(env, k, w, m)
         /\ AsOr(env, w, m) /\ k \notin {"leaf", "flag", "not", "and"} => Says(env, k, w, m)
  BY ComparisonIsNot, NotIsAnd, AndIsOr DEF Says

\* Values of an environment are of the kinds the rules know.
Proper(env) ==
  \A path : LET v == GetByPath(env, path)
            IN  v[1] \in {"number", "boolean", "undefined"} /\ (v[1] = "boolean" => v[2] \in BOOLEAN)

LEMMA TruthOfLeaves ==
  ASSUME NEW env, Proper(env), NEW path
  PROVE  /\ Truthy(GetByPath(env, path)) \in BOOLEAN
         /\ \A v : \A op \in Comparisons : Compare(GetByPath(env, path), op, v) \in BOOLEAN
<1>1. Truthy(GetByPath(env, path)) \in BOOLEAN
  BY DEF Proper, Truthy
<1>2. ASSUME NEW v, NEW op \in Comparisons
      PROVE  Compare(GetByPath(env, path), op, v) \in BOOLEAN
  BY <1>2 DEF Compare, Comparisons
<1>. QED
  BY <1>1, <1>2

\* In parentheses where its kind is looser, an expression reads as a comparison; where
\* only `or` is looser, as a conjunct.
LEMMA InsideReads ==
  ASSUME NEW env, NEW x, Right(env, x)
  PROVE  /\ Inside(Written, x, {"not", "and", "or"}) \in Seq(Tokens)
         /\ AsComparison(env, Inside(Written, x, {"not", "and", "or"}), Meaning(env)[x])
         /\ Inside(Written, x, {"or"}) \in Seq(Tokens)
         /\ AsAnd(env, Inside(Written, x, {"or"}), Meaning(env)[x])
<1>. DEFINE w == Written[x]
            m == Meaning(env)[x]
<1>1. w \in Seq(Tokens) /\ m \in BOOLEAN /\ AsOr(env, w, m)
  BY DEF Right, Says
<1>2. Sign("lparen") \in Tokens /\ Sign("rparen") \in Tokens
  BY DEF Tokens
<1>3. x[1] \notin {"not", "and", "or"} => AsComparison(env, w, m)
  BY DEF Right, Says
<1>4. x[1] # "or" => AsAnd(env, w, m)
  BY DEF Right, Says
<1>. HIDE DEF w, m
<1>5. Parens(w) \in Seq(Tokens)
  BY <1>1, <1>2 DEF Parens
<1>6. AsComparison(env, Parens(w), m)
  BY <1>1, InParens
<1>7. AsAnd(env, Parens(w), m)
  BY <1>1, <1>6, ComparisonIsNot, NotIsAnd
<1>8. /\ Inside(Written, x, {"not", "and", "or"}) \in {Parens(w), w}
      /\ Inside(Written, x, {"or"}) \in {Parens(w), w}
  BY DEF Inside, w
<1>9. AsComparison(env, Inside(Written, x, {"not", "and", "or"}), m)
  BY <1>3, <1>6 DEF Inside, w
<1>10. AsAnd(env, Inside(Written, x, {"or"}), m)
  BY <1>4, <1>7 DEF Inside, w
<1>. QED
  BY <1>1, <1>5, <1>8, <1>9, <1>10 DEF m

LEMMA LeavesAreRight ==
  ASSUME NEW env, Proper(env), NEW e \in Leaves, e \in Expressions
  PROVE  Right(env, e)
<1>. DEFINE w == Written[e]
            m == Meaning(env)[e]
<1>1. w = Spelling(Written, e) /\ m = Truth(env, Meaning(env), e)
  BY Spelled, Meant
<1>. HIDE DEF w, m
<1>2. CASE e = <<"flag", e[2]>>
  <2>. PICK path : path = e[2]
    OBVIOUS
  <2>1. w = <<Ident(path)>> /\ m = Truthy(GetByPath(env, path)) /\ e[1] = "flag"
    <3>1. e[1] = "flag"
      BY <1>2
    <3>. QED
      BY <1>1, <3>1 DEF Spelling, Truth
  <2>2. w \in Seq(Tokens) /\ m \in BOOLEAN
    <3>1. Ident(path) \in Tokens
      BY DEF Tokens
    <3>. QED
      BY <2>1, <3>1, TruthOfLeaves
  <2>3. AsComparison(env, w, m)
    BY <2>1, FlagIs
  <2>. QED
    BY <2>1, <2>2, <2>3, SaysUpwards DEF Right, w, m
<1>3. CASE e = <<"leaf", e[2], e[3], e[4]>> /\ e[3] \in Comparisons
  <2>. PICK path, op, v : path = e[2] /\ op = e[3] /\ v = e[4]
    OBVIOUS
  <2>1. /\ w = <<Ident(path), Op(op), Literal(v)>>
        /\ m = Compare(GetByPath(env, path), op, v) /\ e[1] = "leaf"
    <3>1. e[1] = "leaf"
      BY <1>3
    <3>. QED
      BY <1>1, <3>1 DEF Spelling, Truth
  <2>2. w \in Seq(Tokens) /\ m \in BOOLEAN
    <3>1. {Ident(path), Op(op), Literal(v)} \subseteq Tokens
      BY DEF Tokens
    <3>. QED
      BY <1>3, <2>1, <3>1, TruthOfLeaves
  <2>3. AsComparison(env, w, m)
    BY <2>1, LeafIs
  <2>. QED
    BY <2>1, <2>2, <2>3, SaysUpwards DEF Right, w, m
<1>. QED
  BY <1>2, <1>3, PolicyAssumption DEF IsLeaf

LEMMA NotIsRight ==
  ASSUME NEW env, NEW x, Right(env, x), NEW e \in Expressions, e = Not(x)
  PROVE  Right(env, e)
<1>. DEFINE w == Written[e]
            m == Meaning(env)[e]
            u == Inside(Written, x, {"not", "and", "or"})
            a == Meaning(env)[x]
<1>1. e[1] = "not" /\ w = <<Sign("not")>> \o u /\ m = ~a
  <2>1. w = Spelling(Written, e) /\ m = Truth(env, Meaning(env), e)
    BY Spelled, Meant
  <2>. QED
    BY <2>1 DEF Spelling, Truth, Not
<1>2. u \in Seq(Tokens) /\ AsComparison(env, u, a) /\ a \in BOOLEAN
  BY InsideReads DEF Right, Says
<1>. HIDE DEF w, m, u, a
<1>3. Sign("not") \in Tokens
  BY DEF Tokens
<1>4. m \in BOOLEAN /\ (m <=> ~a) /\ w \in Seq(Tokens)
  <2>1. w \in Seq(Tokens)
    BY <1>1, <1>2, <1>3
  <2>2. m \in BOOLEAN /\ (m <=> ~a)
    BY <1>1, <1>2, Zenon
  <2>. QED
    BY <2>1, <2>2
<1>5. AsNot(env, w, m)
  BY <1>1, <1>2, <1>3, <1>4, NotOf
<1>. QED
  BY <1>1, <1>4, <1>5, SaysUpwards DEF Right, w, m

LEMMA AndIsRight ==
  ASSUME NEW env, NEW x, NEW y, Right(env, x), Right(env, y), NEW e \in Expressions, e = And(x, y)
  PROVE  Right(env, e)
<1>. DEFINE w == Written[e]
            m == Meaning(env)[e]
            u == Inside(Written, x, {"or"})
            v == Inside(Written, y, {"or"})
            a == Meaning(env)[x]
            b == Meaning(env)[y]
<1>1. e[1] = "and" /\ w = u \o <<Sign("and")>> \o v /\ m = (a /\ b)
  <2>1. w = Spelling(Written, e) /\ m = Truth(env, Meaning(env), e)
    BY Spelled, Meant
  <2>. QED
    BY <2>1 DEF Spelling, Truth, And
<1>2. /\ u \in Seq(Tokens) /\ AsAnd(env, u, a) /\ a \in BOOLEAN
      /\ v \in Seq(Tokens) /\ AsAnd(env, v, b) /\ b \in BOOLEAN
  BY InsideReads DEF Right, Says
<1>. HIDE DEF w, m, u, v, a, b
<1>3. Sign("and") \in Tokens
  BY DEF Tokens
<1>4. m \in BOOLEAN /\ (m <=> (a /\ b)) /\ w \in Seq(Tokens)
  BY <1>1, <1>2, <1>3
<1>5. AsAnd(env, w, m)
  BY <1>1, <1>2, <1>3, <1>4, AndOf
<1>. QED
  BY <1>1, <1>4, <1>5, SaysUpwards DEF Right, w, m

LEMMA OrIsRight ==
  ASSUME NEW env, NEW x, NEW y, Right(env, x), Right(env, y), NEW e \in Expressions, e = Or(x, y)
  PROVE  Right(env, e)
<1>. DEFINE w == Written[e]
            m == Meaning(env)[e]
            u == Written[x]
            v == Written[y]
            a == Meaning(env)[x]
            b == Meaning(env)[y]
<1>1. e[1] = "or" /\ w = u \o <<Sign("or")>> \o v /\ m = (a \/ b)
  <2>1. w = Spelling(Written, e) /\ m = Truth(env, Meaning(env), e)
    BY Spelled, Meant
  <2>. QED
    BY <2>1 DEF Spelling, Truth, Or
<1>2. /\ u \in Seq(Tokens) /\ AsOr(env, u, a) /\ a \in BOOLEAN
      /\ v \in Seq(Tokens) /\ AsOr(env, v, b) /\ b \in BOOLEAN
  BY DEF Right, Says
<1>. HIDE DEF w, m, u, v, a, b
<1>3. Sign("or") \in Tokens
  BY DEF Tokens
<1>4. m \in BOOLEAN /\ (m <=> (a \/ b)) /\ w \in Seq(Tokens)
  BY <1>1, <1>2, <1>3
<1>5. AsOr(env, w, m)
  BY <1>1, <1>2, <1>3, <1>4, OrOf
<1>. QED
  BY <1>1, <1>4, <1>5, SaysUpwards DEF Right, w, m

LEMMA AllRight ==
  ASSUME NEW env, Proper(env)
  PROVE  \A e \in Expressions : Right(env, e)
<1>. DEFINE A == {d \in 0 .. Depth : \A e \in Nested[d] : e \in Expressions => Right(env, e)}
<1>1. Depth \in Nat /\ 0 \in 0 .. Depth /\ Nested[0] = Leaves
  BY PolicyAssumption, Levels
<1>2. 0 \in A
  BY <1>1, LeavesAreRight
<1>3. ASSUME NEW d \in 0 .. Depth - 1, d \in A PROVE d + 1 \in A
  <2>1. /\ d + 1 \in 0 .. Depth /\ d + 1 # 0 /\ (d + 1) - 1 = d
    BY <1>1
  <2>2. \A x \in Nested[d] : x \in Expressions
    <3>. DEFINE B == {k \in 0 .. Depth - d : Nested[d] \subseteq Nested[d + k]}
    <3>1. Depth - d \in Nat /\ 0 \in 0 .. Depth - d /\ d + 0 = d /\ d + (Depth - d) = Depth
      BY <1>1
    <3>2. 0 \in B
      BY <3>1
    <3>3. ASSUME NEW k \in 0 .. (Depth - d) - 1, k \in B PROVE k + 1 \in B
      <4>. PICK i, j : i = d + k /\ j = d + (k + 1)
        OBVIOUS
      <4>1. j \in 0 .. Depth /\ j # 0 /\ j - 1 = i /\ k + 1 \in 0 .. Depth - d
        BY <1>1
      <4>2. Nested[j] = Deeper(Nested[i])
        BY <4>1, Levels
      <4>3. Nested[i] \subseteq Nested[j]
        BY <4>2 DEF Deeper
      <4>4. Nested[d] \subseteq Nested[i]
        BY <3>3
      <4>. QED
        BY <4>1, <4>3, <4>4
    <3>4. Depth - d \in B
      <4>. HIDE DEF B
      <4>. QED
        BY <3>1, <3>2, <3>3, StepByStep
    <3>. QED
      BY <3>1, <3>4 DEF Expressions
  <2>3. ASSUME NEW e \in Nested[d + 1], e \in Expressions PROVE Right(env, e)
    <3>1. IsMade(e, Nested[d])
      BY <2>1, AllMade
    <3>2. \A x \in Nested[d] : Right(env, x)
      BY <1>3, <2>2
    <3>3. CASE e \in Leaves
      BY <2>3, <3>3, LeavesAreRight
    <3>4. ASSUME NEW x \in Nested[d], e = Not(x) PROVE Right(env, e)
      BY <2>3, <3>2, <3>4, NotIsRight
    <3>5. ASSUME NEW x \in Nested[d], NEW y \in Nested[d], e = And(x, y) PROVE Right(env, e)
      BY <2>3, <3>2, <3>5, AndIsRight
    <3>6. ASSUME NEW x \in Nested[d], NEW y \in Nested[d], e = Or(x, y) PROVE Right(env, e)
      BY <2>3, <3>2, <3>6, OrIsRight
    <3>. QED
      BY <3>1, <3>3, <3>4, <3>5, <3>6 DEF IsMade
  <2>. QED
    BY <2>1, <2>3
<1>4. Depth \in A
  <2>. HIDE DEF A
  <2>. QED
    BY <1>1, <1>2, <1>3, StepByStep
<1>. QED
  BY <1>4 DEF Expressions

\* A condition that reads as m evaluates to m.
LEMMA Evaluates ==
  ASSUME NEW env, NEW w \in Seq(Tokens), NEW m \in BOOLEAN, AsOr(env, w, m)
  PROVE  EvaluateCondition(w, env) = m
<1>. DEFINE P == Parser(w, env)
<1>1. PICK q : q = 1 + Len(w)
  OBVIOUS
<1>2. Len(w) \in Nat /\ q \in Nat /\ 1 \in Nat /\ \A i \in 1 .. Len(w) : 1 + i - 1 = i /\ i <= Len(w)
  BY <1>1
<1>3. Peek(w, q).type = "eof"
  BY <1>1, <1>2 DEF Peek, Sign
<1>4. Stands(w, 1, w, q, {"op", "and"})
  BY <1>1, <1>2, <1>3 DEF Stands, Peek
<1>5. P[<<"orExpr", 1>>] = OrElse(Result(m, q), P[<<"orRest", q>>])
  BY <1>4 DEF AsOr
<1>6. PICK no \in BOOLEAN : ~no
  OBVIOUS
<1>7. P[<<"orRest", q>>] = Result(no, q)
  <2>1. Method(w, env, P, "orRest", q) = Result(no, q)
    BY <1>3, <1>6, OrEnds
  <2>. QED
    <3>1. "orRest" \in Nonterminals
      BY DEF Nonterminals
    <3>. QED
      BY <1>2, <2>1, <3>1, Calling
<1>8. OrElse(Result(m, q), Result(no, q)).val = m
  BY <1>6 DEF OrElse, Result
<1>. QED
  BY <1>5, <1>7, <1>8 DEF EvaluateCondition, Parse

LEMMA EnvironmentIsProper ==
  ASSUME TypesOK
  PROVE  Proper(Environment(ctx))
<1>1. ctx.simulationOk \in BOOLEAN
  BY DEF TypesOK, IsContext
<1>2. \A n : Optional(n) = Undefined \/ Optional(n) = Num(n)
  BY DEF Optional
<1>3. ASSUME NEW path
      PROVE  GetByPath(Environment(ctx), path) \in
               {Undefined, Bool(ctx.simulationOk), Num(ctx.amountUsd), Num(ctx.liquidity)}
  BY <1>2 DEF GetByPath, Environment
<1>. QED
  BY <1>1, <1>3 DEF Proper, Undefined, Bool, Num

\* A condition, however deep, means what its author wrote (rules.ts, the parser).
THEOREM RulesTheorem == Spec => []RulesMeanWhatTheySay
<1>1. TypesOK => RulesMeanWhatTheySay
  <2>. SUFFICES ASSUME TypesOK, NEW e \in Expressions
                PROVE  EvaluateCondition(Written[e], Environment(ctx)) = Meaning(Environment(ctx))[e]
    BY DEF RulesMeanWhatTheySay
  <2>1. Right(Environment(ctx), e)
    BY AllRight, EnvironmentIsProper
  <2>. QED
    BY <2>1, Evaluates DEF Right, Says
<1>. QED
  BY <1>1, TypesTheorem, PTL
=============================================================================
