---------------------------- MODULE PolicyEngine ----------------------------
(***************************************************************************)
(* The policy as its operator and its callers meet it.  The state is a     *)
(* configuration and a context to decide about; a step changes one of them *)
(* in one place.  decide keeps no state: its answer is a function of the   *)
(* two.                                                                    *)
(***************************************************************************)
EXTENDS PolicyGates, FiniteSets

CONSTANTS
  Leaves,     \* the comparisons and flags that the rules of an instance are made of
  Depth,      \* bound: how deep conditions nest
  Contexts,   \* what an instance asks about
  Loosest,    \* a configuration with every gate off
  Settings,   \* the values that each field of a configuration may get
  MaxGates,   \* bound: how many of them are set
  Huge        \* a limit that nothing exceeds

Limit == Int \cup {None}
Limits == {"cooldownSeconds", "maxTxPerMinute", "maxSingleSol"}   \* the optional ones
Fields == Limits \cup {"enabled", "requireSimulation", "requireSimulatedSlippage", "actions",
                      "programs", "maxSingleUsd", "maxSlippage", "rules"}
Facts == {"chain", "network", "action", "broadcast", "simulationOk", "programs"}
Amounts == {"amountSol", "amountUsd", "slippage", "simulatedSlippage", "secondsSinceLast", "lastMinute"}

IsConfig(c) ==
  /\ c = [f \in Fields |-> c[f]]
  /\ \A f \in Limits : c[f] \in Limit
  /\ c.maxSingleUsd \in Int /\ c.maxSlippage \in Int
  /\ Len(c.rules) \in Nat /\ DOMAIN c.rules = 1 .. Len(c.rules)

\* No amount in a context exceeds Huge.
IsContext(x) ==
  /\ x = [f \in DOMAIN x |-> x[f]] /\ Facts \cup Amounts \subseteq DOMAIN x
  /\ \A f \in Amounts : x[f] \in Limit
  /\ \A f \in {"amountUsd", "slippage", "simulatedSlippage"} : x[f] # None => x[f] <= Huge
  /\ x.simulationOk \in BOOLEAN

Comparisons == {"==", "!=", ">", ">=", "<", "<="}
IsLeaf(e) == \/ e = <<"flag", e[2]>>
             \/ e = <<"leaf", e[2], e[3], e[4]>> /\ e[3] \in Comparisons

ASSUME PolicyAssumption ==
  /\ Huge \in Int /\ None \notin Int
  /\ IsConfig(Loosest) /\ \A x \in Contexts : IsContext(x)
  /\ Depth \in Nat /\ \A e \in Leaves : IsLeaf(e)
  /\ DOMAIN Settings \subseteq Fields
  /\ \A f \in DOMAIN Settings : \A v \in Settings[f] : IsConfig([Loosest EXCEPT ![f] = v])

VARIABLES config, ctx
vars == <<config, ctx>>

Answer == Decide(config, ctx)

-----------------------------------------------------------------------------
(* The steps: the operator edits policy.yaml to allow less, or a caller     *)
(* knows less of the transaction it asks about.                             *)

\* An allow-list shrinks, but not to nothing, which would allow everything.
Shrinks(old, new) == old # new /\ new # {} /\ (old = {} \/ new \subseteq old)

\* An optional limit gets lower, or appears.
Lowers(old, new) == new # None /\ new > 0 /\ (old # None => new < old)

\* A waiting time gets longer, or appears.
Lengthens(old, new) == new # None /\ new > 0 /\ (old # None => new > old)

StricterField(f, old, new) ==
  CASE f = "enabled"                  -> old /\ ~new
    [] f = "requireSimulation"        -> ~old /\ new
    [] f = "requireSimulatedSlippage" -> ~old /\ new
    [] f \in {"actions", "programs"}  -> Shrinks(old, new)
    [] f = "cooldownSeconds"          -> Lengthens(old, new)
    [] f \in {"maxTxPerMinute", "maxSingleSol", "maxSingleUsd", "maxSlippage"} -> Lowers(old, new)
    \* a rule is added behind the others
    [] f = "rules" -> Len(new) = Len(old) + 1 /\ \A i \in DOMAIN old : new[i] = old[i]

Tighten(f, v) ==
  /\ StricterField(f, config[f], v)
  /\ config' = [config EXCEPT ![f] = v]
  /\ Cardinality({g \in DOMAIN config : config'[g] # Loosest[g]}) <= MaxGates
  /\ UNCHANGED ctx

\* What a caller leaves out when a look-up fails: the result of the simulation,
\* the programs of the transaction, the slippage of the simulation.
Unknown(f) ==
  CASE f = "simulationOk" -> FALSE
    [] f \in {"programs", "simulatedSlippage"} -> None

Forget(f) ==
  /\ ctx[f] # Unknown(f)
  /\ ctx' = [ctx EXCEPT ![f] = Unknown(f)]
  /\ UNCHANGED config

Init == config = Loosest /\ ctx \in Contexts

Next == \/ \E f \in DOMAIN Settings : \E v \in Settings[f] : Tighten(f, v)
        \/ \E f \in {"simulationOk", "programs", "simulatedSlippage"} : Forget(f)

Spec == Init /\ [][Next]_vars

-----------------------------------------------------------------------------
(* What the author of a rule means: expressions, their usual meaning, and   *)
(* how they are written down with as few parentheses as the precedences     *)
(* allow.                                                                   *)

Leaf(path, op, v) == <<"leaf", path, op, v>>
Flag(path)        == <<"flag", path>>
Not(e)            == <<"not", e>>
And(e, f)         == <<"and", e, f>>
Or(e, f)          == <<"or", e, f>>

Deeper(E) == E \cup {Not(e) : e \in E} \cup {And(e, f) : e, f \in E} \cup {Or(e, f) : e, f \in E}
Nested[d \in 0 .. Depth] == IF d = 0 THEN Leaves ELSE Deeper(Nested[d - 1])
Expressions == Nested[Depth]

\* The truth of an expression, where M is that of the expressions in it.
Truth(env, M, e) ==
  CASE e[1] = "leaf" -> Compare(GetByPath(env, e[2]), e[3], e[4])
    [] e[1] = "flag" -> Truthy(GetByPath(env, e[2]))
    [] e[1] = "not"  -> ~M[e[2]]
    [] e[1] = "and"  -> M[e[2]] /\ M[e[3]]
    [] e[1] = "or"   -> M[e[2]] \/ M[e[3]]

Meaning(env) == LET M[e \in Expressions] == Truth(env, M, e) IN M

Parens(tokens) == <<Sign("lparen")>> \o tokens \o <<Sign("rparen")>>

\* An expression inside another, in parentheses if it binds less.
Inside(W, e, looser) == IF e[1] \in looser THEN Parens(W[e]) ELSE W[e]

\* The condition that is written for an expression.
Spelling(W, e) ==
  CASE e[1] = "leaf" -> <<Ident(e[2]), Op(e[3]), Literal(e[4])>>
    [] e[1] = "flag" -> <<Ident(e[2])>>
    [] e[1] = "not"  -> <<Sign("not")>> \o Inside(W, e[2], {"not", "and", "or"})
    [] e[1] = "and"  -> Inside(W, e[2], {"or"}) \o <<Sign("and")>> \o Inside(W, e[3], {"or"})
    [] e[1] = "or"   -> W[e[2]] \o <<Sign("or")>> \o W[e[3]]

Written == LET W[e \in Expressions] == Spelling(W, e) IN W

-----------------------------------------------------------------------------
(* Properties.                                                              *)

\* A stricter policy never lets through what the policy it replaces stopped or asked
\* about, although the gates answer in a fixed order and may hide one another:
\* tightening one may turn a block into a confirm, never into an allow or a warn.
StricterNeverPermits ==
  [][config' # config => (Permits(Answer') => Permits(Answer))]_vars

\* The policy demands to know f of what it decides about.
Demands(c, x, f) ==
  CASE f = "simulationOk" -> x.network = "mainnet" /\ x.broadcast /\ c.requireSimulation
    [] f = "programs" -> x.chain = "solana" /\ c.programs # {}
    [] f = "simulatedSlippage" ->
         /\ c.requireSimulatedSlippage /\ x.chain = "solana" /\ x.network = "mainnet"
         /\ x.broadcast /\ x.action = "swap"

\* A look-up that fails never helps a transaction past a policy that demands its result.
UnknownNeverHelps ==
  [][\A f \in {"simulationOk", "programs", "simulatedSlippage"} :
       ctx'[f] # ctx[f] /\ Demands(config, ctx, f) => ~Permits(Answer')]_vars

\* The policy without its limits on size and slippage and without rules; and such a
\* policy that does not ask for simulated slippage either.
Unlimited(c) ==
  [c EXCEPT !.maxSingleSol = None, !.maxSingleUsd = Huge, !.maxSlippage = Huge, !.rules = <<>>]
Undemanding(c) == [Unlimited(c) EXCEPT !.requireSimulatedSlippage = FALSE]

\* What the user's yes waives.  No confirmation and no warning stands for a gate on the
\* network, the simulation, the allow-lists or the rate.  A question about slippage or of
\* a rule does not stand for the demand for simulated slippage either, and a warning not
\* for any limit.  A question about an amount, however, is asked before that demand, and
\* a question about a limit before all rules: the yes waives those, blocks among them.
ConfirmWaives ==
  /\ Answer \in {"confirm", "warn"} => Decide(Undemanding(config), ctx) = "allow"
  /\ Answer \in {"confirm", "warn"} /\ ~AmountLarge(config, ctx) =>
       Decide(Unlimited(config), ctx) = "allow"
  /\ Answer = "warn" => Decide([config EXCEPT !.rules = <<>>], ctx) = "allow"

\* Every condition means what its author wrote, whatever values are missing: the
\* parser reads all of it and binds not, and, or in this order.  The configuration
\* does not matter, so one is enough.
RulesMeanWhatTheySay ==
  config = Loosest =>
    LET env == Environment(ctx) means == Meaning(env)
    IN \A e \in Expressions : EvaluateCondition(Written[e], env) = means[e]
=============================================================================
