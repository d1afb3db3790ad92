------------------------------ MODULE MCPolicy ------------------------------
(* Finite instances of PolicyEngine: at most two gates are on, every limit   *)
(* is 1, and the contexts hold a value on either side of each limit.         *)
EXTENDS PolicyEngine, FiniteSetsExt, TLC

MCLeaves == {Leaf("liquidity", "<", Num(1)), Flag("simulationOk")}
MCHuge == 9

MCLoosest == [enabled |-> TRUE, requireSimulation |-> FALSE, requireSimulatedSlippage |-> FALSE,
              actions |-> {}, programs |-> {}, cooldownSeconds |-> None, maxTxPerMinute |-> None,
              maxSingleSol |-> None, maxSingleUsd |-> MCHuge, maxSlippage |-> MCHuge, rules |-> <<>>]

Rule(tokens, a) == [condition |-> tokens, action |-> a]
LowLiquidity == <<Ident("liquidity"), Op("<"), Literal(Num(1))>>
AnyAmount    == <<Ident("amountUsd"), Op(">"), Literal(Num(0))>>
NotSimulated == <<Sign("not"), Ident("simulationOk")>>
Rules == {Rule(LowLiquidity, "allow"), Rule(LowLiquidity, "warn"), Rule(LowLiquidity, "block"),
          Rule(NotSimulated, "confirm")}

MCSettings ==
  [enabled |-> {FALSE}, requireSimulation |-> {TRUE}, requireSimulatedSlippage |-> {TRUE},
   actions |-> {{"swap"}, {"transfer"}}, programs |-> {{"p"}, {"p", "q"}},
   cooldownSeconds |-> {1}, maxTxPerMinute |-> {1}, maxSingleSol |-> {1}, maxSingleUsd |-> {1},
   maxSlippage |-> {1},
   rules |-> {<<r>> : r \in Rules} \cup {<<Rule(LowLiquidity, "warn"), Rule(AnyAmount, "block")>>}]

Situations == {<<"solana", "mainnet", "swap", TRUE>>, <<"solana", "testnet", "swap", FALSE>>,
               <<"evm", "mainnet", "transfer", TRUE>>}

Rates     == {<<1, 0>>, <<0, 0>>, <<1, 1>>}              \* seconds since the last, last minute
Sums      == {<<None, None>>, <<2, None>>, <<None, 2>>}  \* in SOL, in USD
Slippages == {<<2, None>>, <<2, 0>>, <<None, 2>>}        \* requested, simulated

AllContexts ==
  {[chain |-> s[1], network |-> s[2], action |-> s[3], broadcast |-> s[4],
    simulationOk |-> k, programs |-> p, secondsSinceLast |-> t[1], lastMinute |-> t[2],
    amountSol |-> a[1], amountUsd |-> a[2], slippage |-> l[1], simulatedSlippage |-> l[2],
    liquidity |-> q] :
     s \in Situations, k \in BOOLEAN, p \in {None, {"p"}, {"q"}}, t \in Rates,
     a \in Sums, l \in Slippages, q \in {None, 0}}

\* Programs and simulated slippage are looked up for Solana only.
MCContexts ==
  {x \in AllContexts : x.chain = "evm" => x.programs = None /\ x.simulatedSlippage = None}
=============================================================================
