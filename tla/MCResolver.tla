----------------------------- MODULE MCResolver -----------------------------
EXTENDS Resolver

It(id, pair, slip, deps) ==
  [id |-> id, chain |-> "solana", type |-> "swap_exact_in", pair |-> pair, slippage |-> slip, dependsOn |-> deps]
Odd(id) == [It(id, "SOL/USDC", 50, {}) EXCEPT !.type = "stake"]

NoJob == [kind |-> "none", intents |-> <<>>]
Refresh == [kind |-> "refresh", intents |-> <<>>]
Resolves(kind, intents) == [kind |-> kind, intents |-> intents]

A == It("a", "SOL/USDC", 50, {})
B == It("b", "SOL/USDC", 50, {"a"})
C == It("c", "SOL/USDC", 100, {})

Work(f, g, h) == [p \in Procs |-> CASE p = "p" -> f [] p = "q" -> g [] OTHER -> h]

Quote(out, min) == [out |-> out, minOut |-> min]
Few == [v \in Pools |-> IF v = "meteora" THEN {Quote(1000, None)} ELSE {}]
Many == [v \in Pools |-> IF v = "meteora" THEN {Quote(1000, None), Quote(1010, None)}
                         ELSE {Quote(1003, None), Quote(1020, 990)}]

Situation(w, period, keypair, offers, failures) ==
  [work |-> w, period |-> period, keypair |-> keypair, offers |-> offers, failures |-> failures]

MCSetups ==
  { \* the same swap resolved by two requests side by side, twice by one of them
    Situation(Work(Resolves("resolve_v0", <<A>>), Resolves("resolve_v0", <<B, C>>), NoJob),
              0, TRUE, Few, {"fail"}),
    \* a request long enough to see a venue's history, and the same in run_v0
    Situation(Work(Resolves("resolve_v0", <<A, C, Odd("d")>>), NoJob, NoJob),
              0, TRUE, Many, {"429", "fail"}),
    Situation(Work(Resolves("run_v0", <<A, B>>), NoJob, NoJob), 0, TRUE, Few, {"timeout", "fail"}),
    \* a paced request, refused at the configured address
    Situation(Work(Resolves("resolve_v0", <<A, C>>), NoJob, NoJob), 2, TRUE, Few, {"5xx", "401"}),
    \* no key file
    Situation(Work(Resolves("run_v0", <<A>>), Resolves("resolve_v0", <<B>>), NoJob),
              0, FALSE, Few, {"fail"}),
    \* three requests for a blockhash
    Situation(Work(Refresh, Refresh, Refresh), 0, TRUE, Few, {"fail"}) }
==============================================================================
