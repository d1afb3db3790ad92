------------------------------ MODULE MCRunner ------------------------------
(* Finite instances of Runner.                                               *)
EXTENDS Runner, TLC

CONSTANTS p1, p2
MCProcs == {p1, p2}
OneProc == {p1}
Symmetry == Permutations(MCProcs)

Loose == [enabled |-> TRUE, requireSimulation |-> FALSE, requireSimulatedSlippage |-> FALSE,
          actions |-> {}, programs |-> {}, cooldownSeconds |-> None, maxTxPerMinute |-> None,
          maxSingleSol |-> None, maxSingleUsd |-> 9, maxSlippage |-> 9, rules |-> <<>>]

\* Simulation, spacing and a small limit; a rate, small limits and the programs.
Careful == [Loose EXCEPT !.requireSimulation = TRUE, !.cooldownSeconds = 1, !.maxSingleUsd = 1]
Slow    == [Loose EXCEPT !.maxTxPerMinute = 2, !.maxSingleUsd = 1, !.maxSingleSol = 1,
                          !.maxSlippage = 1, !.programs = {"p"}]

Do(tools) == [approval |-> FALSE, required |-> FALSE, when |-> None, conditions |-> {},
              actions |-> tools]
Approve(conditions) == [Do(<<>>) EXCEPT !.approval = TRUE, !.required = TRUE, !.conditions = conditions]
When(c, stage) == [stage EXCEPT !.when = c]

\* workflows/solana_swap_exact_in.yaml
Swap == <<Do(<<"quote", "buildSwap">>), Do(<<"simulate">>), Approve({"simulated"}),
          Do(<<"send", "confirm">>)>>
\* workflows/solana_transfer.yaml, once and twice
Send == Do(<<"buildTransfer", "simulate", "send">>)
Transfers == <<Send, Send>>
\* A transfer after a quote that has nothing to do with it.
Transfer == <<Do(<<"quote", "buildTransfer", "send">>)>>
\* A swap or a deposit that an adapter builds
ByAdapter == <<Do(<<"buildByAdapter", "send">>)>>
\* Transfers without the second simulation.
Careless == <<Send, Do(<<"buildTransfer", "send">>)>>
\* A stage that depends on the simulation, and a stage for approval that asks nobody.
Conditional == <<Do(<<"buildByAdapter", "simulate">>),
                 [When("simulated", Do(<<"send">>)) EXCEPT !.approval = TRUE],
                 When("notFailed", Do(<<"send">>))>>

From(flow, coins, flavour, policy, approver) ==
  [flow |-> flow, sums |-> [coin: coins, size: {2}], flavour |-> flavour, policy |-> policy, approver |-> approver]
MCStarts == {From(Transfers, {"usd"}, "runner", Careful, FALSE),
             From(<<Send>>, {"usd"}, "run", Careful, TRUE),
             From(Transfer, {"sol", "other"}, "run", Slow, TRUE),
             From(Swap, {"sol"}, "run", Slow, TRUE),
             From(ByAdapter, {"usd"}, "run", Slow, TRUE),
             From(Conditional, {}, "runner", Careful, TRUE),
             From(Conditional, {}, "run", None, FALSE)}
CarelessStarts == {From(Careless, {"usd"}, "runner", Careful, FALSE)}
MCEndpoints == <<"mainnet", "testnet">>
=============================================================================
