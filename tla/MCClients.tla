----------------------------- MODULE MCClients -----------------------------
(* Three programs beside the workflow engine, which share no state: the plan *)
(* runner, the MCP server and the daemon's Meteora monitor.  A behaviour is  *)
(* one of one of them, the others stay in an initial state.                  *)
EXTENDS PlanRunner, McpHost, Monitor, TLC

MCOrder == <<"b", "balance_after", "balance_before", "o", "q", "q1", "q2", "x", "x1", "x2">>

A(id, tool, deps) ==
  [id |-> id, tool |-> tool, dependsOn |-> deps, quoteId |-> None,
   confirm |-> IF tool = SwapExec THEN "I_CONFIRM" ELSE None]
Exec(id, quoteId, deps) == [A(id, SwapExec, deps) EXCEPT !.quoteId = quoteId]

NoJob == [workflow |-> <<>>, dryRun |-> FALSE]
Runs(w) == [workflow |-> w, dryRun |-> FALSE]
Situation(first, second, phrase, maxTime, maxCrashes) ==
  [jobs |-> [p \in Procs |-> IF p = 1 THEN first ELSE second], phrase |-> phrase,
   maxTime |-> maxTime, maxCrashes |-> maxCrashes]
Alone(w) == Situation(Runs(w), NoJob, "I_CONFIRM", 0, 0)

(* Every way a balance, a quote and an execution may depend on one another. *)
Family ==
  {<<A(b, Balance, db), A("q", SwapQuote, dq), A("x", SwapExec, dx)>> \o after :
     b \in {"b", Before}, db \in {<<>>, <<"q">>, <<"x">>, <<"q", "q">>},
     dq \in {<<>>, <<"b">>, <<Before>>, <<"x">>, <<Before, Before>>},
     dx \in {<<>>, <<"q">>, <<"q", "b">>, <<"x", "q">>},
     after \in {<<>>, <<A(After, Balance, <<>>)>>, <<A(After, SwapQuote, <<"q">>)>>}}

QX == <<A("q", SwapQuote, <<>>), A("x", SwapExec, <<"q">>)>>
Odd ==
  { <<A("q", SwapQuote, <<>>), A("q", Balance, <<>>)>>,
    <<A("o", "w3rt_stake", <<>>)>>,
    <<A("q", SwapQuote, <<>>), [A("x", SwapExec, <<"q">>) EXCEPT !.confirm = "yes"]>>,
    <<A("b", Balance, <<>>), A("x", SwapExec, <<"q">>), A("q", SwapQuote, <<"b">>)>>,
    <<A("q", SwapQuote, <<>>), A("x", SwapExec, <<"q", After>>), A(After, Balance, <<>>)>>,
    <<A(Before, Balance, <<After>>), A("q", SwapQuote, <<>>), A("x", SwapExec, <<"q">>), A(After, Balance, <<>>)>>,
    <<A("q", SwapQuote, <<>>), A(After, SwapExec, <<"q">>)>>,
    <<A("q1", SwapQuote, <<>>), A("q2", SwapQuote, <<>>),
      A("x1", SwapExec, <<"q1">>), A("x2", SwapExec, <<"q2">>)>> }

DryRun == Situation([workflow |-> QX, dryRun |-> TRUE], NoJob, "I_CONFIRM", 0, 0)
MCSetups ==
  {Alone(w) : w \in Family \cup Odd}
  \cup { \* a dry run, a phrase of one's own, quotes that expire
    DryRun,
    Situation(Runs(QX), NoJob, "yes", 0, 0),
    Situation(Runs(QX), NoJob, "I_CONFIRM", 2, 1),
    \* two runs that share the file
    Situation(Runs(QX), Runs(QX), "I_CONFIRM", 2, 1),
    \* the second run executes the first one's quote again
    Situation(Runs(QX), Runs(<<A("q", SwapQuote, <<>>), Exec("x", 1, <<"q">>)>>), "I_CONFIRM", 1, 1) }

Limits(key, most) == [key |-> key, maxSlippage |-> most, maxSol |-> most, maxUsdc |-> most]
MCConfigs == {Limits(TRUE, 2), Limits(TRUE, 1), Limits(FALSE, 1)}
MCAsks ==
  { [token |-> "SOL", amount |-> 2, slippage |-> 0, fallback |-> "omitted"],
    [token |-> "USDC", amount |-> 1, slippage |-> 2, fallback |-> "no"] }

ViewersAlike == Permutations(Viewers)

VARIABLE part    \* the program whose behaviour this is

ClientsInit ==
  /\ Init /\ HostInit /\ MonitorInit
  /\ part \in {"plan", "host", "monitor"}
  /\ part # "plan" => setup = DryRun
  /\ part # "host" => config = Limits(TRUE, 2)

ClientsNext ==
  \/ part = "plan" /\ Next /\ UNCHANGED <<hvars, mvars, part>>
  \/ part = "host" /\ HostNext /\ UNCHANGED <<vars, mvars, part>>
  \/ part = "monitor" /\ MonitorNext /\ UNCHANGED <<vars, hvars, part>>

(* Which states of the monitor are alike for the properties.  What was earned *)
(* is looked up for the beginnings of windows only, and of an answer that was  *)
(* given only whether it is news.  Once refreshes have overlapped,             *)
(* FeesOfTheWindow asks nothing: what matters from then on are the times of    *)
(* snapshots and which pools get one.                                          *)
Given(v) == refresh[v].pc \in {"done", "failed"}
Answered(f) ==
  IF f \in Viewers /\ Given(f) THEN \E a \in DOMAIN refresh[f].page : refresh[f].page[a] > 0
  ELSE refresh[f]
Brought(f) ==
  LET page == refresh[f].page
  IN  IF Given(f) THEN <<>>
      ELSE <<refresh[f].pc, refresh[f].now, DOMAIN page, {a \in DOMAIN page : page[a] = NaN}>>
FeesSeen ==
  <<earned, hist, silent, gaps, [t \in 0 .. MaxClock - Window |-> past[t]],
    [f \in Viewers \cup Timers |-> Answered(f)]>>
Times ==
  <<[a \in Addresses |-> [i \in DOMAIN hist[a] |-> hist[a][i].ts]],
    [f \in Viewers \cup Timers |-> Brought(f)]>>
ClientsView ==
  <<vars, hvars, part, clock, catalog, stamp, started, bot, odd, raced,
    IF raced THEN Times ELSE FeesSeen>>

ClientsSpec == ClientsInit /\ [][ClientsNext]_<<vars, hvars, mvars, part>>
==============================================================================
