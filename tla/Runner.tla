------------------------------- MODULE Runner -------------------------------
(***************************************************************************)
(* Processes that run a workflow from the command line.  There are two     *)
(* flavours of them,                                                       *)
(*                                                                         *)
(*   "run"     packages/runtime/src/run.ts, with its own engine,           *)
(*   "runner"  packages/runtime/src/runner.ts over the WorkflowEngine of   *)
(*             packages/workflow and the tools of tools/solana.ts.         *)
(*                                                                         *)
(* Both execute the stages of a workflow one after the other, ask the      *)
(* policy before a tool that broadcasts, and share two files of the w3rt   *)
(* directory: policy_broadcast_history.json, behind cooldownSeconds and    *)
(* maxTxPerMinute, and rpc_state.json, the index of the RPC fail-over.  A  *)
(* process is suspended at every await:                                    *)
(*                                                                         *)
(*   stage -> (approving) -> ready -> acting -> ready ...                  *)
(*                           ready -> looking -> (asking) -> sending -> .. *)
(***************************************************************************)
EXTENDS PolicyGates, SequencesExt, FiniteSets

CONSTANTS
  Procs,      \* the processes; each runs one workflow
  Starts,     \* how they may be started: with which flow, flavour, policy and approver
  Slippages,  \* what a quote may ask for, and what a simulation may come to
  Endpoints,  \* getSolanaRpcCandidates: the network the name of each URL tells
  HistoryCap, \* how many timestamps saveBroadcastHistory keeps
  Minute,     \* the window of maxTxPerMinute
  MaxTime,    \* bound: the clock stops here
  Corrupt     \* a file that does not parse

VARIABLES
  now,        \* Date.now()
  history,    \* policy_broadcast_history.json: timestamps, or Corrupt
  index,      \* rpc_state.json: currentIndex, or Corrupt
  run,        \* the processes
  landed,     \* what the network has accepted, in order
  overlapped, \* history variable: two processes were alive at once
  lost,       \* history variable: a broadcast did not get into the file, or the file was lost
  failed      \* history variable: the endpoint the last rotation left, or None

vars == <<now, history, index, run, landed, overlapped, lost, failed>>

-----------------------------------------------------------------------------
(* Workflows.  Templates such as {{ built.txB64 }} name the latest result of *)
(* a kind.                                                                   *)

Tools == {"quote", "buildSwap", "buildTransfer", "buildByAdapter", "simulate", "send", "confirm"}
Conditions == {"simulated", "notFailed"}  \* simulation.ok == true, simulation.ok != false

\* The coins run.ts tells apart: USDC and USDT, by the mints it knows for its network; SOL,
\* which is wrapped SOL in a quote and a transfer without a mint; and all others.
Coins == {"usd", "sol", "other"}

\* validateStage: only an approval stage may be without actions.
Stage == [approval: BOOLEAN, required: BOOLEAN, when: Conditions \cup {None},
          conditions: SUBSET Conditions, actions: Seq(Tools)]
Valid(flow) == flow # <<>> /\ \A i \in DOMAIN flow : flow[i].approval \/ flow[i].actions # <<>>

\* The sums are those that the parameters of the actions speak of; the policy is
\* policy.yaml as loaded, or None; approver: there is a user to ask.  runWorkflow takes
\* a default policy where there is no file, runWorkflowFromFile runs without.
ASSUME StartsAssumption ==
  \A s \in Starts :
    /\ DOMAIN s = {"flow", "sums", "flavour", "policy", "approver"}
    /\ s.flow \in Seq(Stage) /\ Valid(s.flow)
    /\ s.sums \subseteq [coin: Coins, size: Nat]
    /\ s.flavour \in {"run", "runner"} /\ s.approver \in BOOLEAN
    /\ s.policy = None => s.flavour = "run"
    /\ s.policy # None /\ s.policy.cooldownSeconds # None => s.policy.cooldownSeconds \in Int
ASSUME EndpointsAssumption == Endpoints \in Seq({"mainnet", "testnet"}) /\ Endpoints # <<>>
ASSUME NumbersAssumption ==
  /\ {Minute, HistoryCap, MaxTime} \cup Slippages \subseteq Nat
  /\ HistoryCap > 0
  /\ None \notin Int
ASSUME CorruptAssumption == Corrupt \notin Nat \cup Seq(Nat)

\* A quote is a record [sum, by]: what it gives away, and whether solana_jupiter_quote
\* made it or an adapter, together with its transaction.
\* A transaction is a record [no, quote, transfer, signers]: its number in the run, the
\* quote it swaps by, the sum in the summary of a transfer, and whether others than the
\* wallet must sign.  What an adapter builds that is no swap has neither quote nor summary.
Moves(tx) == IF tx.quote # None THEN tx.quote.sum ELSE tx.transfer

\* The context of a run.  extra are the signers the last build left behind, named by
\* the transaction they are for.
EmptyCtx == [quote |-> None, built |-> None, extra |-> None, simulation |-> None,
             submitted |-> FALSE]

Idle == [pc |-> "idle", flavour |-> "run", policy |-> None, approver |-> FALSE, flow |-> <<>>,
         sums |-> {}, stage |-> 1, action |-> 1, ctx |-> EmptyCtx, hist |-> <<>>, last |-> None, count |-> 0,
         at |-> 0, said |-> None, endpoint |-> None, sent |-> FALSE, confirmed |-> FALSE,
         builds |-> 0, fresh |-> FALSE, simulated |-> {}]

Alive(p) == run[p].pc \notin {"idle", "over"}

\* evalCondition and evalWhen: run.ts does not know !=, and what it cannot read is false.
Holds(r, c) ==
  LET sim == r.ctx.simulation
  IN CASE c = "simulated" -> sim # None /\ sim.ok
       [] c = "notFailed" -> r.flavour = "runner" /\ (sim = None \/ sim.ok)

-----------------------------------------------------------------------------
(* The two files.                                                            *)

LoadHistory == IF history = Corrupt THEN <<>> ELSE history

\* saveBroadcastHistory keeps the newest.
Saved(h) == IF Len(h) <= HistoryCap THEN h ELSE SubSeq(h, Len(h) - HistoryCap + 1, Len(h))

\* loadRpcFailoverState, getActiveSolanaRpc, rotateSolanaRpc: places count from 0.
LoadIndex == IF index = Corrupt THEN 0 ELSE index
Active == LoadIndex % Len(Endpoints)

\* Mutant: the rotation starts from the first endpoint.
RotatedFromFirst == 1 % Len(Endpoints)

Rotated == (LoadIndex + 1) % Len(Endpoints)

\* run.ts knows a single URL and no fail-over.
EndpointOf(r) == IF r.flavour = "runner" THEN Active ELSE 0
NetworkOf(r) == Endpoints[EndpointOf(r) + 1]

Init ==
  /\ now = 0
  /\ history = <<>> /\ index \in 0 .. Len(Endpoints) - 1   \* as earlier runs left it
  /\ run = [p \in Procs |-> Idle]
  /\ landed = <<>>
  /\ overlapped = FALSE /\ lost = FALSE /\ failed = None

-----------------------------------------------------------------------------
(* A run and its stages.                                                     *)

Become(p, r) == run' = [run EXCEPT ![p] = r]
Over == [Idle EXCEPT !.pc = "over"]
NextStage(r) == [r EXCEPT !.pc = "stage", !.stage = @ + 1, !.action = 1]

NextAction(r) ==
  IF r.action < Len(r.flow[r.stage].actions)
  THEN [r EXCEPT !.pc = "ready", !.action = @ + 1]
  ELSE NextStage(r)
Tool(r) == r.flow[r.stage].actions[r.action]

Files  == <<history, index>>
Ghosts == <<overlapped, lost, failed>>

\* Only runWorkflow reads the broadcast history at once.
Start(p, s) ==
  /\ run[p].pc = "idle"
  /\ Become(p, [Idle EXCEPT !.pc = "stage", !.flavour = s.flavour, !.policy = s.policy,
                  !.approver = s.approver, !.flow = s.flow, !.sums = s.sums,
                  !.hist = IF s.flavour = "runner" THEN LoadHistory ELSE <<>>])
  /\ overlapped' = (overlapped \/ \E q \in Procs : Alive(q))
  /\ UNCHANGED <<now, Files, landed, lost, failed>>

\* runStage: what follows `when`.  A stage whose approval is not required is over at
\* once in the WorkflowEngine, and executes its actions in run.ts.
Entered(r) ==
  LET s == r.flow[r.stage]
  IN IF s.approval /\ s.required
     THEN IF (\A c \in s.conditions : Holds(r, c)) /\ r.approver
          THEN [r EXCEPT !.pc = "approving"] ELSE Over
     ELSE IF s.actions = <<>> \/ (s.approval /\ r.flavour = "runner")
          THEN NextStage(r) ELSE [r EXCEPT !.pc = "ready"]

RunStage(p) ==
  LET r == run[p]
  IN /\ r.pc = "stage"
     /\ IF r.stage > Len(r.flow) THEN Become(p, Over)
        ELSE IF r.flow[r.stage].when # None /\ ~Holds(r, r.flow[r.stage].when)
             THEN Become(p, NextStage(r))
             ELSE Become(p, Entered(r))
     /\ UNCHANGED <<now, Files, landed, Ghosts>>

-----------------------------------------------------------------------------
(* The tools that do not broadcast.                                          *)

Begin(p) ==
  /\ run[p].pc = "ready" /\ Tool(run[p]) # "send"
  /\ Become(p, [run[p] EXCEPT !.pc = "acting", !.endpoint = EndpointOf(run[p])])
  /\ UNCHANGED <<now, Files, landed, Ghosts>>

\* The result goes into the context, whether it says ok or not.
Returns(p, tool, r) ==
  /\ run[p].pc = "acting" /\ Tool(run[p]) = tool
  /\ Become(p, NextAction([r EXCEPT !.endpoint = None]))
  /\ UNCHANGED <<now, Files, landed, Ghosts>>

\* solana_jupiter_quote; None is the answer ok: false of tools/solana.ts, without a quote.
Quoted(p, sum) ==
  /\ sum = None => run[p].flavour = "runner"
  /\ Returns(p, "quote", [run[p] EXCEPT !.ctx.quote =
       IF sum = None THEN None ELSE [sum |-> sum, by |-> "jupiter"]])

WithTx(r, tx, quote, extra) ==
  [r EXCEPT !.ctx.built = tx, !.ctx.quote = quote, !.ctx.extra = extra,
            !.builds = @ + 1, !.fresh = FALSE]

Tx(r, quote, transfer, signers) ==
  [no |-> r.builds + 1, quote |-> quote, transfer |-> transfer, signers |-> signers]

\* solana_jupiter_build_tx throws for an unknown quote, as that of an adapter is.
BuiltSwap(p) ==
  LET r == run[p] quote == r.ctx.quote
  IN /\ quote # None /\ quote.by = "jupiter"
     /\ Returns(p, "buildSwap", WithTx(r, Tx(r, quote, None, FALSE), quote, r.ctx.extra))

BuiltTransfer(p, sum) ==
  LET r == run[p]
  IN Returns(p, "buildTransfer", WithTx(r, Tx(r, None, sum, FALSE), r.ctx.quote, r.ctx.extra))

\* solana_adapter_build_tx: a swap leaves a quote of its own behind, and the signers of
\* new accounts, where there are any, replace those in the context.
BuiltByAdapter(p, sum, signers) ==
  LET r == run[p]
      quote == IF sum = None THEN None ELSE [sum |-> sum, by |-> "adapter"]
  IN Returns(p, "buildByAdapter",
             WithTx(r, Tx(r, quote, None, signers), IF sum = None THEN r.ctx.quote ELSE quote,
                    IF signers THEN r.builds + 1 ELSE r.ctx.extra))

\* Mutant: a simulation that failed is not stored.
SimulatedIfOk(p, ok) ==
  LET r == run[p] no == r.ctx.built.no
  IN /\ r.ctx.built # None
     /\ Returns(p, "simulate",
                [r EXCEPT !.ctx.simulation = IF ok THEN [tx |-> no, ok |-> ok] ELSE @,
                          !.fresh = TRUE, !.simulated = IF ok THEN @ \cup {no} ELSE @])

\* solana_simulate_tx; without a transaction it throws.
Simulated(p, ok) ==
  LET r == run[p] no == r.ctx.built.no
  IN /\ r.ctx.built # None
     /\ Returns(p, "simulate",
                [r EXCEPT !.ctx.simulation = [tx |-> no, ok |-> ok], !.fresh = TRUE,
                          !.simulated = IF ok THEN @ \cup {no} ELSE @])

Confirmed(p) == run[p].ctx.submitted /\ Returns(p, "confirm", run[p])

\* What convertToEngineTool does about an error: a likely RPC error moves the fail-over
\* on, unless the write fails or is cut off.
FailOver(r, rpcError) ==
  IF rpcError /\ r.flavour = "runner" /\ Len(Endpoints) > 1
  THEN \/ /\ index' = Rotated
          /\ failed' = r.endpoint
       \/ /\ index' \in {index, Corrupt}
          /\ failed' = None
  ELSE UNCHANGED <<index, failed>>

\* A tool that throws ends the run.
Throws(p, rpcError) ==
  /\ run[p].pc = "acting"
  /\ Become(p, Over)
  /\ FailOver(run[p], rpcError)
  /\ UNCHANGED <<now, history, landed, overlapped, lost>>

-----------------------------------------------------------------------------
(* The broadcast.                                                            *)

\* Mutants: every gate reads the file; no gate does.
HistoryOfFile(r) == LoadHistory
HistoryOfRun(r) == r.hist

\* The history a gate looks at: run.ts reads the file again, runner.ts keeps its own.
HistoryOf(r) == IF r.flavour = "runner" THEN r.hist ELSE LoadHistory

\* tx.sign: signers that are missing, or that are not of this transaction, throw.
Signable(r) ==
  LET tx == r.ctx.built
  IN tx # None /\ IF tx.signers THEN r.ctx.extra = tx.no ELSE r.ctx.extra = None

\* solana_send_tx up to sendTransaction.
Sending(r) ==
  IF Signable(r) THEN [r EXCEPT !.pc = "sending", !.endpoint = EndpointOf(r), !.sent = FALSE]
  ELSE Over

\* The gate takes its readings, then awaits the programs of the transaction.
Gate(p) ==
  LET r == run[p] h == HistoryOf(r)
  IN /\ r.pc = "ready" /\ Tool(r) = "send"
     /\ IF r.policy = None THEN Become(p, Sending([r EXCEPT !.at = now]))
        ELSE Become(p, [r EXCEPT !.pc = "looking", !.hist = h, !.at = now, !.said = NetworkOf(r),
                          !.last = IF h = <<>> THEN None ELSE Last(h),
                          !.count = Cardinality({i \in DOMAIN h : now - h[i] < Minute})])
     /\ UNCHANGED <<now, Files, landed, Ghosts>>

\* runner.ts tells the policy no amount.  run.ts knows dollars of a quote and, where the
\* quote has none, of a transfer; and SOL of a transfer or else of a quote.
SumOfQuote(r) == IF r.ctx.quote = None THEN None ELSE r.ctx.quote.sum
SumOfTransfer(r) == IF r.ctx.built = None THEN None ELSE r.ctx.built.transfer
In(sum, coin) == IF sum # None /\ sum.coin = coin THEN sum.size ELSE None

AmountUsd(r) ==
  IF r.flavour # "run" THEN None
  ELSE IF In(SumOfQuote(r), "usd") # None THEN In(SumOfQuote(r), "usd")
  ELSE In(SumOfTransfer(r), "usd")

\* Mutant: the summary of a transfer is not looked at for SOL.
AmountSolOfQuote(r) == IF r.flavour = "run" THEN In(SumOfQuote(r), "sol") ELSE None

AmountSol(r) ==
  IF r.flavour # "run" THEN None
  ELSE IF In(SumOfTransfer(r), "sol") # None THEN In(SumOfTransfer(r), "sol")
  ELSE In(SumOfQuote(r), "sol")

\* asked is the slippage the quote was asked with, implied what the simulation comes to.
Context(r, known, asked, implied) ==
  [chain |-> "solana", network |-> r.said, action |-> "swap", broadcast |-> TRUE,
   simulationOk |-> r.ctx.simulation # None /\ r.ctx.simulation.ok,
   programs |-> IF known THEN {"p"} ELSE None,
   secondsSinceLast |-> IF r.last = None THEN None ELSE r.at - r.last, lastMinute |-> r.count,
   amountSol |-> AmountSol(r), amountUsd |-> AmountUsd(r), slippage |-> asked,
   simulatedSlippage |-> implied, liquidity |-> None]

Judged(r, verdict) ==
  CASE verdict = "block"   -> Over
    [] verdict = "confirm" -> IF r.approver THEN [r EXCEPT !.pc = "asking"] ELSE Over
    [] OTHER               -> Sending([r EXCEPT !.confirmed = FALSE])

\* extractSolanaProgramIds answers; without a transaction it cannot know.  Slippages are
\* those of the quote, and of a simulation made with one.
Policy(p, known, asked, implied) ==
  LET r == run[p]
  IN /\ r.pc = "looking"
     /\ known => r.ctx.built # None
     /\ asked # None => r.ctx.quote # None
     /\ implied # None => r.ctx.quote # None /\ r.ctx.simulation # None /\ r.ctx.simulation.ok
     /\ Become(p, Judged(r, Decide(r.policy, Context(r, known, asked, implied))))
     /\ UNCHANGED <<now, Files, landed, Ghosts>>

\* The user answers the prompt of an approval stage, or of the policy.
Answers(p, yes) ==
  LET r == run[p]
  IN /\ r.pc \in {"approving", "asking"}
     /\ Become(p, IF ~yes THEN Over
                  ELSE IF r.pc = "approving" THEN NextStage(r)
                  ELSE Sending([r EXCEPT !.confirmed = TRUE]))
     /\ UNCHANGED <<now, Files, landed, Ghosts>>

\* What is known of a broadcast: said is the network the gate was told, net that of the
\* endpoint it goes to; own says that the quote in the context, or its absence, is that of
\* the transaction, and fresh that a simulation was made of it.
Broadcast(p) ==
  LET r == run[p] tx == r.ctx.built
  IN [proc |-> p, flavour |-> r.flavour, policy |-> r.policy, time |-> now,
      said |-> r.said, net |-> Endpoints[r.endpoint + 1], moves |-> Moves(tx),
      transfer |-> tx.transfer # None, own |-> r.ctx.quote = tx.quote, fresh |-> r.fresh,
      simulated |-> tx.no \in r.simulated, confirmed |-> r.confirmed]

\* The node takes the transaction while the process waits for its answer.
Accept(p) ==
  /\ run[p].pc = "sending" /\ ~run[p].sent
  /\ landed' = Append(landed, Broadcast(p))
  /\ Become(p, [run[p] EXCEPT !.sent = TRUE])
  /\ lost' = (lost \/ run[p].policy = None)
  /\ UNCHANGED <<now, Files, overlapped, failed>>

\* Mutant: the newest timestamp comes first.
PushedFirst(h) == <<now>> \o h

Pushed(h) == Append(h, now)

\* The answer has come: the broadcast is put on record.  A run without a policy keeps none.
SendOk(p, saved) ==
  LET r == run[p] h == Pushed(r.hist)
  IN /\ r.pc = "sending" /\ r.sent
     /\ Become(p, NextAction([r EXCEPT !.ctx.submitted = TRUE, !.endpoint = None, !.sent = FALSE,
                                !.confirmed = FALSE, !.last = None, !.count = 0, !.at = 0,
                                !.said = None, !.hist = IF r.flavour = "runner" THEN h ELSE <<>>]))
     /\ IF r.policy # None /\ saved THEN history' = Saved(h) /\ lost' = lost
        ELSE UNCHANGED history /\ lost' = TRUE
     /\ UNCHANGED <<now, index, landed, overlapped, failed>>

\* The send is refused, its answer is lost, or the trace cannot be written before the
\* broadcast is put on record.
SendFails(p, rpcError) ==
  /\ run[p].pc = "sending"
  /\ Become(p, Over)
  /\ FailOver(run[p], rpcError)
  /\ lost' = (lost \/ run[p].sent)
  /\ UNCHANGED <<now, history, landed, overlapped>>

-----------------------------------------------------------------------------
\* A process is killed; in the middle of saveBroadcastHistory it leaves half a file.
Crash(p) ==
  /\ Alive(p)
  /\ Become(p, Over)
  /\ history' \in {history} \cup (IF run[p].sent THEN {Corrupt} ELSE {})
  /\ lost' = (lost \/ run[p].sent)
  /\ UNCHANGED <<now, index, landed, overlapped, failed>>

Tick ==
  /\ now < MaxTime
  /\ now' = now + 1
  /\ UNCHANGED <<Files, run, landed, Ghosts>>

Next ==
  \/ \E p \in Procs :
       \/ \E s \in Starts : Start(p, s)
       \/ RunStage(p) \/ Begin(p) \/ Gate(p) \/ Accept(p) \/ Crash(p)
       \/ \E sum \in run[p].sums \cup {None} :
            Quoted(p, sum) \/ \E signers \in BOOLEAN : BuiltByAdapter(p, sum, signers)
       \/ \E sum \in run[p].sums : BuiltTransfer(p, sum)
       \/ BuiltSwap(p) \/ Confirmed(p)
       \/ \E known \in BOOLEAN : \E asked, implied \in Slippages \cup {None} :
            Policy(p, known, asked, implied)
       \/ \E ok \in BOOLEAN : Simulated(p, ok) \/ Throws(p, ok)
                              \/ Answers(p, ok) \/ SendOk(p, ok) \/ SendFails(p, ok)
  \/ Tick

Spec == Init /\ [][Next]_vars

-----------------------------------------------------------------------------
(* Properties.                                                               *)

\* The file always holds increasing timestamps, however the writes of the processes
\* overlap and whatever is lost: the gate takes the last for the newest.
HistoryIsOrdered ==
  history # Corrupt =>
    /\ \A i, j \in DOMAIN history : i < j => history[i] <= history[j]
    /\ \A i \in DOMAIN history : history[i] <= now
    /\ Len(history) <= Len(landed)

Spaced(b, c) ==
  c.policy # None /\ c.policy.cooldownSeconds # None => c.time - b.time >= c.policy.cooldownSeconds

WithinRate(j) ==
  landed[j].policy # None /\ landed[j].policy.maxTxPerMinute \in 1 .. HistoryCap =>
    Cardinality({i \in 1 .. j : landed[j].time - landed[i].time < Minute})
      <= landed[j].policy.maxTxPerMinute

\* While runs follow one another and the file survives, every two broadcasts are at
\* least cooldownSeconds apart, and no window of a minute sees more than
\* maxTxPerMinute of them, across both flavours of runs.  A limit of no broadcasts is
\* off, and one above what the file keeps is never reached.
LimitsWhenAlone ==
  ~overlapped /\ ~lost =>
    \A j \in DOMAIN landed :
      /\ \A i \in 1 .. j - 1 : Spaced(landed[i], landed[j])
      /\ WithinRate(j)

\* A run of runner.ts keeps the cooldown between its own broadcasts whatever other
\* processes do to the file.
OwnCooldown ==
  \A i, j \in DOMAIN landed :
    i < j /\ landed[i].proc = landed[j].proc /\ landed[j].flavour = "runner" =>
      Spaced(landed[i], landed[j])

\* The policy demands a simulation of this broadcast, going by the network it goes to.
NeedsSimulation(b) == b.policy # None /\ b.policy.requireSimulation /\ b.net = "mainnet"

\* In a workflow that simulates what it has built before it sends, nothing reaches
\* mainnet whose own simulation did not succeed, as long as no other process was alive
\* beside its own.  If one was, the fail-over may have moved on between the gate of
\* runner.ts and its send, which looks the endpoint up again: then all that is sure is
\* that what the gate took to go to mainnet was simulated.
SimulatedIfFresh ==
  \A i \in DOMAIN landed :
    LET b == landed[i]
    IN NeedsSimulation(b) /\ b.fresh /\ (overlapped /\ b.flavour = "runner" => b.said = b.net)
         => b.simulated

\* docs/policy.md:31: "if a tool is sideEffect=broadcast, policy should require
\* simResult.ok == true artifact".
SimulatedBeforeSent ==
  \A i \in DOMAIN landed : NeedsSimulation(landed[i]) => landed[i].simulated

\* The sum is above the limit the policy has for its coin.  There is none for the coins
\* run.ts can not value.
TooLarge(policy, sum) ==
  CASE sum.coin = "usd" -> sum.size > policy.maxSingleUsd
    [] sum.coin = "sol" -> policy.maxSingleSol # None /\ sum.size > policy.maxSingleSol
    [] OTHER            -> FALSE

\* run.ts never sends more dollars or SOL than the policy allows at once without the
\* user's yes, as long as the quote in the context is that of the transaction; for a
\* transfer of SOL the quote does not matter.  Sums of other coins are sent unasked.
AmountsConfirmed ==
  \A i \in DOMAIN landed :
    LET b == landed[i]
    IN b.flavour = "run" /\ b.policy # None /\ b.moves # None
         /\ (b.own \/ (b.transfer /\ b.moves.coin = "sol")) /\ TooLarge(b.policy, b.moves)
         => b.confirmed

\* As long as no two processes were alive at once, the endpoint that failed last is not
\* the one the next run begins with.
MovesOn == ~overlapped /\ failed # None => Active # failed
=============================================================================
