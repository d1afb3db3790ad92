------------------------------ MODULE McpHost ------------------------------
(***************************************************************************)
(* The two-step swap of the MCP server (packages/host-mcp): a tool call     *)
(* that quotes a swap within the limits of config.yaml and keeps what was   *)
(* built in memory under an id, and a call that executes a quote by its id: *)
(* the phrase, the look-up, a simulation, the transaction, the wait for it, *)
(* and only then the quote is taken out.  config.yaml is read again by      *)
(* every call; calls overlap at each of their waits.                        *)
(*                                                                         *)
(* The route of a quote is the router of the runtime's tools                *)
(* (solana_swap_exact_in): Jupiter, and Meteora behind it.                  *)
(***************************************************************************)
EXTENDS Naturals, Sequences, FiniteSets

CONSTANTS
  Calls,       \* tool calls of the client
  Configs,     \* contents of config.yaml the operator may put there
  Asks,        \* what may be asked for; slippage 0 stands for none given, and fallback is
               \* "yes" (true), "no" (anything else that is given) or "omitted"
  HostLife,    \* ticks a quote is good for (2 minutes)
  EnvFallback, \* W3RT_ALLOW_JUPITER_FALLBACK
  MaxTicks, MaxRestarts    \* bounds

ASSUME LimitsAssumption == \A c \in Configs : c.maxSlippage \in Nat

VARIABLES
  config,      \* config.yaml
  quotes,      \* the quotes in memory: a Map by id
  calls,       \* each tool call
  ticks, restarts,
  shown,       \* observed: the quotes that were shown
  swaps,       \* observed: what was handed to the chain, in order
  doubtful     \* observed: quotes of which an execution was sent and did not finish, or of
               \* which two were under way at a time

hvars == <<config, quotes, calls, ticks, restarts, shown, swaps, doubtful>>
outside == <<config, ticks, restarts>>

HostInit ==
  /\ config \in Configs /\ quotes = {}
  /\ calls = [c \in Calls |-> [pc |-> "new"]]
  /\ ticks = 0 /\ restarts = 0
  /\ shown = {} /\ swaps = <<>> /\ doubtful = {}

Turn(c, pc) == calls' = [calls EXCEPT ![c].pc = pc]
------------------------------------------------------------------------------
(* solana_swap_quote.                                                       *)

Slippage(ask) == IF ask.slippage = 0 THEN config.maxSlippage ELSE ask.slippage

(* SOL goes by its symbol or its address; the dollars by their symbols only. *)
WithinLimits(ask, limits) ==
  /\ ask.slippage <= limits.maxSlippage
  /\ ask.token = "SOL" => ask.amount <= limits.maxSol
  /\ ask.token = "USDC" => ask.amount <= limits.maxUsdc

AskQuote(c, ask) ==
  /\ calls[c].pc = "new"
  /\ calls' = [calls EXCEPT ![c] =
       IF config.key /\ WithinLimits(ask, config)
       THEN [pc |-> "jupiter", under |-> config,
             ask |-> [token |-> ask.token, amount |-> ask.amount, slippage |-> Slippage(ask), fallback |-> ask.fallback]]
       ELSE [pc |-> "refused"]]
  /\ UNCHANGED <<outside, quotes, shown, swaps, doubtful>>

(* Ids carry the venue and the millisecond: two of one are one.             *)
IdsNow(route) ==
  {<<route, Cardinality(shown) + 1>>}
  \cup {q.id : q \in {s \in shown : s.route = route /\ s.expiresAt = ticks + HostLife}}

Others(id) == {q \in quotes : q.id # id}

(* putQuote, when the venue has built the transaction.                      *)
RouteBuilds(c) ==
  /\ calls[c].pc \in {"jupiter", "meteora"}
  /\ \E id \in IdsNow(calls[c].pc) :
       LET q == [id |-> id, route |-> calls[c].pc, expiresAt |-> ticks + HostLife,
                 ask |-> calls[c].ask, under |-> calls[c].under, by |-> c]
       IN  quotes' = Others(id) \cup {q} /\ shown' = shown \cup {q}
  /\ Turn(c, "done")
  /\ UNCHANGED <<outside, swaps, doubtful>>

(* allowFallback is true unless it is given (the tool's schema says that it *)
(* defaults to false); the environment allows it to everyone.               *)
MayFallBack(ask) == EnvFallback \/ ask.fallback \in {"yes", "omitted"}

RouteFails(c) ==
  /\ calls[c].pc \in {"jupiter", "meteora"}
  /\ Turn(c, IF calls[c].pc = "jupiter" /\ MayFallBack(calls[c].ask) THEN "meteora" ELSE "failed")
  /\ UNCHANGED <<outside, quotes, shown, swaps, doubtful>>
------------------------------------------------------------------------------
(* solana_swap_execute.                                                     *)

Executes(c, q) == calls[c].pc \in {"simulate", "send", "confirm"} /\ calls[c].quote = q
AskRefused(c) ==
  /\ calls[c].pc = "new"
  /\ Turn(c, "refused")       \* the phrase is not the configured one, or there is no key
  /\ UNCHANGED <<outside, quotes, shown, swaps, doubtful>>

(* getQuote: an expired quote is taken out.                                 *)
AskExecute(c, wanted) ==
  /\ calls[c].pc = "new" /\ config.key
  /\ LET found == {q \in quotes : q.id = wanted.id}
         live == {q \in found : ticks <= q.expiresAt}
     IN  /\ quotes' = quotes \ (found \ live)
         /\ calls' = [calls EXCEPT ![c] =
              IF live = {} THEN [pc |-> "refused"]
              ELSE [pc |-> "simulate", wanted |-> wanted, quote |-> CHOOSE q \in live : TRUE]]
         /\ doubtful' = doubtful \cup {q \in live : \E d \in Calls : Executes(d, q)}
  /\ UNCHANGED <<outside, shown, swaps>>

Simulates(c, ok) ==
  /\ calls[c].pc = "simulate"
  /\ Turn(c, IF ok THEN "send" ELSE "failed")
  /\ UNCHANGED <<outside, quotes, shown, swaps, doubtful>>

Handed(c) == swaps' = Append(swaps, [wanted |-> calls[c].wanted, quote |-> calls[c].quote])

Sends(c) ==
  /\ calls[c].pc = "send"
  /\ Handed(c)
  /\ Turn(c, "confirm")
  /\ UNCHANGED <<outside, quotes, shown, doubtful>>

(* The send fails, or its answer is lost: the quote stays.                  *)
SendEndsBadly(c) ==
  /\ calls[c].pc = "send"
  /\ \/ UNCHANGED <<swaps, doubtful>>
     \/ Handed(c) /\ doubtful' = doubtful \cup {calls[c].quote}
  /\ Turn(c, "failed")
  /\ UNCHANGED <<outside, quotes, shown>>

(* The quote of the id is taken out, whichever it is now.                   *)
KeptQuotes(id) == quotes     \* mutant: the quote is not taken out
QuotesWithout(id) == Others(id)

Confirms(c) ==
  /\ calls[c].pc = "confirm"
  /\ quotes' = QuotesWithout(calls[c].quote.id)
  /\ Turn(c, "done")
  /\ UNCHANGED <<outside, shown, swaps, doubtful>>

(* The transaction failed on the chain, or the wait for it did: the quote   *)
(* stays.                                                                   *)
NotConfirmed(c) ==
  /\ calls[c].pc = "confirm"
  /\ doubtful' = doubtful \cup {calls[c].quote}
  /\ Turn(c, "failed")
  /\ UNCHANGED <<outside, quotes, shown, swaps>>
------------------------------------------------------------------------------
EditConfig ==
  /\ config' \in Configs
  /\ UNCHANGED <<quotes, calls, ticks, restarts, shown, swaps, doubtful>>

(* The process ends: what it keeps is gone, and so are its calls.           *)
HostRestart ==
  /\ restarts < MaxRestarts /\ restarts' = restarts + 1
  /\ quotes' = {}
  /\ calls' = [c \in Calls |-> IF calls[c].pc = "new" THEN calls[c] ELSE [pc |-> "failed"]]
  /\ UNCHANGED <<config, ticks, shown, swaps, doubtful>>

HostTick ==
  /\ ticks < MaxTicks /\ ticks' = ticks + 1
  /\ UNCHANGED <<config, quotes, calls, restarts, shown, swaps, doubtful>>

HostNext ==
  \/ \E c \in Calls :
       \/ \E ask \in Asks : AskQuote(c, ask)
       \/ \E q \in shown : AskExecute(c, q)
       \/ \E ok \in BOOLEAN : Simulates(c, ok)
       \/ RouteBuilds(c) \/ RouteFails(c) \/ AskRefused(c)
       \/ Sends(c) \/ SendEndsBadly(c) \/ Confirms(c) \/ NotConfirmed(c)
  \/ EditConfig \/ HostRestart \/ HostTick

HostSpec == HostInit /\ [][HostNext]_hvars
------------------------------------------------------------------------------
OneId == \E q, r \in shown : q.id = r.id /\ q # r

(* What the host hands to the chain is the swap its client was shown,       *)
(* unless two quotes got one id, and it kept the limits in force when it    *)
(* was asked for.  It is never a swap by Meteora for a client that said no  *)
(* to it, unless the environment says yes for all; a client that said       *)
(* nothing is not protected.  It is handed over once, except that a quote   *)
(* of which an execution did not finish, or of which two overlapped, may be *)
(* handed over again: it is taken out only after the wait for the chain.    *)
SwapsAsShown ==
  /\ \A i \in DOMAIN swaps : LET q == swaps[i].quote IN
       /\ ~OneId => q = swaps[i].wanted
       /\ WithinLimits(q.ask, q.under)
       /\ q.route = "meteora" => EnvFallback \/ q.ask.fallback # "no"
  /\ \A i, j \in DOMAIN swaps : i # j /\ swaps[i].quote = swaps[j].quote => swaps[i].quote \in doubtful
==============================================================================
