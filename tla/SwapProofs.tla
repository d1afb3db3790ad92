------------------------------ MODULE SwapProofs ------------------------------
(* The swaps in two steps, a quote and its execution, for any number of calls *)
(* and runs: what is executed is what was quoted, it is sent once, and the    *)
(* runner reads the balances around it.  The scheduler refuses a cyclic       *)
(* workflow, and a compiled plan stops only at a balance that awaits itself.  *)
EXTENDS PlanRunner, McpHost, WellFoundedInduction, FiniteSetTheorems, TLAPS

-----------------------------------------------------------------------------
(* The MCP server.                                                           *)

Asking == {"jupiter", "meteora"}
Executing == {"simulate", "send", "confirm"}

\* A quote keeps the limits in force when it was asked for, and its call is over.
Proper(q) ==
  /\ WithinLimits(q.ask, q.under)
  /\ q.route = "meteora" => MayFallBack(q.ask)
  /\ q.by \in Calls /\ calls[q.by].pc \notin {"new"} \cup Asking

\* The two quotes a swap is about: the one its client named, and the one it was made from.
Named(s) == s.wanted \in shown /\ s.quote \in shown /\ s.quote.id = s.wanted.id

CallOK(r) ==
  /\ "pc" \in DOMAIN r
  /\ r.pc \in Asking =>
       /\ DOMAIN r = {"pc", "under", "ask"} /\ WithinLimits(r.ask, r.under)
       /\ r.pc = "meteora" => MayFallBack(r.ask)
  /\ r.pc \in Executing => DOMAIN r = {"pc", "wanted", "quote"} /\ Named(r)

\* A quote that is not in doubt is executed by one call at a time, which has not handed it
\* over before it sends; and it is gone once it was handed over and waited for.
Once(q) ==
  /\ \A c, d \in Calls : Executes(c, q) /\ Executes(d, q) => c = d
  /\ \A i \in DOMAIN swaps : swaps[i].quote = q =>
       /\ \A j \in DOMAIN swaps : swaps[j].quote = q => i = j
       /\ \A c \in Calls : Executes(c, q) => calls[c].pc = "confirm"
       /\ q \in quotes => \E c \in Calls : Executes(c, q)

HostInv ==
  /\ config \in Configs /\ DOMAIN calls = Calls /\ quotes \subseteq shown
  /\ \E S : swaps \in Seq(S)
  /\ \A q \in shown : Proper(q)
  /\ \A c \in Calls : CallOK(calls[c])
  /\ \A i \in DOMAIN swaps : Named(swaps[i])
  /\ \A q \in shown \ doubtful : Once(q)

\* A call moves on.
LEMMA Turning ==
  ASSUME HostInv, NEW c \in Calls, NEW pc, Turn(c, pc)
  PROVE  /\ DOMAIN calls' = Calls /\ \A d \in Calls : d # c => calls'[d] = calls[d]
         /\ calls'[c].pc = pc /\ DOMAIN calls'[c] = DOMAIN calls[c]
         /\ \A f \in DOMAIN calls[c] : f # "pc" => calls'[c][f] = calls[c][f]
  BY DEF HostInv, CallOK, Turn

\* A call moves on without handing anything over; from the wait for its swap it goes only
\* if the quote is gone or in doubt.
LEMMA TurnKeeps ==
  ASSUME HostInv, NEW c \in Calls, NEW pc \in {"refused", "failed", "done", "meteora", "send"},
         Turn(c, pc), pc = "meteora" => calls[c].pc = "jupiter" /\ MayFallBack(calls[c].ask),
         pc = "send" => calls[c].pc = "simulate",
         calls[c].pc = "confirm" => calls[c].quote \in doubtful' \/ calls[c].quote \notin quotes',
         UNCHANGED <<config, shown, swaps>>, quotes' \subseteq quotes, doubtful \subseteq doubtful'
  PROVE  HostInv'
<1>1. /\ DOMAIN calls' = Calls /\ \A d \in Calls : d # c => calls'[d] = calls[d]
      /\ calls'[c].pc = pc /\ DOMAIN calls'[c] = DOMAIN calls[c]
      /\ \A f \in DOMAIN calls[c] : f # "pc" => calls'[c][f] = calls[c][f]
  BY Turning
<1>2. CallOK(calls[c])
  BY DEF HostInv
<1>3. CallOK(calls[c])'
  <2>1. pc \in Asking => calls'[c].under = calls[c].under /\ calls'[c].ask = calls[c].ask
    BY <1>1, <1>2 DEF CallOK, Asking
  <2>2. pc \in Executing => calls'[c].quote = calls[c].quote /\ calls'[c].wanted = calls[c].wanted
    BY <1>1, <1>2 DEF CallOK, Executing
  <2>. QED
    BY <1>1, <1>2, <2>1, <2>2 DEF CallOK, Asking, Executing, Named, WithinLimits, MayFallBack
<1>4. \A d \in Calls : CallOK(calls[d])'
  BY <1>1, <1>3 DEF HostInv, CallOK, Named
<1>5. \A q \in shown : Proper(q)'
  <2>1. calls[c].pc \in Asking => calls'[c].pc \in {"refused", "failed", "done", "meteora"}
    BY <1>1 DEF Asking
  <2>2. pc = "meteora" => calls[c].pc \in Asking
    BY DEF Asking
  <2>. QED
    BY <1>1, <2>2 DEF HostInv, Proper, Asking
<1>6. ASSUME NEW d \in Calls, NEW q, Executes(d, q)'
      PROVE  Executes(d, q) /\ (d = c => calls[d].pc = "simulate") /\ (d # c => calls'[d].pc = calls[d].pc)
  BY <1>1, <1>2, <1>6 DEF Executes, CallOK, Executing
<1>7. ASSUME NEW q \in shown \ doubtful' PROVE Once(q)'
  <2>1. Once(q)
    BY DEF HostInv
  <2>2. \A d, e \in Calls : Executes(d, q)' /\ Executes(e, q)' => d = e
    BY <1>6, <2>1 DEF Once
  <2>3. ASSUME NEW i \in DOMAIN swaps, swaps[i].quote = q
        PROVE  /\ \A j \in DOMAIN swaps : swaps[j].quote = q => i = j
               /\ \A d \in Calls : Executes(d, q)' => calls'[d].pc = "confirm"
               /\ q \in quotes' => \E d \in Calls : Executes(d, q)'
    <3>1. /\ \A j \in DOMAIN swaps : swaps[j].quote = q => i = j
          /\ \A d \in Calls : Executes(d, q) => calls[d].pc = "confirm"
          /\ q \in quotes => \E d \in Calls : Executes(d, q)
      BY <2>1, <2>3 DEF Once
    <3>2. \A d \in Calls : Executes(d, q)' => calls'[d].pc = "confirm"
      BY <1>6, <3>1
    <3>3. ASSUME q \in quotes' PROVE \E d \in Calls : Executes(d, q)'
      <4>1. PICK d \in Calls : Executes(d, q) /\ calls[d].pc = "confirm"
        BY <3>1, <3>3
      <4>2. d # c
        BY <3>3, <4>1 DEF Executes
      <4>. QED
        BY <1>1, <4>1, <4>2 DEF Executes
    <3>. QED
      BY <3>1, <3>2, <3>3
  <2>. QED
    BY <2>2, <2>3 DEF Once
<1>8. config' \in Configs /\ quotes' \subseteq shown' /\ (\E S : swaps' \in Seq(S))
      /\ \A i \in DOMAIN swaps' : Named(swaps[i])'
  BY DEF HostInv, Named
<1>. QED
  BY <1>1, <1>4, <1>5, <1>7, <1>8 DEF HostInv

LEMMA TurnsKeep ==
  ASSUME HostInv, NEW c \in Calls, NEW ok,
         \/ RouteFails(c) \/ AskRefused(c) \/ Simulates(c, ok) \/ Confirms(c) \/ NotConfirmed(c)
  PROVE  HostInv'
<1>1. CASE RouteFails(c)
  <2>. DEFINE pc == IF calls[c].pc = "jupiter" /\ MayFallBack(calls[c].ask) THEN "meteora" ELSE "failed"
  <2>1. /\ Turn(c, pc) /\ UNCHANGED <<config, shown, swaps, quotes, doubtful>>
        /\ calls[c].pc # "confirm"
    BY <1>1 DEF RouteFails, outside
  <2>2. /\ pc \in {"refused", "failed", "done", "meteora", "send"} /\ pc # "send"
        /\ pc = "meteora" => calls[c].pc = "jupiter" /\ MayFallBack(calls[c].ask)
    OBVIOUS
  <2>. HIDE DEF pc
  <2>. QED
    BY <2>1, <2>2, TurnKeeps
<1>2. CASE AskRefused(c)
  BY <1>2, TurnKeeps DEF AskRefused, outside
<1>3. CASE Simulates(c, ok)
  <2>. DEFINE pc == IF ok THEN "send" ELSE "failed"
  <2>1. Turn(c, pc) /\ UNCHANGED <<config, shown, swaps, quotes, doubtful>> /\ calls[c].pc = "simulate"
    BY <1>3 DEF Simulates, outside
  <2>2. pc \in {"refused", "failed", "done", "meteora", "send"} /\ pc # "meteora"
    OBVIOUS
  <2>. HIDE DEF pc
  <2>. QED
    BY <2>1, <2>2, TurnKeeps
<1>4. CASE Confirms(c)
  <2>1. /\ Turn(c, "done") /\ UNCHANGED <<config, shown, swaps, doubtful>>
        /\ quotes' = Others(calls[c].quote.id)
    BY <1>4 DEF Confirms, QuotesWithout, outside
  <2>2. quotes' \subseteq quotes /\ calls[c].quote \notin quotes'
    BY <2>1 DEF Others
  <2>. QED
    BY <2>1, <2>2, TurnKeeps
<1>5. CASE NotConfirmed(c)
  <2>1. /\ Turn(c, "failed") /\ UNCHANGED <<config, shown, swaps, quotes>>
        /\ doubtful' = doubtful \cup {calls[c].quote}
    BY <1>5 DEF NotConfirmed, outside
  <2>. QED
    BY <2>1, TurnKeeps
<1>. QED
  BY <1>1, <1>2, <1>3, <1>4, <1>5

\* Steps that leave the calls alone.
LEMMA IdleKeeps ==
  ASSUME HostInv, EditConfig \/ HostTick \/ UNCHANGED hvars
  PROVE  HostInv'
<1>1. UNCHANGED <<quotes, calls, shown, swaps, doubtful>> /\ config' \in Configs
  BY DEF EditConfig, HostTick, hvars, HostInv
<1>2. \A q \in shown : Proper(q)'
  BY <1>1 DEF HostInv, Proper
<1>3. \A c \in Calls : CallOK(calls[c])'
  BY <1>1 DEF HostInv, CallOK, Named
<1>4. \A q \in shown \ doubtful : Once(q)'
  BY <1>1 DEF HostInv, Once, Executes
<1>. QED
  BY <1>1, <1>2, <1>3, <1>4 DEF HostInv, Named

LEMMA RestartKeeps ==
  ASSUME HostInv, HostRestart
  PROVE  HostInv'
<1>1. /\ quotes' = {} /\ UNCHANGED <<config, shown, swaps, doubtful>>
      /\ DOMAIN calls' = Calls
      /\ \A c \in Calls : calls'[c] = IF calls[c].pc = "new" THEN calls[c] ELSE [pc |-> "failed"]
  BY DEF HostRestart
<1>2. \A c \in Calls : calls'[c].pc \in {"new", "failed"} /\ (calls'[c].pc = "new" => calls[c].pc = "new")
  BY <1>1
<1>3. \A q \in shown : Proper(q)'
  BY <1>1, <1>2 DEF HostInv, Proper, Asking
<1>4. \A c \in Calls : CallOK(calls[c])'
  BY <1>1 DEF HostInv, CallOK, Asking, Executing
<1>5. \A c \in Calls : \A q : ~Executes(c, q)'
  BY <1>2 DEF Executes
<1>6. \A q \in shown \ doubtful : Once(q)'
  BY <1>1, <1>5 DEF HostInv, Once
<1>. QED
  BY <1>1, <1>3, <1>4, <1>6 DEF HostInv, Named

\* A call of a quote begins: it is of the limits in force.
LEMMA AskQuoteKeeps ==
  ASSUME HostInv, NEW c \in Calls, NEW ask, AskQuote(c, ask)
  PROVE  HostInv'
<1>. DEFINE a == [token |-> ask.token, amount |-> ask.amount, slippage |-> Slippage(ask),
                  fallback |-> ask.fallback]
            r == IF config.key /\ WithinLimits(ask, config)
                 THEN [pc |-> "jupiter", under |-> config, ask |-> a] ELSE [pc |-> "refused"]
<1>1. /\ calls[c].pc = "new" /\ calls' = [calls EXCEPT ![c] = r]
      /\ UNCHANGED <<config, quotes, shown, swaps, doubtful>>
  BY DEF AskQuote, outside
<1>2. WithinLimits(ask, config) => WithinLimits(a, config)
  <2>1. config.maxSlippage \in Nat
    BY LimitsAssumption DEF HostInv
  <2>2. a.token = ask.token /\ a.amount = ask.amount /\ a.slippage = Slippage(ask)
    OBVIOUS
  <2>. HIDE DEF a
  <2>. QED
    BY <2>1, <2>2 DEF WithinLimits, Slippage
<1>3. /\ r.pc \in {"jupiter", "refused"}
      /\ r.pc = "jupiter" =>
           DOMAIN r = {"pc", "under", "ask"} /\ r.under = config /\ r.ask = a /\ WithinLimits(a, config)
  <2>. HIDE DEF a
  <2>. QED
    BY <1>2
<1>4. "pc" \in DOMAIN r
  OBVIOUS
<1>. HIDE DEF a, r
<1>5. CallOK(r)
  BY <1>3, <1>4 DEF CallOK, Asking, Executing
<1>6. DOMAIN calls' = Calls /\ \A d \in Calls : calls'[d] = IF d = c THEN r ELSE calls[d]
  BY <1>1 DEF HostInv
<1>7. \A d \in Calls : CallOK(calls[d])'
  BY <1>1, <1>5, <1>6 DEF HostInv, CallOK, Named
<1>8. \A q \in shown : Proper(q)'
  BY <1>1, <1>6 DEF HostInv, Proper
<1>9. \A d \in Calls : \A q : Executes(d, q)' <=> Executes(d, q)
  BY <1>1, <1>3, <1>6 DEF Executes
<1>10. \A q \in shown \ doubtful : Once(q)'
  <2>1. \A d \in Calls : \A q : Executes(d, q) => calls'[d].pc = calls[d].pc
    BY <1>1, <1>6 DEF Executes
  <2>. QED
    BY <1>1, <1>9, <2>1 DEF HostInv, Once
<1>. QED
  BY <1>1, <1>6, <1>7, <1>8, <1>10 DEF HostInv, Named

\* The venue answers: the quote is new, for the calls that made the others are over.
LEMMA BuiltIsProper ==
  ASSUME HostInv, NEW c \in Calls, RouteBuilds(c)
  PROVE  HostInv'
<1>1. calls[c].pc \in Asking /\ Turn(c, "done") /\ UNCHANGED <<config, swaps, doubtful>>
  BY DEF RouteBuilds, outside, Asking
<1>2. PICK id : LET q == [id |-> id, route |-> calls[c].pc, expiresAt |-> ticks + HostLife,
                          ask |-> calls[c].ask, under |-> calls[c].under, by |-> c]
                IN  quotes' = Others(id) \cup {q} /\ shown' = shown \cup {q}
  BY DEF RouteBuilds
<1>3. PICK n : /\ quotes' = Others(id) \cup {n} /\ shown' = shown \cup {n}
               /\ n.by = c /\ n.route = calls[c].pc /\ n.ask = calls[c].ask /\ n.under = calls[c].under
  <2>. DEFINE q == [id |-> id, route |-> calls[c].pc, expiresAt |-> ticks + HostLife,
                    ask |-> calls[c].ask, under |-> calls[c].under, by |-> c]
  <2>1. q.by = c /\ q.route = calls[c].pc /\ q.ask = calls[c].ask /\ q.under = calls[c].under
    OBVIOUS
  <2>2. quotes' = Others(id) \cup {q} /\ shown' = shown \cup {q}
    BY <1>2
  <2>. HIDE DEF q
  <2>. QED
    BY <2>1, <2>2
<1>4. /\ DOMAIN calls' = Calls /\ \A d \in Calls : d # c => calls'[d] = calls[d]
      /\ calls'[c].pc = "done" /\ DOMAIN calls'[c] = DOMAIN calls[c]
  BY <1>1, Turning
<1>5. CallOK(calls[c]) /\ n \notin shown
  BY <1>1, <1>3 DEF HostInv, Proper
<1>6. Proper(n)'
  BY <1>1, <1>3, <1>4, <1>5 DEF CallOK, Proper, Asking, WithinLimits, MayFallBack
<1>7. \A q \in shown : Proper(q)'
  BY <1>1, <1>4 DEF HostInv, Proper, Asking
<1>8. \A d \in Calls : CallOK(calls[d])'
  BY <1>3, <1>4, <1>5 DEF HostInv, CallOK, Named, Asking, Executing
<1>9. \A d \in Calls : \A q : Executes(d, q)' <=> Executes(d, q)
  BY <1>1, <1>4 DEF Executes, Asking
<1>10. \A d \in Calls : \A q : Executes(d, q) => calls'[d].pc = calls[d].pc /\ q \in shown
  BY <1>1, <1>4 DEF Executes, Asking, HostInv, CallOK, Executing, Named
<1>11. \A i \in DOMAIN swaps : swaps[i].quote \in shown
  BY DEF HostInv, Named
<1>12. ASSUME NEW q \in shown \ doubtful PROVE Once(q)'
  <2>1. Once(q) /\ q # n
    BY <1>5, <1>12 DEF HostInv
  <2>2. q \in quotes' => q \in quotes
    BY <1>3, <2>1 DEF Others
  <2>. QED
    BY <1>1, <1>9, <1>10, <2>1, <2>2 DEF Once
<1>13. Once(n)'
  <2>1. \A d \in Calls : ~Executes(d, n)'
    BY <1>5, <1>9, <1>10
  <2>2. \A i \in DOMAIN swaps : swaps'[i].quote # n
    BY <1>1, <1>5, <1>11
  <2>. QED
    BY <1>1, <2>1, <2>2 DEF Once
<1>14. (\A i \in DOMAIN swaps : Named(swaps[i])') /\ quotes' \subseteq shown'
  BY <1>1, <1>3 DEF HostInv, Named, Others
<1>. QED
  BY <1>1, <1>3, <1>4, <1>6, <1>7, <1>8, <1>12, <1>13, <1>14 DEF HostInv

\* The look-up: the quote found is the one named, if ids are of one quote each; a second
\* execution puts it in doubt.
LEMMA AskExecuteKeeps ==
  ASSUME HostInv, NEW c \in Calls, NEW wanted \in shown, AskExecute(c, wanted)
  PROVE  HostInv'
<1>. DEFINE found == {q \in quotes : q.id = wanted.id}
            live == {q \in found : ticks <= q.expiresAt}
            q0 == CHOOSE q \in live : TRUE
            r == IF live = {} THEN [pc |-> "refused"]
                 ELSE [pc |-> "simulate", wanted |-> wanted, quote |-> q0]
<1>1. /\ calls[c].pc = "new" /\ calls' = [calls EXCEPT ![c] = r]
      /\ quotes' \subseteq quotes /\ UNCHANGED <<config, shown, swaps>>
      /\ doubtful' = doubtful \cup {q \in live : \E d \in Calls : Executes(d, q)}
  BY DEF AskExecute, outside
<1>2. live # {} => q0 \in live
  OBVIOUS
<1>3. \A q \in live : q \in quotes /\ q.id = wanted.id
  OBVIOUS
<1>4. live \subseteq shown
  BY <1>3 DEF HostInv
<1>5. \/ DOMAIN r = {"pc"} /\ r.pc = "refused"
      \/ DOMAIN r = {"pc", "wanted", "quote"} /\ r.pc = "simulate" /\ r.wanted = wanted /\ r.quote = q0 /\ q0 \in live
  <2>. HIDE DEF q0, live
  <2>. QED
    BY <1>2
<1>. HIDE DEF r, q0, live, found
<1>6. DOMAIN calls' = Calls /\ \A d \in Calls : calls'[d] = IF d = c THEN r ELSE calls[d]
  BY <1>1 DEF HostInv
<1>7. \A d \in Calls : CallOK(calls[d])'
  <2>1. CallOK(r)
    BY <1>3, <1>4, <1>5 DEF CallOK, Asking, Executing, Named
  <2>. QED
    BY <1>1, <1>6, <2>1 DEF HostInv, CallOK, Named
<1>8. \A q \in shown : Proper(q)'
  BY <1>1, <1>5, <1>6 DEF HostInv, Proper, Asking
<1>9. \A d \in Calls : \A q : Executes(d, q) => calls'[d] = calls[d]
  BY <1>1, <1>6 DEF Executes
<1>10. \A d \in Calls : \A q : Executes(d, q)' => Executes(d, q) \/ (d = c /\ q = q0 /\ q0 \in live)
  BY <1>5, <1>6 DEF Executes
<1>11. ASSUME NEW q \in shown \ doubtful' PROVE Once(q)'
  <2>1. Once(q)
    BY <1>1, <1>11 DEF HostInv
  <2>2. ASSUME NEW d \in Calls, NEW e \in Calls, Executes(d, q)', Executes(e, q)' PROVE d = e
    <3>1. \A a \in Calls : Executes(a, q) => q \notin live
      BY <1>1, <1>11
    <3>. QED
      BY <1>10, <2>1, <2>2, <3>1 DEF Once
  <2>3. ASSUME NEW i \in DOMAIN swaps, swaps[i].quote = q
        PROVE  /\ \A j \in DOMAIN swaps : swaps[j].quote = q => i = j
               /\ \A d \in Calls : Executes(d, q)' => calls'[d].pc = "confirm"
               /\ q \in quotes' => \E d \in Calls : Executes(d, q)'
    <3>1. /\ \A j \in DOMAIN swaps : swaps[j].quote = q => i = j
          /\ \A d \in Calls : Executes(d, q) => calls[d].pc = "confirm"
          /\ q \in quotes => \E d \in Calls : Executes(d, q)
      BY <2>1, <2>3 DEF Once
    <3>2. q \notin live
      BY <1>1, <1>3, <1>11, <3>1
    <3>3. \A d \in Calls : Executes(d, q)' => calls'[d].pc = "confirm"
      BY <1>9, <1>10, <3>1, <3>2
    <3>4. q \in quotes' => \E d \in Calls : Executes(d, q)'
      BY <1>1, <1>9, <3>1 DEF Executes
    <3>. QED
      BY <3>1, <3>3, <3>4
  <2>. QED
    BY <1>1, <2>2, <2>3 DEF Once
<1>. QED
  BY <1>1, <1>6, <1>7, <1>8, <1>11 DEF HostInv, Named

\* What is handed over, if not in doubt, was not handed over before.
LEMMA HandsKeep ==
  ASSUME HostInv, NEW c \in Calls, NEW pc, calls[c].pc = "send", Handed(c), Turn(c, pc),
         \/ pc = "confirm"
         \/ pc = "failed" /\ calls[c].quote \in doubtful',
         UNCHANGED <<config, quotes, shown>>, doubtful \subseteq doubtful'
  PROVE  HostInv'
<1>1. /\ DOMAIN calls' = Calls /\ \A d \in Calls : d # c => calls'[d] = calls[d]
      /\ calls'[c].pc = pc /\ DOMAIN calls'[c] = DOMAIN calls[c]
      /\ \A f \in DOMAIN calls[c] : f # "pc" => calls'[c][f] = calls[c][f]
  BY Turning
<1>2. CallOK(calls[c]) /\ DOMAIN calls[c] = {"pc", "wanted", "quote"} /\ Named(calls[c])
  BY DEF HostInv, CallOK, Executing
<1>3. calls'[c].quote = calls[c].quote /\ calls'[c].wanted = calls[c].wanted
  BY <1>1, <1>2
<1>4. PICK s : s.wanted = calls[c].wanted /\ s.quote = calls[c].quote /\ swaps' = Append(swaps, s)
  <2>. DEFINE s == [wanted |-> calls[c].wanted, quote |-> calls[c].quote]
  <2>1. s.wanted = calls[c].wanted /\ s.quote = calls[c].quote
    OBVIOUS
  <2>2. swaps' = Append(swaps, s)
    BY DEF Handed
  <2>. HIDE DEF s
  <2>. QED
    BY <2>1, <2>2
<1>5. PICK n : n = Len(swaps) + 1
  OBVIOUS
<1>6. PICK S : swaps \in Seq(S)
  BY DEF HostInv
<1>7. /\ swaps' \in Seq(S \cup {s}) /\ DOMAIN swaps' = DOMAIN swaps \cup {n} /\ n \notin DOMAIN swaps
      /\ swaps'[n] = s /\ \A i \in DOMAIN swaps : swaps'[i] = swaps[i]
  <2>1. swaps \in Seq(S \cup {s}) /\ Len(swaps) \in Nat /\ DOMAIN swaps = 1 .. Len(swaps)
    BY <1>6
  <2>2. /\ swaps' \in Seq(S \cup {s}) /\ DOMAIN swaps' = 1 .. Len(swaps) + 1
        /\ swaps'[Len(swaps) + 1] = s /\ \A i \in 1 .. Len(swaps) : swaps'[i] = swaps[i]
    BY <1>4, <2>1
  <2>3. 1 .. Len(swaps) + 1 = 1 .. Len(swaps) \cup {Len(swaps) + 1} /\ Len(swaps) + 1 \notin 1 .. Len(swaps)
    BY <2>1
  <2>. QED
    BY <1>5, <2>1, <2>2, <2>3
<1>8. \A d \in Calls : CallOK(calls[d])'
  <2>1. CallOK(calls[c])'
    BY <1>1, <1>2, <1>3 DEF CallOK, Asking, Executing, Named
  <2>. QED
    BY <1>1, <2>1 DEF HostInv, CallOK, Named
<1>9. \A q \in shown : Proper(q)'
  BY <1>1 DEF HostInv, Proper, Asking
<1>10. \A i \in DOMAIN swaps' : Named(swaps[i])'
  BY <1>2, <1>4, <1>7 DEF HostInv, Named
<1>11. \A d \in Calls : \A q : Executes(d, q)' => Executes(d, q) /\ (d # c => calls'[d].pc = calls[d].pc)
  BY <1>1, <1>3 DEF Executes
<1>12. ASSUME NEW q \in shown \ doubtful' PROVE Once(q)'
  <2>1. Once(q)
    BY <1>12 DEF HostInv
  <2>2. \A d, e \in Calls : Executes(d, q)' /\ Executes(e, q)' => d = e
    BY <1>11, <2>1 DEF Once
  <2>3. CASE q # calls[c].quote
    <3>1. \A i \in DOMAIN swaps' : swaps'[i].quote = q => i \in DOMAIN swaps /\ swaps[i].quote = q
      BY <1>4, <1>7, <2>3
    <3>2. ~Executes(c, q)
      BY <2>3 DEF Executes
    <3>3. \A d \in Calls : Executes(d, q) => Executes(d, q)'
      BY <1>1, <3>2 DEF Executes
    <3>4. ASSUME NEW i \in DOMAIN swaps', swaps'[i].quote = q
          PROVE  /\ \A j \in DOMAIN swaps' : swaps'[j].quote = q => i = j
                 /\ \A d \in Calls : Executes(d, q)' => calls'[d].pc = "confirm"
                 /\ q \in quotes' => \E d \in Calls : Executes(d, q)'
      BY <1>11, <2>1, <3>1, <3>2, <3>3, <3>4 DEF Once
    <3>. QED
      BY <2>2, <3>4 DEF Once
  <2>4. CASE q = calls[c].quote
    <3>1. pc = "confirm" /\ Executes(c, q)
      BY <1>12, <2>4 DEF Executes
    <3>2. \A i \in DOMAIN swaps : swaps[i].quote # q
      BY <2>1, <3>1 DEF Once
    <3>3. \A i \in DOMAIN swaps' : swaps'[i].quote = q => i = n
      BY <1>7, <3>2
    <3>4. Executes(c, q)' /\ calls'[c].pc = "confirm"
      BY <1>1, <1>3, <2>4, <3>1 DEF Executes
    <3>. QED
      BY <2>2, <3>3, <3>4 DEF Once
  <2>. QED
    BY <2>3, <2>4
<1>. QED
  BY <1>1, <1>7, <1>8, <1>9, <1>10, <1>12 DEF HostInv

LEMMA HostStarts == HostInit => HostInv
<1>. SUFFICES ASSUME HostInit PROVE HostInv
  OBVIOUS
<1>1. /\ config \in Configs /\ quotes = {} /\ shown = {} /\ swaps = <<>>
      /\ calls = [c \in Calls |-> [pc |-> "new"]]
  BY DEF HostInit
<1>2. swaps \in Seq({}) /\ DOMAIN swaps = {}
  BY <1>1
<1>. QED
  BY <1>1, <1>2 DEF HostInv, CallOK, Asking, Executing

LEMMA HostStays == HostInv /\ [HostNext]_hvars => HostInv'
<1>. SUFFICES ASSUME HostInv, [HostNext]_hvars PROVE HostInv'
  OBVIOUS
<1>1. CASE EditConfig \/ HostTick \/ UNCHANGED hvars
  BY <1>1, IdleKeeps
<1>2. CASE HostRestart
  BY <1>2, RestartKeeps
<1>3. ASSUME NEW c \in Calls, NEW ask, AskQuote(c, ask) PROVE HostInv'
  BY <1>3, AskQuoteKeeps
<1>4. ASSUME NEW c \in Calls, NEW q \in shown, AskExecute(c, q) PROVE HostInv'
  BY <1>4, AskExecuteKeeps
<1>5. ASSUME NEW c \in Calls, NEW ok,
             \/ RouteFails(c) \/ AskRefused(c) \/ Simulates(c, ok) \/ Confirms(c) \/ NotConfirmed(c)
      PROVE  HostInv'
  BY <1>5, TurnsKeep
<1>6. ASSUME NEW c \in Calls, RouteBuilds(c) PROVE HostInv'
  BY <1>6, BuiltIsProper
<1>7. ASSUME NEW c \in Calls, Sends(c) PROVE HostInv'
  BY <1>7, HandsKeep DEF Sends, outside
<1>8. ASSUME NEW c \in Calls, SendEndsBadly(c) PROVE HostInv'
  <2>1. /\ calls[c].pc = "send" /\ Turn(c, "failed") /\ UNCHANGED <<config, quotes, shown>>
        /\ \/ UNCHANGED <<swaps, doubtful>>
           \/ Handed(c) /\ doubtful' = doubtful \cup {calls[c].quote}
    BY <1>8 DEF SendEndsBadly, outside
  <2>2. CASE UNCHANGED <<swaps, doubtful>>
    BY <2>1, <2>2, TurnKeeps
  <2>3. CASE Handed(c) /\ doubtful' = doubtful \cup {calls[c].quote}
    BY <2>1, <2>3, HandsKeep
  <2>. QED
    BY <2>1, <2>2, <2>3
<1>. QED
  BY <1>1, <1>2, <1>3, <1>4, <1>5, <1>6, <1>7, <1>8 DEF HostNext

\* What solana_swap_execute hands to the chain is the swap its client was shown, within the
\* limits it was quoted under and not by Meteora against the client's no; and it is handed over
\* once if no execution of it failed to finish or overlapped another: for any number of calls,
\* edits of config.yaml and restarts.
THEOREM SwapsTheorem == HostSpec => []SwapsAsShown
<1>1. HostInv => SwapsAsShown
  <2>. SUFFICES ASSUME HostInv PROVE SwapsAsShown
    OBVIOUS
  <2>1. ASSUME NEW i \in DOMAIN swaps
        PROVE  LET q == swaps[i].quote IN
                 /\ ~OneId => q = swaps[i].wanted
                 /\ WithinLimits(q.ask, q.under)
                 /\ q.route = "meteora" => EnvFallback \/ q.ask.fallback # "no"
    BY DEF HostInv, Named, OneId, Proper, MayFallBack
  <2>2. ASSUME NEW i \in DOMAIN swaps, NEW j \in DOMAIN swaps, i # j, swaps[i].quote = swaps[j].quote
        PROVE  swaps[i].quote \in doubtful
    BY <2>2 DEF HostInv, Named, Once
  <2>. QED
    BY <2>1, <2>2 DEF SwapsAsShown
<1>. QED
  BY <1>1, HostStarts, HostStays, PTL DEF HostSpec

-----------------------------------------------------------------------------
(* The plan runner.                                                          *)

Plan(p) == ToPlan(Workflow(p))
Fields == {"pc", "remaining", "done", "lastQuote", "step", "copy", "quote", "newest"}
Quoting == {"quote", "toWrite", "writing"}
Swapping == {"exec", "simulate", "send", "confirm", "toDelete", "deleting"}
InStep == {"balance", "skipped"} \cup Quoting \cup Swapping

\* A run begins the steps of its plan, each once and after all it depends on.
PlanOK(p, r) ==
  /\ DOMAIN r = Fields
  /\ IF r.pc \in {"new", "rejected"} THEN r.done = {} /\ r.step = None ELSE Validate(Workflow(p)) = "ok"
  /\ r.remaining \subseteq Plan(p) /\ \A s \in r.remaining : s.id \notin r.done
  /\ \A x \in r.done : \E s \in Plan(p) : s.id = x /\ s.deps \subseteq r.done
  /\ r.step = None \/ (r.step \in Plan(p) /\ r.step.deps \subseteq r.done)
  /\ r.pc \in InStep => r.step \in r.remaining /\ r.step.deps \subseteq r.done
  /\ r.pc \in Quoting => r.step.tool = SwapQuote
  /\ r.pc \in Swapping => r.step.tool = SwapExec /\ (r.step.quoteId # None \/ r.lastQuote # None)

PlanInv == setup \in Setups /\ DOMAIN run = Procs /\ \A p \in Procs : PlanOK(p, run[p])

\* Of a workflow the scheduler accepts: its steps have ids of their own, an execution waits
\* for a quote, and the balances bracket the swaps.
LEMMA PlanFacts ==
  ASSUME NEW w, Validate(w) = "ok"
  PROVE  /\ \A s, t \in ToPlan(w) : s.id = t.id => s = t
         /\ \A s \in ToPlan(w), tool \in {SwapQuote, SwapExec} : s.tool = tool <=> s.id \in IdsWith(w, tool)
         /\ \A s \in ToPlan(w) : s.tool = SwapExec => s.deps \cap IdsWith(w, SwapQuote) # {}
         /\ IdsWith(w, SwapExec) # {} => \A s \in ToPlan(w) :
              /\ s.tool = SwapQuote => Before \in s.deps
              /\ s.id = After => IdsWith(w, SwapExec) \subseteq s.deps
         /\ \A x \in IdsWith(w, SwapQuote) \cup IdsWith(w, SwapExec) : \E s \in ToPlan(w) : s.id = x
<1>. DEFINE E == IdsWith(w, SwapExec)
            steps == {StepOf(w[i]) : i \in DOMAIN w}
            Of(i) == IF E = {} THEN StepOf(w[i]) ELSE Patched(StepOf(w[i]), E)
<1>1. UniqIds(w) /\ ValidSwapExec(w)
  BY DEF Validate
<1>2. E = {s.id : s \in {t \in steps : t.tool = SwapExec}}
  <2>1. \A i \in DOMAIN w : StepOf(w[i]).id = w[i].id /\ StepOf(w[i]).tool = w[i].tool
    BY DEF StepOf
  <2>. QED
    BY <2>1 DEF IdsWith
<1>3. IdsOf(w) = {s.id : s \in steps}
  <2>1. \A i \in DOMAIN w : StepOf(w[i]).id = w[i].id
    BY DEF StepOf
  <2>. QED
    BY <2>1 DEF IdsOf
<1>4. ASSUME NEW s \in ToPlan(w)
      PROVE  \/ \E i \in DOMAIN w : s = Of(i)
             \/ E # {} /\ Before \notin IdsOf(w) /\ s = BalanceStep(Before, {})
             \/ E # {} /\ After \notin IdsOf(w) /\ s = BalanceStep(After, E)
  <2>. HIDE DEF E
  <2>. QED
    BY <1>2, <1>3 DEF ToPlan, WithBalances
<1>5. \A i \in DOMAIN w : Of(i) \in ToPlan(w)
  <2>. HIDE DEF E
  <2>. QED
    BY <1>2, <1>3 DEF ToPlan, WithBalances
<1>6. ASSUME NEW i \in DOMAIN w
      PROVE  /\ Of(i).id = w[i].id /\ Of(i).tool = w[i].tool /\ DepsOf(w[i]) \subseteq Of(i).deps
             /\ w[i].id \in IdsOf(w)
             /\ E # {} => /\ w[i].tool = SwapQuote => Before \in Of(i).deps
                          /\ w[i].id = After => E \subseteq Of(i).deps
  <2>. HIDE DEF E
  <2>. QED
    BY DEF StepOf, Patched, IdsOf
<1>7. \A i \in DOMAIN w : \A tool : w[i].tool = tool <=> w[i].id \in IdsWith(w, tool)
  BY <1>1 DEF UniqIds, IdsWith
<1>8. /\ \A deps : /\ BalanceStep(Before, deps).id = Before /\ BalanceStep(Before, deps).tool = Balance
                   /\ BalanceStep(After, deps).id = After /\ BalanceStep(After, deps).tool = Balance
                   /\ BalanceStep(After, deps).deps = deps
      /\ Before # After /\ Balance # SwapQuote /\ Balance # SwapExec
  BY DEF BalanceStep, Before, After, Balance, SwapQuote, SwapExec
<1>9. \A tool : IdsWith(w, tool) \subseteq IdsOf(w)
  BY DEF IdsWith, IdsOf
<1>. HIDE DEF E, Of
<1>10. \A s, t \in ToPlan(w) : s.id = t.id => s = t
  BY <1>1, <1>4, <1>6, <1>8 DEF UniqIds
<1>11. \A s \in ToPlan(w), tool \in {SwapQuote, SwapExec} : s.tool = tool <=> s.id \in IdsWith(w, tool)
  BY <1>4, <1>6, <1>7, <1>8, <1>9
<1>12. \A s \in ToPlan(w) : s.tool = SwapExec => s.deps \cap IdsWith(w, SwapQuote) # {}
  <2>1. \A i \in DOMAIN w : w[i].tool = SwapExec => DepsOf(w[i]) \cap IdsWith(w, SwapQuote) # {}
    BY <1>1 DEF ValidSwapExec
  <2>. QED
    BY <1>4, <1>6, <1>8, <2>1
<1>13. E # {} => \A s \in ToPlan(w) : /\ s.tool = SwapQuote => Before \in s.deps
                                      /\ s.id = After => E \subseteq s.deps
  BY <1>4, <1>6, <1>8
<1>14. \A x \in IdsWith(w, SwapQuote) \cup IdsWith(w, SwapExec) : \E s \in ToPlan(w) : s.id = x
  BY <1>5, <1>6 DEF IdsWith
<1>. QED
  BY <1>10, <1>11, <1>12, <1>13, <1>14 DEF E

\* The step a run takes next is one that is ready.
LEMMA FirstIsReady ==
  ASSUME NEW p \in Procs, setup \in Setups, Ready(p) \subseteq Plan(p), Ready(p) # {}
  PROVE  First(Ready(p)) \in Ready(p)
<1>. DEFINE P == {Place(s.id) : s \in Ready(p)}
<1>1. \A s \in Ready(p) : Place(s.id) \in Nat
  BY OrderAssumption DEF Place, Plan, Workflow, Job
<1>2. P # {} /\ P \subseteq Nat
  BY <1>1
<1>3. PICK n \in P : \A m \in P : <<m, n>> \notin OpToRel(<, Nat)
  BY <1>2, NatLessThanWellFounded, WFMin
<1>4. ASSUME NEW m \in P PROVE n <= m
  <2>1. m \in Nat /\ n \in Nat /\ ~ (m < n)
    BY <1>2, <1>3 DEF OpToRel
  <2>. QED
    BY <2>1
<1>5. PICK s \in Ready(p) : n = Place(s.id)
  BY <1>3
<1>. QED
  BY <1>4, <1>5 DEF First


\* A run moves on.
LEMMA Going ==
  ASSUME PlanInv, NEW p \in Procs, NEW pc, Goto(p, pc)
  PROVE  /\ DOMAIN run' = Procs /\ \A o \in Procs : o # p => run'[o] = run[o]
         /\ DOMAIN run'[p] = Fields /\ run'[p].pc = pc
         /\ run'[p].remaining = run[p].remaining /\ run'[p].done = run[p].done
         /\ run'[p].lastQuote = run[p].lastQuote /\ run'[p].step = run[p].step
         /\ run'[p].copy = run[p].copy /\ run'[p].quote = run[p].quote
         /\ run'[p].newest = run[p].newest
  BY DEF PlanInv, PlanOK, Fields, Goto

\* Only the run that moves is to be looked at.
LEMMA OthersKeep ==
  ASSUME PlanInv, NEW p \in Procs, setup' = setup, DOMAIN run' = Procs,
         \A o \in Procs : o # p => run'[o] = run[o], PlanOK(p, run[p])'
  PROVE  PlanInv'
<1>1. ASSUME NEW o \in Procs, o # p PROVE PlanOK(o, run[o])'
  <2>1. PlanOK(o, run[o]) /\ run'[o] = run[o]
    BY <1>1 DEF PlanInv
  <2>. QED
    BY <2>1 DEF PlanOK, Plan, Workflow, Job
<1>. QED
  BY <1>1 DEF PlanInv

\* A run moves on within a step, or ends.
LEMMA PlanMoves ==
  ASSUME PlanInv, NEW p \in Procs, setup' = setup, DOMAIN run' = Procs,
         \A o \in Procs : o # p => run'[o] = run[o],
         DOMAIN run'[p] = Fields, run'[p].remaining = run[p].remaining, run'[p].done = run[p].done,
         run'[p].lastQuote = run[p].lastQuote, run'[p].step = run[p].step,
         run[p].pc \notin {"new", "rejected"}, run'[p].pc \notin {"new", "rejected", "balance", "skipped"},
         run'[p].pc \in Quoting => run[p].pc \in Quoting, run'[p].pc \in Swapping => run[p].pc \in Swapping
  PROVE  PlanInv'
<1>1. PlanOK(p, run[p])
  BY DEF PlanInv
<1>2. PlanOK(p, run[p])'
  BY <1>1 DEF PlanOK, InStep, Plan, Workflow, Job
<1>. QED
  BY <1>2, OthersKeep

\* A step is done.
LEMMA DoneKeeps ==
  ASSUME PlanInv, NEW p \in Procs, NEW lastQuote, setup' = setup, run[p].pc \in InStep,
         run' = [run EXCEPT ![p] = Done(run[p], lastQuote)]
  PROVE  PlanInv'
<1>1. PlanOK(p, run[p]) /\ DOMAIN run = Procs
  BY DEF PlanInv
<1>2. /\ run'[p].pc = "ready" /\ run'[p].done = run[p].done \cup {run[p].step.id}
      /\ run'[p].remaining = run[p].remaining \ {run[p].step} /\ run'[p].step = None
      /\ DOMAIN run'[p] = Fields
  BY <1>1 DEF Done, PlanOK, Fields
<1>3. Validate(Workflow(p)) = "ok" /\ run[p].step \in run[p].remaining /\ run[p].step \in Plan(p)
  BY <1>1 DEF PlanOK, InStep, Quoting, Swapping
<1>4. \A s, t \in Plan(p) : s.id = t.id => s = t
  BY <1>3, PlanFacts DEF Plan
<1>5. \A s \in run'[p].remaining : s.id \notin run'[p].done
  BY <1>1, <1>2, <1>3, <1>4 DEF PlanOK
<1>6. \A x \in run'[p].done : \E s \in Plan(p) : s.id = x /\ s.deps \subseteq run'[p].done
  BY <1>1, <1>2, <1>3 DEF PlanOK
<1>7. PlanOK(p, run[p])'
  <2>1. run'[p].remaining \subseteq Plan(p)
    BY <1>1, <1>2 DEF PlanOK
  <2>2. run'[p].pc \notin InStep
    BY <1>2 DEF InStep, Quoting, Swapping
  <2>3. Workflow(p)' = Workflow(p) /\ Plan(p)' = Plan(p)
    BY DEF Plan, Workflow, Job
  <2>. QED
    BY <1>2, <1>3, <1>5, <1>6, <2>1, <2>2, <2>3 DEF PlanOK, InStep
<1>. QED
  BY <1>1, <1>7, OthersKeep

LEMMA CompileKeeps == ASSUME PlanInv, NEW p \in Procs, Compile(p) PROVE PlanInv'
<1>1. PlanOK(p, run[p]) /\ DOMAIN run = Procs
  BY DEF PlanInv
<1>2. DOMAIN run' = Procs /\ setup' = setup /\ \A o \in Procs : o # p => run'[o] = run[o]
  BY <1>1 DEF Compile
<1>3. Workflow(p)' = Workflow(p) /\ Plan(p)' = Plan(p)
  BY <1>2 DEF Plan, Workflow, Job
<1>4. CASE Validate(Workflow(p)) = "ok"
  <2>1. /\ run'[p].pc = "ready" /\ run'[p].remaining = Plan(p) /\ DOMAIN run'[p] = Fields
        /\ run'[p].done = {} /\ run'[p].step = None
    BY <1>1, <1>4 DEF Compile, Plan, Workflow, PlanOK, Fields
  <2>2. PlanOK(p, run[p])'
    BY <1>3, <1>4, <2>1 DEF PlanOK, InStep, Quoting, Swapping
  <2>. QED
    BY <1>2, <2>2, OthersKeep
<1>5. CASE Validate(Workflow(p)) # "ok"
  <2>1. /\ run'[p].pc = "rejected" /\ run'[p].remaining = run[p].remaining /\ DOMAIN run'[p] = Fields
        /\ run'[p].done = {} /\ run'[p].step = None
    BY <1>1, <1>5 DEF Compile, Workflow, PlanOK, Fields
  <2>2. PlanOK(p, run[p])'
    BY <1>1, <1>3, <2>1 DEF PlanOK, InStep, Quoting, Swapping
  <2>. QED
    BY <1>2, <2>2, OthersKeep
<1>. QED
  BY <1>4, <1>5

LEMMA StartKeeps == ASSUME PlanInv, NEW p \in Procs, StartStep(p) PROVE PlanInv'
<1>. DEFINE s == First(Ready(p))
<1>1. PlanOK(p, run[p]) /\ DOMAIN run = Procs /\ setup \in Setups
  BY DEF PlanInv
<1>2. s \in run[p].remaining /\ s.deps \subseteq run[p].done
  <2>1. Ready(p) \subseteq Plan(p) /\ Ready(p) # {}
    BY <1>1 DEF PlanOK, StartStep, Ready
  <2>2. s \in Ready(p)
    BY <1>1, <2>1, FirstIsReady
  <2>. QED
    BY <2>2 DEF Ready
<1>. HIDE DEF s
<1>3. /\ DOMAIN run' = Procs /\ setup' = setup /\ \A o \in Procs : o # p => run'[o] = run[o]
      /\ DOMAIN run'[p] = Fields /\ run'[p].pc = EntryOf(p, s) /\ run'[p].step = s
      /\ run'[p].remaining = run[p].remaining /\ run'[p].done = run[p].done
      /\ run'[p].lastQuote = run[p].lastQuote
  BY <1>1 DEF StartStep, PlanOK, Fields, s
<1>4. /\ EntryOf(p, s) \in {"balance", "quote", "skipped", "exec", "failed"}
      /\ EntryOf(p, s) = "quote" => s.tool = SwapQuote
      /\ EntryOf(p, s) = "exec" => s.tool = SwapExec /\ (s.quoteId # None \/ run[p].lastQuote # None)
  BY DEF EntryOf, QuoteIdOf, Balance, SwapQuote, SwapExec
<1>5. Workflow(p)' = Workflow(p) /\ Plan(p)' = Plan(p)
  BY <1>3 DEF Plan, Workflow, Job
<1>6. run[p].pc = "ready"
  BY DEF StartStep
<1>7. Validate(Workflow(p)) = "ok"
  BY <1>1, <1>6 DEF PlanOK
<1>8. PlanOK(p, run[p])'
  <2>1. s \in Plan(p)
    BY <1>1, <1>2 DEF PlanOK
  <2>2. run'[p].pc \in InStep => run'[p].pc \in {"balance", "quote", "skipped", "exec"}
    BY <1>3, <1>4 DEF InStep, Quoting, Swapping
  <2>. QED
    BY <1>1, <1>2, <1>3, <1>4, <1>5, <1>7, <2>1, <2>2 DEF PlanOK, InStep, Quoting, Swapping
<1>. QED
  BY <1>3, <1>8, OthersKeep

LEMMA PlanStarts == Init => PlanInv
<1>. SUFFICES ASSUME Init PROVE PlanInv
  OBVIOUS
<1>1. /\ setup \in Setups /\ DOMAIN run = Procs /\ \A p \in Procs : run[p] = Idle
  BY DEF Init
<1>2. \A p : PlanOK(p, Idle)
  BY DEF PlanOK, Idle, Fields, InStep, Quoting, Swapping
<1>. QED
  BY <1>1, <1>2 DEF PlanInv

\* The same run in other words: the moves that leave the plan alone.
LEMMA GoingKeeps ==
  ASSUME PlanInv, NEW p \in Procs, NEW pc, Goto(p, pc), setup' = setup,
         run[p].pc \notin {"new", "rejected"}, pc \notin {"new", "rejected", "balance", "skipped"},
         pc \in Quoting => run[p].pc \in Quoting, pc \in Swapping => run[p].pc \in Swapping
  PROVE  PlanInv'
<1>1. /\ DOMAIN run' = Procs /\ \A o \in Procs : o # p => run'[o] = run[o]
      /\ DOMAIN run'[p] = Fields /\ run'[p].pc = pc
      /\ run'[p].remaining = run[p].remaining /\ run'[p].done = run[p].done
      /\ run'[p].lastQuote = run[p].lastQuote /\ run'[p].step = run[p].step
  BY Going
<1>. QED
  BY <1>1, PlanMoves

\* A run gains a quote and a copy of the file, by making the quote or by finding it.
Gains(p) ==
  /\ DOMAIN run' = Procs /\ \A o \in Procs : o # p => run'[o] = run[o]
  /\ DOMAIN run'[p] = Fields
  /\ run'[p].remaining = run[p].remaining /\ run'[p].done = run[p].done
  /\ run'[p].lastQuote = run[p].lastQuote /\ run'[p].step = run[p].step
  /\ run'[p].copy = ReadQuoteStore

LEMMA Builds ==
  ASSUME PlanInv, NEW p \in Procs, QuoteBuilt(p)
  PROVE  /\ Gains(p) /\ setup' = setup /\ run[p].pc = "quote" /\ run'[p].pc = "toWrite"
         /\ run'[p].quote.by = <<p, run[p].step.id>> /\ issued' = issued \cup {run'[p].quote}
         /\ run'[p].newest = run'[p].quote
<1>1. DOMAIN run = Procs /\ DOMAIN run[p] = Fields
  BY DEF PlanInv, PlanOK
<1>2. PICK id \in NewIds(p) :
        LET q == [id |-> id, by |-> <<p, run[p].step.id>>, expiresAt |-> now + QuoteLife]
        IN  /\ run' = [run EXCEPT ![p].pc = "toWrite", ![p].quote = q, ![p].newest = q,
                                  ![p].copy = ReadQuoteStore]
            /\ issued' = issued \cup {q}
  BY DEF QuoteBuilt
<1>3. Gains(p) /\ run'[p].pc = "toWrite"
  BY <1>1, <1>2 DEF Gains, Fields
<1>4. /\ run'[p].quote.by = <<p, run[p].step.id>> /\ issued' = issued \cup {run'[p].quote}
      /\ run'[p].newest = run'[p].quote
  BY <1>1, <1>2 DEF Fields
<1>. QED
  BY <1>3, <1>4 DEF QuoteBuilt

LEMMA Finds ==
  ASSUME PlanInv, NEW p \in Procs, LookUp(p)
  PROVE  /\ Gains(p) /\ setup' = setup /\ run[p].pc = "exec" /\ run'[p].pc = "simulate"
         /\ run'[p].quote \in ReadQuoteStore /\ run'[p].quote.id = QuoteIdOf(p, run[p].step)
         /\ run'[p].newest = run[p].newest
<1>1. DOMAIN run = Procs /\ DOMAIN run[p] = Fields
  BY DEF PlanInv, PlanOK
<1>2. /\ run' = [run EXCEPT ![p].pc = "simulate", ![p].quote = CHOOSE q \in Found(p) : TRUE,
                            ![p].copy = ReadQuoteStore]
      /\ Found(p) # {}
  BY DEF LookUp
<1>3. /\ Gains(p) /\ run'[p].pc = "simulate" /\ run'[p].quote \in Found(p)
      /\ run'[p].newest = run[p].newest
  BY <1>1, <1>2 DEF Gains, Fields
<1>. QED
  BY <1>3 DEF LookUp, Found

LEMMA PlanStays == PlanInv /\ [Next]_vars => PlanInv'
<1>. SUFFICES ASSUME PlanInv, [Next]_vars PROVE PlanInv'
  OBVIOUS
<1>1. CASE UNCHANGED <<setup, run>>
  BY <1>1 DEF PlanInv, PlanOK, Plan, Workflow, Job
<1>2. ASSUME NEW p \in Procs, Compile(p) PROVE PlanInv'
  BY <1>2, CompileKeeps
<1>3. ASSUME NEW p \in Procs, StartStep(p) PROVE PlanInv'
  BY <1>3, StartKeeps
<1>4. ASSUME NEW p \in Procs, AllDone(p) \/ NothingRunnable(p) PROVE PlanInv'
  BY <1>4, GoingKeeps DEF AllDone, NothingRunnable, Quoting, Swapping
<1>5. ASSUME NEW p \in Procs, StepFails(p) \/ Refused(p) \/ SendFails(p) \/ ConfirmFails(p) PROVE PlanInv'
  BY <1>5, GoingKeeps DEF StepFails, Refused, SendFails, ConfirmFails, Quoting, Swapping
<1>6. ASSUME NEW p \in Procs, Simulated(p) \/ Sent(p) \/ Confirmed(p) PROVE PlanInv'
  BY <1>6, GoingKeeps DEF Simulated, Sent, Confirmed, Quoting, Swapping
<1>7. ASSUME NEW p \in Procs, Truncate(p) PROVE PlanInv'
  BY <1>7, GoingKeeps DEF Truncate, Quoting, Swapping
<1>8. ASSUME NEW p \in Procs, Crash(p) PROVE PlanInv'
  BY <1>8, GoingKeeps DEF Crash, Active, Quoting, Swapping
<1>9. ASSUME NEW p \in Procs, StepEnds(p) PROVE PlanInv'
  BY <1>9, DoneKeeps DEF StepEnds, InStep
<1>10. ASSUME NEW p \in Procs, QuoteWritten(p) PROVE PlanInv'
  <2>1. PlanOK(p, run[p]) /\ DOMAIN run = Procs
    BY DEF PlanInv
  <2>2. run' = [run EXCEPT ![p] = Done(run[p], run[p].quote.id)]
    BY <1>10, <2>1 DEF QuoteWritten, LastQuoteId
  <2>. QED
    BY <1>10, <2>2, DoneKeeps DEF QuoteWritten, InStep, Quoting
<1>11. ASSUME NEW p \in Procs, QuoteDeleted(p) PROVE PlanInv'
  BY <1>11, DoneKeeps DEF QuoteDeleted, InStep, Swapping
<1>12. ASSUME NEW p \in Procs, QuoteBuilt(p) PROVE PlanInv'
  <2>1. /\ Gains(p) /\ setup' = setup /\ run[p].pc = "quote" /\ run'[p].pc = "toWrite"
    BY <1>12, Builds
  <2>. QED
    BY <2>1, PlanMoves DEF Gains, Quoting, Swapping
<1>13. ASSUME NEW p \in Procs, LookUp(p) PROVE PlanInv'
  <2>1. /\ Gains(p) /\ setup' = setup /\ run[p].pc = "exec" /\ run'[p].pc = "simulate"
    BY <1>13, Finds
  <2>. QED
    BY <2>1, PlanMoves DEF Gains, Quoting, Swapping
<1>. QED
  BY <1>1, <1>2, <1>3, <1>4, <1>5, <1>6, <1>7, <1>8, <1>9, <1>10, <1>11, <1>12,
     <1>13 DEF Next, Tick, vars

\* The balances bracket the swaps: for every workflow the scheduler accepts, no swap is
\* quoted or executed before balance_before, and balance_after comes after every execution.
THEOREM BracketTheorem == Spec => []SwapsAreBracketed
<1>1. PlanInv => SwapsAreBracketed
  <2>. SUFFICES ASSUME PlanInv, NEW p \in Procs, PlanIds(p, SwapExec) # {}
                PROVE  LET begun == run[p].done \cup (IF run[p].step = None THEN {} ELSE {run[p].step.id})
                       IN  /\ begun \cap (PlanIds(p, SwapExec) \cup PlanIds(p, SwapQuote)) # {} => Before \in run[p].done
                           /\ After \in begun => PlanIds(p, SwapExec) \subseteq run[p].done
    BY DEF SwapsAreBracketed
  <2>. DEFINE begun == run[p].done \cup (IF run[p].step = None THEN {} ELSE {run[p].step.id})
  <2>1. PlanOK(p, run[p])
    BY DEF PlanInv
  <2>2. \A x \in begun : \E s \in Plan(p) : s.id = x /\ s.deps \subseteq run[p].done
    BY <2>1 DEF PlanOK
  <2>3. CASE run[p].pc \in {"new", "rejected"}
    BY <2>1, <2>3 DEF PlanOK
  <2>4. CASE Validate(Workflow(p)) = "ok"
    <3>1. \A s \in Plan(p), tool \in {SwapQuote, SwapExec} : s.tool = tool <=> s.id \in PlanIds(p, tool)
      BY <2>4, PlanFacts DEF Plan, PlanIds
    <3>2. \A s \in Plan(p) : s.tool = SwapExec => s.deps \cap PlanIds(p, SwapQuote) # {}
      BY <2>4, PlanFacts DEF Plan, PlanIds
    <3>3. \A s \in Plan(p) : /\ s.tool = SwapQuote => Before \in s.deps
                             /\ s.id = After => PlanIds(p, SwapExec) \subseteq s.deps
      BY <2>4, PlanFacts DEF Plan, PlanIds
    <3>. HIDE DEF begun
    <3>4. ASSUME NEW x \in begun, x \in PlanIds(p, SwapQuote) PROVE Before \in run[p].done
      BY <2>2, <3>1, <3>3, <3>4
    <3>5. ASSUME NEW x \in begun, x \in PlanIds(p, SwapExec) PROVE Before \in run[p].done
      <4>1. PICK s \in Plan(p) : s.id = x /\ s.deps \subseteq run[p].done
        BY <2>2
      <4>2. PICK y \in s.deps : y \in PlanIds(p, SwapQuote)
        BY <3>1, <3>2, <3>5, <4>1
      <4>3. y \in begun
        BY <4>1, <4>2 DEF begun
      <4>. QED
        BY <3>4, <4>2, <4>3
    <3>6. After \in begun => PlanIds(p, SwapExec) \subseteq run[p].done
      BY <2>2, <3>3
    <3>7. begun \cap (PlanIds(p, SwapExec) \cup PlanIds(p, SwapQuote)) # {} => Before \in run[p].done
      BY <3>4, <3>5
    <3>. QED
      BY <3>6, <3>7 DEF begun
  <2>. QED
    BY <2>1, <2>3, <2>4 DEF PlanOK
<1>. QED
  BY <1>1, PlanStarts, PlanStays, PTL DEF Spec

-----------------------------------------------------------------------------
(* The file of quotes.                                                       *)

By(q) == q.by[1]
StepBy(q) == q.by[2]
InFile(q) == file # Corrupt /\ q \in file
OnRecord(q) == \E i \in DOMAIN sent : sent[i].quote = q

HandedOver == {"confirm", "toDelete", "deleting"}
InHand == {"simulate", "send"} \cup HandedOver
Swaps(p, q) == run[p].pc \in InHand /\ run[p].quote = q

\* A quote is made by a step of its run that has not made one before.
MadeOnce(q) ==
  /\ By(q) \in Procs /\ StepBy(q) \in PlanIds(By(q), SwapQuote) /\ run[By(q)].pc # "new"
  /\ \/ \A s \in run[By(q)].remaining : s.id # StepBy(q)
     \/ /\ run[By(q)].pc \in {"toWrite", "writing", "killed"}
        /\ run[By(q)].step.id = StepBy(q) /\ run[By(q)].quote = q

\* A quote that is not written yet is nowhere.
Unwritten(p) ==
  run[p].pc \in {"toWrite", "writing"} =>
    LET q == run[p].quote
    IN  /\ By(q) = p /\ StepBy(q) = run[p].step.id
        /\ ~InFile(q) /\ ~OnRecord(q)
        /\ \A o \in Procs : Holding(o) => q \notin run[o].copy /\ ~Swaps(o, q)

\* What a run remembers is the id of the quote it built last, once that is written.
Recalls(p) ==
  IF run[p].pc \in {"toWrite", "writing"} THEN run[p].newest = run[p].quote
  ELSE run[p].pc # "killed" /\ run[p].lastQuote # None =>
         run[p].newest \in issued /\ run[p].newest.id = run[p].lastQuote /\ By(run[p].newest) = p

\* The quote of an execution that names none is the one that its own run built last, n.
Own(p, s, q, n) == s.quoteId # None \/ (q = n /\ By(q) = p) \/ Collided

Carries(p) ==
  /\ Holding(p) => run[p].copy \subseteq issued /\ run[p].quote \in issued
  /\ Unwritten(p)
  /\ Recalls(p)
  /\ run[p].pc \in InHand => Own(p, run[p].step, run[p].quote, run[p].newest)

OnTheBooks(e) ==
  /\ e.by \in Procs /\ e.quote \in issued /\ Validate(Workflow(e.by)) = "ok"
  /\ \E s \in Plan(e.by) : s.id = e.step /\ s.tool = SwapExec /\ Own(e.by, s, e.quote, e.newest)

\* What was handed to the chain is gone, or in the hands of the process that did it.
Spent(q) ==
  OnRecord(q) =>
    /\ \A i, j \in DOMAIN sent : sent[i].quote = q /\ sent[j].quote = q => i = j
    /\ \A p \in Procs : Swaps(p, q) => run[p].pc \in HandedOver
    /\ InFile(q) => \E p \in Procs : Swaps(p, q)
    /\ \A p \in Procs : Holding(p) /\ q \in run[p].copy => Swaps(p, q)

Alone == \A p, o \in Procs : Holding(p) /\ Holding(o) => p = o

QuoteInv ==
  /\ \E S : sent \in Seq(S)
  /\ \A q \in issued : MadeOnce(q)
  /\ \A q : InFile(q) => q \in issued
  /\ \A p \in Procs : Carries(p)
  /\ \A i \in DOMAIN sent : OnTheBooks(sent[i])
  /\ None \notin broken => Alone /\ \A q \in issued : q.by \notin broken => Spent(q)

LEMMA QuotesStart == Init => QuoteInv
<1>. SUFFICES ASSUME Init PROVE QuoteInv
  OBVIOUS
<1>1. /\ issued = {} /\ sent = <<>> /\ file = {} /\ \A p \in Procs : run[p] = Idle
  BY DEF Init
<1>2. sent \in Seq({})
  BY <1>1
<1>3. \A p \in Procs : run[p].pc = "new" /\ run[p].lastQuote = None
  BY <1>1 DEF Idle
<1>4. \A p \in Procs : ~Holding(p) /\ Carries(p)
  BY <1>3 DEF Holding, Carries, Unwritten, Recalls, InHand, HandedOver
<1>5. DOMAIN sent = {}
  BY <1>1
<1>. QED
  BY <1>1, <1>2, <1>4, <1>5 DEF QuoteInv, Alone, InFile

\* A run takes a step in which no quote is made, found, written or handed over.
LEMMA QuotesKeep ==
  ASSUME QuoteInv, NEW p \in Procs, DOMAIN run' = Procs, \A o \in Procs : o # p => run'[o] = run[o],
         UNCHANGED <<setup, issued, sent>>, broken \subseteq broken',
         \A q : InFile(q)' => InFile(q) \/ (Holding(p) /\ q \in run[p].copy),
         run'[p].pc # "new", run[p].pc = "new" \/ run'[p].remaining \subseteq run[p].remaining,
         run[p].pc \in {"toWrite", "writing", "killed"} =>
           /\ run'[p].pc \in {"toWrite", "writing", "killed"}
           /\ run'[p].step = run[p].step /\ run'[p].quote = run[p].quote,
         Holding(p)' => Holding(p) /\ run'[p].copy = run[p].copy /\ run'[p].quote = run[p].quote
                                   /\ run'[p].step = run[p].step,
         run'[p].pc \in {"toWrite", "writing"} => run[p].pc \in {"toWrite", "writing"},
         run'[p].pc \in InHand => run[p].pc \in InHand,
         run'[p].pc \in InHand /\ run[p].pc \in HandedOver => run'[p].pc \in HandedOver,
         \A q : run[p].pc \in HandedOver /\ run[p].quote = q =>
           run'[p].pc \in HandedOver \/ q.by \in broken' \/ ~InFile(q)',
         run'[p].lastQuote = run[p].lastQuote, run'[p].newest = run[p].newest
  PROVE  QuoteInv'
<1>1. \A q \in issued : MadeOnce(q)'
  <2>. SUFFICES ASSUME NEW q \in issued PROVE MadeOnce(q)'
    OBVIOUS
  <2>1. MadeOnce(q)
    BY DEF QuoteInv
  <2>2. CASE By(q) = p
    BY <2>1, <2>2 DEF MadeOnce, PlanIds, Workflow, Job, By, StepBy
  <2>3. CASE By(q) # p
    BY <2>1, <2>3 DEF MadeOnce, PlanIds, Workflow, Job, By, StepBy
  <2>. QED
    BY <2>2, <2>3
<1>2. \A q : InFile(q)' => q \in issued
  BY DEF QuoteInv, Carries
<1>3. \A o \in Procs : /\ Holding(o)' => Holding(o) /\ run'[o].copy = run[o].copy /\ run'[o].quote = run[o].quote
                                                   /\ run'[o].step = run[o].step
                       /\ \A q : Swaps(o, q)' => Swaps(o, q)
  BY DEF Holding, Swaps, InHand, HandedOver
<1>4. ASSUME NEW o \in Procs PROVE Carries(o)'
  <2>1. Carries(o) /\ Carries(p)
    BY DEF QuoteInv
  <2>2. (Holding(o) => run[o].copy \subseteq issued /\ run[o].quote \in issued)'
    BY <1>3, <2>1 DEF Carries
  <2>3. Unwritten(o)'
    <3>. SUFFICES ASSUME run'[o].pc \in {"toWrite", "writing"}, NEW x, x = run'[o].quote
                  PROVE  /\ By(x) = o /\ StepBy(x) = run'[o].step.id
                         /\ ~InFile(x)' /\ ~OnRecord(x)'
                         /\ \A a \in Procs : Holding(a)' => x \notin run'[a].copy /\ ~Swaps(a, x)'
      BY DEF Unwritten, By, StepBy, InFile, OnRecord, Swaps
    <3>1. run[o].pc \in {"toWrite", "writing"}
      OBVIOUS
    <3>2. run'[o].quote = run[o].quote /\ run'[o].step = run[o].step
      BY <3>1
    <3>. DEFINE q == run[o].quote
    <3>3. /\ By(q) = o /\ StepBy(q) = run[o].step.id
          /\ ~InFile(q) /\ ~OnRecord(q)
          /\ \A a \in Procs : Holding(a) => q \notin run[a].copy /\ ~Swaps(a, q)
      BY <2>1, <3>1 DEF Carries, Unwritten
    <3>4. x = q
      BY <3>2
    <3>5. ~InFile(x)' /\ ~OnRecord(x)'
      BY <3>3, <3>4 DEF OnRecord
    <3>6. \A a \in Procs : Holding(a)' => x \notin run'[a].copy /\ ~Swaps(a, x)'
      BY <1>3, <3>3, <3>4
    <3>. QED
      BY <3>2, <3>3, <3>4, <3>5, <3>6
  <2>4. Recalls(o)'
    <3>1. Recalls(o)
      BY <2>1 DEF Carries
    <3>2. CASE o = p
      BY <3>1, <3>2 DEF Recalls, By
    <3>3. CASE o # p
      BY <3>1, <3>3 DEF Recalls, By
    <3>. QED
      BY <3>2, <3>3
  <2>5. (run[o].pc \in InHand => Own(o, run[o].step, run[o].quote, run[o].newest))'
    <3>. SUFFICES ASSUME run'[o].pc \in InHand PROVE Own(o, run[o].step, run[o].quote, run[o].newest)'
      BY DEF InHand, HandedOver
    <3>1. run[o].pc \in InHand /\ run'[o].step = run[o].step /\ run'[o].quote = run[o].quote
      BY <1>3 DEF InHand, HandedOver, Holding
    <3>. QED
      BY <2>1, <3>1 DEF Carries, Own, By, Collided
  <2>. QED
    BY <2>2, <2>3, <2>4, <2>5 DEF Carries
<1>5. \A i \in DOMAIN sent : OnTheBooks(sent[i])'
  BY DEF QuoteInv, OnTheBooks, Plan, Workflow, Job, Own, By, Collided
<1>6. ASSUME None \notin broken' PROVE Alone'
  BY <1>3, <1>6 DEF QuoteInv, Alone
<1>7. ASSUME None \notin broken', NEW q \in issued, q.by \notin broken' PROVE Spent(q)'
  <2>. SUFFICES ASSUME OnRecord(q)'
                PROVE  /\ \A i, j \in DOMAIN sent' : sent'[i].quote = q /\ sent'[j].quote = q => i = j
                       /\ \A o \in Procs : Swaps(o, q)' => run'[o].pc \in HandedOver
                       /\ InFile(q)' => \E o \in Procs : Swaps(o, q)'
                       /\ \A o \in Procs : Holding(o)' /\ q \in run'[o].copy => Swaps(o, q)'
    BY DEF Spent, HandedOver
  <2>1. OnRecord(q)
    BY DEF OnRecord
  <2>2. /\ \A i, j \in DOMAIN sent : sent[i].quote = q /\ sent[j].quote = q => i = j
        /\ \A o \in Procs : Swaps(o, q) => run[o].pc \in HandedOver
        /\ InFile(q) => \E o \in Procs : Swaps(o, q)
        /\ \A o \in Procs : Holding(o) /\ q \in run[o].copy => Swaps(o, q)
    BY <1>7, <2>1 DEF QuoteInv, Spent
  <2>3. \A o \in Procs : Swaps(o, q)' => run'[o].pc \in HandedOver
    BY <1>3, <2>2 DEF Swaps, InHand, HandedOver
  <2>4. ASSUME InFile(q)' PROVE \E o \in Procs : Swaps(o, q)'
    <3>1. PICK o \in Procs : Swaps(o, q)
      BY <2>2, <2>4
    <3>2. CASE o # p
      BY <3>1, <3>2 DEF Swaps
    <3>3. CASE o = p
      <4>1. run[p].pc \in HandedOver /\ run[p].quote = q
        BY <2>2, <3>1, <3>3 DEF Swaps
      <4>2. run'[p].pc \in HandedOver
        BY <1>7, <2>4, <4>1
      <4>3. run'[p].quote = q
        BY <4>1, <4>2 DEF Holding, HandedOver
      <4>. QED
        BY <4>2, <4>3 DEF Swaps, InHand
    <3>. QED
      BY <3>2, <3>3
  <2>5. ASSUME NEW o \in Procs, Holding(o)', q \in run'[o].copy PROVE Swaps(o, q)'
    <3>1. Swaps(o, q) /\ run'[o].quote = q
      BY <1>3, <2>2, <2>5 DEF Swaps
    <3>2. run'[o].pc \in InHand
      BY <2>2, <2>5, <3>1 DEF Swaps, InHand, HandedOver, Holding
    <3>. QED
      BY <3>1, <3>2 DEF Swaps
  <2>. QED
    BY <2>2, <2>3, <2>4, <2>5
<1>. QED
  BY <1>1, <1>2, <1>4, <1>5, <1>6, <1>7 DEF QuoteInv

\* Who takes a copy of the file while no other does finds nothing in it that was handed over.
LEMMA NothingSpentIsLeft ==
  ASSUME QuoteInv, NEW p \in Procs, ~Holding(p), broken' = Shared(p), None \notin broken'
  PROVE  /\ broken' = broken /\ \A o \in Procs : ~Holding(o)
         /\ \A q \in issued : q.by \notin broken /\ OnRecord(q) => ~InFile(q)
<1>1. broken' = broken /\ \A o \in Procs : ~Holding(o)
  BY DEF Shared
<1>2. \A q \in issued : q.by \notin broken => Spent(q)
  BY <1>1 DEF QuoteInv
<1>3. \A o \in Procs : \A q : ~Swaps(o, q)
  BY <1>1 DEF Holding, Swaps, InHand, HandedOver
<1>. QED
  BY <1>1, <1>2, <1>3 DEF Spent

LEMMA FileIsMade ==
  ASSUME QuoteInv
  PROVE  /\ \A q \in ReadQuoteStore : InFile(q) /\ q \in issued
         /\ \A q : OnRecord(q) => q \in issued
  BY DEF QuoteInv, ReadQuoteStore, InFile, OnRecord, OnTheBooks

\* The quote a step makes is a new one: its step has made none before.
LEMMA BuildKeeps ==
  ASSUME PlanInv, QuoteInv, NEW p \in Procs, QuoteBuilt(p) PROVE QuoteInv'
<1>1. PICK x : x = run'[p].quote
  OBVIOUS
<1>2. /\ Gains(p) /\ setup' = setup /\ run[p].pc = "quote" /\ run'[p].pc = "toWrite"
      /\ x.by = <<p, run[p].step.id>> /\ issued' = issued \cup {x}
  BY <1>1, Builds
<1>3. By(x) = p /\ StepBy(x) = run[p].step.id
  BY <1>2 DEF By, StepBy
<1>4. file' = file /\ sent' = sent /\ broken' = Shared(p) /\ broken \subseteq broken'
  BY DEF QuoteBuilt, Shared
<1>5. /\ Validate(Workflow(p)) = "ok" /\ run[p].step \in run[p].remaining /\ run[p].step \in Plan(p)
      /\ run[p].step.tool = SwapQuote
  BY <1>2 DEF PlanInv, PlanOK, InStep, Quoting
<1>6. run[p].step.id \in PlanIds(p, SwapQuote)
  BY <1>5, PlanFacts DEF Plan, PlanIds
<1>7. x \notin issued
  <2>1. SUFFICES ASSUME MadeOnce(x) PROVE FALSE
    BY DEF QuoteInv
  <2>. QED
    BY <1>2, <1>3, <1>5, <2>1 DEF MadeOnce
<1>8. ~OnRecord(x) /\ ~InFile(x) /\ x \notin ReadQuoteStore
  BY <1>7, FileIsMade DEF QuoteInv
<1>9. ASSUME NEW q \in issued' PROVE MadeOnce(q)'
  <2>1. PlanIds(By(q), SwapQuote)' = PlanIds(By(q), SwapQuote)
    BY <1>2 DEF PlanIds, Workflow, Job, By
  <2>2. CASE q = x
    BY <1>1, <1>2, <1>3, <1>6, <2>1, <2>2 DEF MadeOnce, Gains, By, StepBy
  <2>3. CASE q \in issued
    <3>1. MadeOnce(q)
      BY <2>3 DEF QuoteInv
    <3>2. CASE By(q) = p
      BY <1>2, <2>1, <3>1, <3>2 DEF MadeOnce, Gains, By, StepBy
    <3>3. CASE By(q) # p
      BY <1>2, <2>1, <3>1, <3>3 DEF MadeOnce, Gains, By, StepBy
    <3>. QED
      BY <3>2, <3>3
  <2>. QED
    BY <1>2, <2>2, <2>3
<1>10. /\ \A o \in Procs : o # p => (Holding(o)' <=> Holding(o)) /\ \A q : Swaps(o, q)' <=> Swaps(o, q)
       /\ Holding(p)' /\ \A q : ~Swaps(p, q)'
       /\ ~Holding(p)
  BY <1>2 DEF Gains, Holding, Swaps, InHand, HandedOver
<1>11. ASSUME NEW o \in Procs PROVE Carries(o)'
  <2>1. Carries(o)
    BY DEF QuoteInv
  <2>2. (Holding(o) => run[o].copy \subseteq issued /\ run[o].quote \in issued)'
    BY <1>1, <1>2, <1>10, <2>1, FileIsMade DEF Carries, Gains
  <2>3. Unwritten(o)'
    <3>. SUFFICES ASSUME run'[o].pc \in {"toWrite", "writing"}, NEW y, y = run'[o].quote
                  PROVE  /\ By(y) = o /\ StepBy(y) = run'[o].step.id
                         /\ ~InFile(y)' /\ ~OnRecord(y)'
                         /\ \A a \in Procs : Holding(a)' => y \notin run'[a].copy /\ ~Swaps(a, y)'
      BY DEF Unwritten, By, StepBy, InFile, OnRecord, Swaps
    <3>1. CASE o = p
      <4>1. y = x /\ ~InFile(y)' /\ ~OnRecord(y)'
        BY <1>1, <1>4, <1>8, <3>1 DEF InFile, OnRecord
      <4>2. \A a \in Procs : a # p /\ Holding(a) => y \notin run[a].copy /\ ~Swaps(a, y)
        <5>1. \A a \in Procs : Holding(a) => run[a].copy \subseteq issued /\ run[a].quote \in issued
          BY DEF QuoteInv, Carries
        <5>2. \A a \in Procs : Holding(a) => x \notin run[a].copy /\ ~Swaps(a, x)
          BY <1>7, <5>1 DEF Swaps
        <5>. QED
          BY <4>1, <5>2
      <4>3. y \notin run'[p].copy
        BY <1>2, <1>8, <4>1 DEF Gains
      <4>. QED
        BY <1>2, <1>3, <1>10, <3>1, <4>1, <4>2, <4>3 DEF Gains
    <3>2. CASE o # p
      <4>1. run[o].pc \in {"toWrite", "writing"} /\ y = run[o].quote /\ run'[o] = run[o]
        BY <1>2, <3>2 DEF Gains
      <4>2. /\ By(y) = o /\ StepBy(y) = run[o].step.id /\ ~InFile(y) /\ ~OnRecord(y)
            /\ \A a \in Procs : Holding(a) => y \notin run[a].copy /\ ~Swaps(a, y)
        BY <2>1, <4>1 DEF Carries, Unwritten
      <4>3. ~InFile(y)' /\ ~OnRecord(y)'
        BY <1>4, <4>2 DEF InFile, OnRecord
      <4>4. y \notin run'[p].copy
        BY <1>2, <4>2 DEF Gains, ReadQuoteStore, InFile
      <4>. QED
        BY <1>2, <1>10, <4>1, <4>2, <4>3, <4>4 DEF Gains
    <3>. QED
      BY <3>1, <3>2
  <2>4. Recalls(o)'
    <3>1. CASE o = p
      BY <1>2, <3>1, Builds DEF Recalls
    <3>2. CASE o # p
      BY <1>2, <2>1, <3>2 DEF Carries, Recalls, By, Gains
    <3>. QED
      BY <3>1, <3>2
  <2>5. (run[o].pc \in InHand => Own(o, run[o].step, run[o].quote, run[o].newest))'
    <3>. SUFFICES ASSUME run'[o].pc \in InHand PROVE Own(o, run[o].step, run[o].quote, run[o].newest)'
      BY DEF InHand, HandedOver
    <3>1. o # p /\ run'[o] = run[o]
      BY <1>2 DEF InHand, HandedOver, Gains
    <3>2. Collided => Collided'
      BY <1>2 DEF Collided
    <3>. QED
      BY <2>1, <3>1, <3>2 DEF Carries, Own, By
  <2>. QED
    BY <2>2, <2>3, <2>4, <2>5 DEF Carries
<1>12. \A i \in DOMAIN sent' : OnTheBooks(sent[i])'
  <2>1. Collided => Collided'
    BY <1>2 DEF Collided
  <2>. QED
    BY <1>2, <1>4, <2>1 DEF QuoteInv, OnTheBooks, Plan, Workflow, Job, Own, By
<1>13. ASSUME None \notin broken' PROVE Alone' /\ \A q \in issued' : q.by \notin broken' => Spent(q)'
  <2>1. /\ broken' = broken /\ \A o \in Procs : ~Holding(o)
        /\ \A q \in issued : q.by \notin broken /\ OnRecord(q) => ~InFile(q)
    BY <1>4, <1>10, <1>13, NothingSpentIsLeft
  <2>2. Alone'
    BY <1>10, <2>1 DEF Alone
  <2>3. ASSUME NEW q \in issued', q.by \notin broken', OnRecord(q)' PROVE Spent(q)'
    <3>1. q \in issued /\ OnRecord(q) /\ ~InFile(q)
      BY <1>2, <1>4, <1>8, <2>1, <2>3 DEF OnRecord
    <3>2. \A i, j \in DOMAIN sent : sent[i].quote = q /\ sent[j].quote = q => i = j
      BY <1>13, <2>1, <2>3, <3>1 DEF QuoteInv, Spent
    <3>3. ~InFile(q)'
      BY <1>4, <3>1 DEF InFile
    <3>4. \A o \in Procs : ~Swaps(o, q)' /\ (Holding(o)' => q \notin run'[o].copy)
      BY <1>2, <1>10, <2>1, <3>1 DEF Gains, ReadQuoteStore, InFile, Swaps, InHand, HandedOver, Holding
    <3>. QED
      BY <1>4, <3>2, <3>3, <3>4 DEF Spent
  <2>4. \A q \in issued' : q.by \notin broken' => Spent(q)'
    BY <2>3 DEF Spent
  <2>. QED
    BY <2>2, <2>4
<1>14. \A q : InFile(q)' => q \in issued'
  BY <1>2, <1>4 DEF QuoteInv, InFile
<1>. QED
  BY <1>4, <1>9, <1>11, <1>12, <1>13, <1>14 DEF QuoteInv

\* The quote an execution finds has been written, and was not handed over.
LEMMA FindKeeps ==
  ASSUME PlanInv, QuoteInv, NEW p \in Procs, LookUp(p) PROVE QuoteInv'
<1>1. PICK x : x = run'[p].quote
  OBVIOUS
<1>2. /\ Gains(p) /\ setup' = setup /\ run[p].pc = "exec" /\ run'[p].pc = "simulate"
      /\ x \in ReadQuoteStore /\ x.id = QuoteIdOf(p, run[p].step)
      /\ run'[p].newest = run[p].newest
  BY <1>1, Finds
<1>3. InFile(x) /\ x \in issued
  BY <1>2, FileIsMade
<1>4. file' = file /\ sent' = sent /\ issued' = issued /\ broken' = Shared(p) /\ broken \subseteq broken'
  BY DEF LookUp, Shared
<1>5. \A q \in issued : MadeOnce(q)'
  <2>. SUFFICES ASSUME NEW q \in issued PROVE MadeOnce(q)'
    OBVIOUS
  <2>1. MadeOnce(q)
    BY DEF QuoteInv
  <2>2. PlanIds(By(q), SwapQuote)' = PlanIds(By(q), SwapQuote)
    BY <1>2 DEF PlanIds, Workflow, Job, By
  <2>3. CASE By(q) = p
    BY <1>2, <2>1, <2>2, <2>3 DEF MadeOnce, Gains, By, StepBy
  <2>4. CASE By(q) # p
    BY <1>2, <2>1, <2>2, <2>4 DEF MadeOnce, Gains, By, StepBy
  <2>. QED
    BY <2>3, <2>4
<1>6. /\ \A o \in Procs : o # p => (Holding(o)' <=> Holding(o)) /\ \A q : Swaps(o, q)' <=> Swaps(o, q)
      /\ Holding(p)' /\ \A q : Swaps(p, q)' <=> q = x
      /\ ~Holding(p)
  BY <1>1, <1>2 DEF Gains, Holding, Swaps, InHand, HandedOver
<1>7. ASSUME NEW o \in Procs PROVE Carries(o)'
  <2>1. Carries(o)
    BY DEF QuoteInv
  <2>2. (Holding(o) => run[o].copy \subseteq issued /\ run[o].quote \in issued)'
    BY <1>1, <1>2, <1>3, <1>4, <1>6, <2>1, FileIsMade DEF Carries, Gains
  <2>3. Unwritten(o)'
    <3>. SUFFICES ASSUME run'[o].pc \in {"toWrite", "writing"}, NEW y, y = run'[o].quote
                  PROVE  /\ By(y) = o /\ StepBy(y) = run'[o].step.id
                         /\ ~InFile(y)' /\ ~OnRecord(y)'
                         /\ \A a \in Procs : Holding(a)' => y \notin run'[a].copy /\ ~Swaps(a, y)'
      BY DEF Unwritten, By, StepBy, InFile, OnRecord, Swaps
    <3>1. o # p /\ run[o].pc \in {"toWrite", "writing"} /\ y = run[o].quote /\ run'[o] = run[o]
      BY <1>2 DEF Gains
    <3>2. /\ By(y) = o /\ StepBy(y) = run[o].step.id /\ ~InFile(y) /\ ~OnRecord(y)
          /\ \A a \in Procs : Holding(a) => y \notin run[a].copy /\ ~Swaps(a, y)
      BY <2>1, <3>1 DEF Carries, Unwritten
    <3>3. ~InFile(y)' /\ ~OnRecord(y)'
      BY <1>4, <3>2 DEF InFile, OnRecord
    <3>4. y \notin run'[p].copy /\ y # x
      BY <1>2, <1>3, <3>2 DEF Gains, ReadQuoteStore, InFile
    <3>. QED
      BY <1>2, <1>6, <3>1, <3>2, <3>3, <3>4 DEF Gains
  <2>4. Recalls(o)'
    <3>1. Recalls(o)
      BY <2>1 DEF Carries
    <3>2. CASE o = p
      BY <1>2, <1>4, <3>1, <3>2 DEF Recalls, By, Gains
    <3>3. CASE o # p
      BY <1>2, <1>4, <3>1, <3>3 DEF Recalls, By, Gains
    <3>. QED
      BY <3>2, <3>3
  <2>5. (run[o].pc \in InHand => Own(o, run[o].step, run[o].quote, run[o].newest))'
    <3>. SUFFICES ASSUME run'[o].pc \in InHand PROVE Own(o, run[o].step, run[o].quote, run[o].newest)'
      BY DEF InHand, HandedOver
    <3>1. Collided' <=> Collided
      BY <1>4 DEF Collided
    <3>2. CASE o # p
      BY <1>2, <2>1, <3>1, <3>2 DEF Carries, Own, By, Gains
    <3>3. CASE o = p
      <4>1. CASE run[p].step.quoteId # None
        BY <1>2, <3>3, <4>1 DEF Own, Gains
      <4>2. CASE run[p].step.quoteId = None
        <5>1. x.id = run[p].lastQuote /\ run[p].lastQuote # None
          <6>1. PlanOK(p, run[p]) /\ run[p].pc \in Swapping
            BY <1>2 DEF PlanInv, Swapping
          <6>. QED
            BY <1>2, <4>2, <6>1 DEF PlanOK, QuoteIdOf
        <5>2. PICK q \in issued : q = run[p].newest /\ q.id = run[p].lastQuote /\ By(q) = p
          BY <1>2, <2>1, <3>3, <5>1 DEF Carries, Recalls
        <5>3. x = q \/ Collided
          BY <1>3, <5>1, <5>2 DEF Collided
        <5>. QED
          BY <1>1, <1>2, <3>1, <3>3, <5>2, <5>3 DEF Own, By
      <4>. QED
        BY <4>1, <4>2
    <3>. QED
      BY <3>2, <3>3
  <2>. QED
    BY <2>2, <2>3, <2>4, <2>5 DEF Carries
<1>8. \A i \in DOMAIN sent' : OnTheBooks(sent[i])'
  BY <1>2, <1>4 DEF QuoteInv, OnTheBooks, Plan, Workflow, Job, Own, By, Collided
<1>9. ASSUME None \notin broken' PROVE Alone' /\ \A q \in issued' : q.by \notin broken' => Spent(q)'
  <2>1. /\ broken' = broken /\ \A o \in Procs : ~Holding(o)
        /\ \A q \in issued : q.by \notin broken /\ OnRecord(q) => ~InFile(q)
    BY <1>4, <1>6, <1>9, NothingSpentIsLeft
  <2>2. Alone'
    BY <1>6, <2>1 DEF Alone
  <2>3. ASSUME NEW q \in issued', q.by \notin broken', OnRecord(q)' PROVE Spent(q)'
    <3>1. q \in issued /\ OnRecord(q) /\ ~InFile(q) /\ q # x
      BY <1>3, <1>4, <2>1, <2>3 DEF OnRecord
    <3>2. \A i, j \in DOMAIN sent : sent[i].quote = q /\ sent[j].quote = q => i = j
      BY <1>9, <2>1, <2>3, <3>1 DEF QuoteInv, Spent
    <3>3. ~InFile(q)'
      BY <1>4, <3>1 DEF InFile
    <3>4. \A o \in Procs : ~Swaps(o, q)' /\ (Holding(o)' => q \notin run'[o].copy)
      BY <1>2, <1>6, <2>1, <3>1 DEF Gains, ReadQuoteStore, InFile, Swaps, InHand, HandedOver, Holding
    <3>. QED
      BY <1>4, <3>2, <3>3, <3>4 DEF Spent
  <2>4. \A q \in issued' : q.by \notin broken' => Spent(q)'
    BY <2>3 DEF Spent
  <2>. QED
    BY <2>2, <2>4
<1>10. \A q : InFile(q)' => q \in issued'
  BY <1>4 DEF QuoteInv, InFile
<1>. QED
  BY <1>4, <1>5, <1>7, <1>8, <1>9, <1>10 DEF QuoteInv

\* The file holds the new quote and what the process had read.
LEMMA WriteKeeps ==
  ASSUME PlanInv, QuoteInv, NEW p \in Procs, QuoteWritten(p) PROVE QuoteInv'
<1>. DEFINE x == run[p].quote
<1>1. /\ DOMAIN run = Procs /\ DOMAIN run[p] = Fields /\ run[p].pc = "writing"
      /\ run' = [run EXCEPT ![p] = Done(run[p], run[p].quote.id)]
      /\ UNCHANGED <<setup, issued, sent, broken>>
      /\ file' = Without(run[p].copy, x) \cup {x}
  BY DEF QuoteWritten, LastQuoteId, PlanInv, PlanOK
<1>2. /\ DOMAIN run' = Procs /\ \A o \in Procs : o # p => run'[o] = run[o]
      /\ run'[p].pc = "ready" /\ run'[p].remaining = run[p].remaining \ {run[p].step}
      /\ run'[p].lastQuote = x.id /\ run'[p].newest = run[p].newest
  BY <1>1 DEF Done, Fields
<1>3. /\ Validate(Workflow(p)) = "ok" /\ run[p].step \in run[p].remaining /\ run[p].remaining \subseteq Plan(p)
  BY <1>1 DEF PlanInv, PlanOK, InStep, Quoting
<1>4. \A s, t \in Plan(p) : s.id = t.id => s = t
  BY <1>3, PlanFacts DEF Plan
<1>5. Carries(p) /\ Holding(p)
  BY <1>1 DEF QuoteInv, Holding
<1>6. /\ x \in issued /\ run[p].copy \subseteq issued
      /\ By(x) = p /\ StepBy(x) = run[p].step.id /\ ~InFile(x) /\ ~OnRecord(x)
      /\ \A o \in Procs : Holding(o) => x \notin run[o].copy /\ ~Swaps(o, x)
  BY <1>1, <1>5 DEF Carries, Unwritten
<1>7. /\ \A o \in Procs : o # p => (Holding(o)' <=> Holding(o)) /\ \A q : Swaps(o, q)' <=> Swaps(o, q)
      /\ ~Holding(p)' /\ \A q : ~Swaps(p, q)' /\ ~Swaps(p, q)
  BY <1>1, <1>2 DEF Holding, Swaps, InHand, HandedOver
<1>8. \A q : InFile(q)' => q = x \/ q \in run[p].copy
  BY <1>1 DEF InFile, Without
<1>9. \A q \in issued : MadeOnce(q)'
  <2>. SUFFICES ASSUME NEW q \in issued PROVE MadeOnce(q)'
    OBVIOUS
  <2>1. MadeOnce(q)
    BY DEF QuoteInv
  <2>2. PlanIds(By(q), SwapQuote)' = PlanIds(By(q), SwapQuote)
    BY <1>1 DEF PlanIds, Workflow, Job, By
  <2>3. CASE By(q) # p
    BY <1>2, <2>1, <2>2, <2>3 DEF MadeOnce, By, StepBy
  <2>4. CASE By(q) = p
    <3>1. \A s \in run'[p].remaining : s.id # StepBy(q)
      <4>1. CASE \A s \in run[p].remaining : s.id # StepBy(q)
        BY <1>2, <4>1
      <4>2. CASE run[p].step.id = StepBy(q)
        BY <1>2, <1>3, <1>4, <4>2
      <4>. QED
        BY <2>1, <2>4, <4>1, <4>2 DEF MadeOnce
    <3>. QED
      BY <1>2, <2>1, <2>2, <2>4, <3>1 DEF MadeOnce, By, StepBy
  <2>. QED
    BY <2>3, <2>4
<1>10. ASSUME NEW o \in Procs PROVE Carries(o)'
  <2>1. Carries(o)
    BY DEF QuoteInv
  <2>2. (Holding(o) => run[o].copy \subseteq issued /\ run[o].quote \in issued)'
    BY <1>1, <1>2, <1>7, <2>1 DEF Carries
  <2>3. Unwritten(o)'
    <3>. SUFFICES ASSUME run'[o].pc \in {"toWrite", "writing"}, NEW y, y = run'[o].quote
                  PROVE  /\ By(y) = o /\ StepBy(y) = run'[o].step.id
                         /\ ~InFile(y)' /\ ~OnRecord(y)'
                         /\ \A a \in Procs : Holding(a)' => y \notin run'[a].copy /\ ~Swaps(a, y)'
      BY DEF Unwritten, By, StepBy, InFile, OnRecord, Swaps
    <3>1. o # p /\ run[o].pc \in {"toWrite", "writing"} /\ y = run[o].quote /\ run'[o] = run[o]
      BY <1>2
    <3>2. /\ By(y) = o /\ StepBy(y) = run[o].step.id /\ ~InFile(y) /\ ~OnRecord(y)
          /\ \A a \in Procs : Holding(a) => y \notin run[a].copy /\ ~Swaps(a, y)
      BY <2>1, <3>1 DEF Carries, Unwritten
    <3>3. y # x /\ y \notin run[p].copy
      BY <1>5, <1>6, <3>1, <3>2
    <3>4. ~InFile(y)' /\ ~OnRecord(y)'
      BY <1>1, <1>8, <3>2, <3>3 DEF OnRecord
    <3>. QED
      BY <1>2, <1>7, <3>1, <3>2, <3>4
  <2>4. Recalls(o)'
    <3>1. Recalls(o)
      BY <2>1 DEF Carries
    <3>2. CASE o = p
      <4>1. run[p].newest = x
        BY <1>1, <3>1, <3>2 DEF Recalls
      <4>. QED
        BY <1>1, <1>2, <1>6, <3>2, <4>1 DEF Recalls, By
    <3>3. CASE o # p
      BY <1>1, <1>2, <3>1, <3>3 DEF Recalls, By
    <3>. QED
      BY <3>2, <3>3
  <2>5. (run[o].pc \in InHand => Own(o, run[o].step, run[o].quote, run[o].newest))'
    <3>. SUFFICES ASSUME run'[o].pc \in InHand PROVE Own(o, run[o].step, run[o].quote, run[o].newest)'
      BY DEF InHand, HandedOver
    <3>1. o # p /\ run'[o] = run[o]
      BY <1>2 DEF InHand, HandedOver
    <3>. QED
      BY <1>1, <2>1, <3>1 DEF Carries, Own, By, Collided
  <2>. QED
    BY <2>2, <2>3, <2>4, <2>5 DEF Carries
<1>11. \A i \in DOMAIN sent' : OnTheBooks(sent[i])'
  BY <1>1 DEF QuoteInv, OnTheBooks, Plan, Workflow, Job, Own, By, Collided
<1>12. ASSUME None \notin broken' PROVE Alone' /\ \A q \in issued' : q.by \notin broken' => Spent(q)'
  <2>1. Alone
    BY <1>1, <1>12 DEF QuoteInv
  <2>2. Alone'
    BY <1>7, <2>1 DEF Alone
  <2>3. ASSUME NEW q \in issued', q.by \notin broken', OnRecord(q)' PROVE Spent(q)'
    <3>1. q \in issued /\ OnRecord(q) /\ q # x
      BY <1>1, <1>6, <2>3 DEF OnRecord
    <3>2. /\ \A i, j \in DOMAIN sent : sent[i].quote = q /\ sent[j].quote = q => i = j
          /\ q \notin run[p].copy
      BY <1>1, <1>5, <1>7, <1>12, <2>3, <3>1 DEF QuoteInv, Spent
    <3>3. ~InFile(q)'
      BY <1>8, <3>1, <3>2
    <3>4. \A o \in Procs : ~Swaps(o, q)' /\ ~Holding(o)'
      BY <1>5, <1>7, <2>1 DEF Alone, Holding, Swaps, InHand, HandedOver
    <3>. QED
      BY <1>1, <3>2, <3>3, <3>4 DEF Spent
  <2>4. \A q \in issued' : q.by \notin broken' => Spent(q)'
    BY <2>3 DEF Spent
  <2>. QED
    BY <2>2, <2>4
<1>13. \A q : InFile(q)' => q \in issued'
  BY <1>1, <1>6, <1>8
<1>. QED
  BY <1>1, <1>9, <1>10, <1>11, <1>12, <1>13 DEF QuoteInv

\* A quote is handed over that was not before; the wait for it may have failed already.
LEMMA HandKeeps ==
  ASSUME PlanInv, QuoteInv, NEW p \in Procs, NEW pc \in {"confirm", "failed"},
         run[p].pc = "send", Accepted(p), Goto(p, pc), UNCHANGED <<setup, file, issued>>,
         broken \subseteq broken', pc = "failed" => run[p].quote.by \in broken'
  PROVE  QuoteInv'
<1>0. PICK x : x = run[p].quote
  OBVIOUS
<1>. DEFINE e == [by |-> p, step |-> run[p].step.id, quote |-> x, newest |-> run[p].newest]
<1>1. /\ DOMAIN run' = Procs /\ \A o \in Procs : o # p => run'[o] = run[o]
      /\ run'[p].pc = pc /\ run'[p].remaining = run[p].remaining
      /\ run'[p].lastQuote = run[p].lastQuote /\ run'[p].step = run[p].step
      /\ run'[p].copy = run[p].copy /\ run'[p].quote = run[p].quote
      /\ run'[p].newest = run[p].newest
  BY Going
<1>2. /\ \A o \in Procs : o # p => (Holding(o)' <=> Holding(o)) /\ \A q : Swaps(o, q)' <=> Swaps(o, q)
      /\ Holding(p) /\ Swaps(p, x) /\ \A q : Swaps(p, q) => q = x
      /\ Holding(p)' => pc = "confirm"
      /\ \A q : Swaps(p, q)' => q = x /\ pc = "confirm"
      /\ pc = "confirm" => Holding(p)' /\ Swaps(p, x)'
  BY <1>0, <1>1 DEF Holding, Swaps, InHand, HandedOver
<1>3. /\ Validate(Workflow(p)) = "ok" /\ run[p].step \in Plan(p) /\ run[p].step.tool = SwapExec
  BY DEF PlanInv, PlanOK, InStep, Swapping
<1>4. Carries(p) /\ x \in issued /\ Own(p, run[p].step, x, run[p].newest)
  BY <1>0, <1>2 DEF QuoteInv, Carries, InHand
<1>5. PICK S : sent \in Seq(S)
  BY DEF QuoteInv
<1>6. /\ sent' \in Seq(S \cup {e}) /\ DOMAIN sent' = DOMAIN sent \cup {Len(sent) + 1}
      /\ \A i \in DOMAIN sent : sent'[i] = sent[i] /\ i # Len(sent) + 1
      /\ sent'[Len(sent) + 1] = e
  <2>1. sent \in Seq(S \cup {e}) /\ sent' = Append(sent, e)
    BY <1>0, <1>5 DEF Accepted
  <2>. HIDE DEF e
  <2>. QED
    BY <2>1
<1>7. e.by = p /\ e.step = run[p].step.id /\ e.quote = x /\ e.newest = run[p].newest
  OBVIOUS
<1>. HIDE DEF e
<1>8. \A q \in issued : MadeOnce(q)'
  <2>. SUFFICES ASSUME NEW q \in issued PROVE MadeOnce(q)'
    OBVIOUS
  <2>1. MadeOnce(q)
    BY DEF QuoteInv
  <2>2. PlanIds(By(q), SwapQuote)' = PlanIds(By(q), SwapQuote)
    BY DEF PlanIds, Workflow, Job, By
  <2>3. CASE By(q) # p
    BY <1>1, <2>1, <2>2, <2>3 DEF MadeOnce, By, StepBy
  <2>4. CASE By(q) = p
    BY <1>1, <2>1, <2>2, <2>4 DEF MadeOnce, By, StepBy
  <2>. QED
    BY <2>3, <2>4
<1>9. \A q : OnRecord(q)' <=> OnRecord(q) \/ q = x
  BY <1>6, <1>7 DEF OnRecord
<1>10. ASSUME NEW o \in Procs PROVE Carries(o)'
  <2>1. Carries(o)
    BY DEF QuoteInv
  <2>2. (Holding(o) => run[o].copy \subseteq issued /\ run[o].quote \in issued)'
    BY <1>1, <1>2, <2>1 DEF Carries
  <2>3. Unwritten(o)'
    <3>. SUFFICES ASSUME run'[o].pc \in {"toWrite", "writing"}, NEW y, y = run'[o].quote
                  PROVE  /\ By(y) = o /\ StepBy(y) = run'[o].step.id
                         /\ ~InFile(y)' /\ ~OnRecord(y)'
                         /\ \A a \in Procs : Holding(a)' => y \notin run'[a].copy /\ ~Swaps(a, y)'
      BY DEF Unwritten, By, StepBy, InFile, OnRecord, Swaps
    <3>1. o # p /\ run[o].pc \in {"toWrite", "writing"} /\ y = run[o].quote /\ run'[o] = run[o]
      BY <1>1
    <3>2. /\ By(y) = o /\ StepBy(y) = run[o].step.id /\ ~InFile(y) /\ ~OnRecord(y)
          /\ \A a \in Procs : Holding(a) => y \notin run[a].copy /\ ~Swaps(a, y)
      BY <2>1, <3>1 DEF Carries, Unwritten
    <3>3. ~InFile(y)' /\ ~OnRecord(y)' /\ y # x
      BY <1>2, <1>9, <3>2 DEF InFile
    <3>. QED
      BY <1>1, <1>2, <3>1, <3>2, <3>3
  <2>4. Recalls(o)'
    <3>1. Recalls(o)
      BY <2>1 DEF Carries
    <3>2. CASE o = p
      BY <1>1, <3>1, <3>2 DEF Recalls, By
    <3>3. CASE o # p
      BY <1>1, <3>1, <3>3 DEF Recalls, By
    <3>. QED
      BY <3>2, <3>3
  <2>5. (run[o].pc \in InHand => Own(o, run[o].step, run[o].quote, run[o].newest))'
    <3>. SUFFICES ASSUME run'[o].pc \in InHand PROVE Own(o, run[o].step, run[o].quote, run[o].newest)'
      BY DEF InHand, HandedOver
    <3>1. Own(o, run[o].step, run[o].quote, run[o].newest)
      BY <1>0, <1>1, <1>4, <2>1 DEF Carries
    <3>. QED
      BY <1>1, <3>1 DEF Own, By, Collided
  <2>. QED
    BY <2>2, <2>3, <2>4, <2>5 DEF Carries
<1>11. ASSUME NEW i \in DOMAIN sent' PROVE OnTheBooks(sent[i])'
  <2>1. \A f : OnTheBooks(f)' <=> OnTheBooks(f)
    BY DEF OnTheBooks, Plan, Workflow, Job, Own, By, Collided
  <2>2. OnTheBooks(e)
    BY <1>3, <1>4, <1>7 DEF OnTheBooks
  <2>3. PICK f : f = sent'[i]
    OBVIOUS
  <2>4. OnTheBooks(f)
    BY <1>6, <2>2, <2>3 DEF QuoteInv
  <2>. QED
    BY <2>1, <2>3, <2>4 DEF OnTheBooks
<1>12. ASSUME None \notin broken' PROVE Alone' /\ \A q \in issued' : q.by \notin broken' => Spent(q)'
  <2>1. Alone /\ \A q \in issued : q.by \notin broken' => Spent(q)
    BY <1>12 DEF QuoteInv
  <2>2. Alone'
    BY <1>2, <2>1 DEF Alone
  <2>3. ASSUME NEW q \in issued', q.by \notin broken', OnRecord(q)' PROVE Spent(q)'
    <3>1. Spent(q)
      BY <2>1, <2>3
    <3>2. CASE q = x
      <4>1. pc = "confirm" /\ Holding(p)' /\ Swaps(p, x)'
        BY <1>0, <1>2, <2>3, <3>2
      <4>2. ~OnRecord(x)
        BY <1>2, <3>1, <3>2 DEF Spent, HandedOver
      <4>3. \A i, j \in DOMAIN sent' : sent'[i].quote = x /\ sent'[j].quote = x => i = j
        BY <1>6, <4>2 DEF OnRecord
      <4>4. \A o \in Procs : Holding(o)' => o = p
        BY <2>2, <4>1 DEF Alone
      <4>5. \A o \in Procs : Swaps(o, x)' => run'[o].pc \in HandedOver
        BY <1>1, <4>1, <4>4 DEF Swaps, InHand, HandedOver, Holding
      <4>. QED
        BY <3>2, <4>1, <4>3, <4>4, <4>5 DEF Spent
    <3>3. CASE q # x
      <4>1. OnRecord(q)
        BY <1>9, <2>3, <3>3
      <4>2. /\ \A i, j \in DOMAIN sent : sent[i].quote = q /\ sent[j].quote = q => i = j
            /\ \A o \in Procs : Swaps(o, q) => run[o].pc \in HandedOver
            /\ InFile(q) => \E o \in Procs : Swaps(o, q)
            /\ \A o \in Procs : Holding(o) /\ q \in run[o].copy => Swaps(o, q)
        BY <3>1, <4>1 DEF Spent
      <4>3. \A i, j \in DOMAIN sent' : sent'[i].quote = q /\ sent'[j].quote = q => i = j
        BY <1>6, <1>7, <3>3, <4>2
      <4>4. \A o \in Procs : Swaps(o, q)' <=> Swaps(o, q)
        BY <1>2, <3>3
      <4>5. \A o \in Procs : Swaps(o, q)' => o # p /\ run'[o].pc \in HandedOver
        BY <1>1, <1>2, <3>3, <4>2
      <4>6. InFile(q)' => \E o \in Procs : Swaps(o, q)'
        BY <4>2, <4>4 DEF InFile
      <4>7. \A o \in Procs : Holding(o)' /\ q \in run'[o].copy => Swaps(o, q)'
        BY <1>1, <1>2, <4>2, <4>4
      <4>. QED
        BY <4>3, <4>5, <4>6, <4>7 DEF Spent
    <3>. QED
      BY <3>2, <3>3
  <2>4. \A q \in issued' : q.by \notin broken' => Spent(q)'
    BY <2>3 DEF Spent
  <2>. QED
    BY <2>2, <2>4
<1>13. \A q : InFile(q)' => q \in issued'
  BY DEF QuoteInv, InFile
<1>. QED
  BY <1>6, <1>8, <1>10, <1>11, <1>12, <1>13 DEF QuoteInv

\* A run moves on within a step, or ends; what it handed over stays in its hands or is in doubt.
LEMMA QuotesMove ==
  ASSUME PlanInv, QuoteInv, NEW p \in Procs, NEW pc, Goto(p, pc), pc # "new",
         UNCHANGED <<setup, issued, sent>>, broken \subseteq broken', file' \in {file, Corrupt},
         run[p].pc \notin {"killed", "new"},
         run[p].pc \in {"toWrite", "writing"} => pc \in {"toWrite", "writing", "killed"},
         pc \in {"toWrite", "writing"} => run[p].pc \in {"toWrite", "writing"},
         pc \in InHand => run[p].pc \in InHand,
         run[p].pc \in HandedOver => pc \in HandedOver \/ (pc \notin InHand /\ run[p].quote.by \in broken')
  PROVE  QuoteInv'
<1>1. /\ DOMAIN run' = Procs /\ \A o \in Procs : o # p => run'[o] = run[o]
      /\ run'[p].pc = pc /\ run'[p].remaining = run[p].remaining
      /\ run'[p].lastQuote = run[p].lastQuote /\ run'[p].step = run[p].step
      /\ run'[p].copy = run[p].copy /\ run'[p].quote = run[p].quote
      /\ run'[p].newest = run[p].newest
  BY Going
<1>2. \A q : InFile(q)' => InFile(q)
  BY DEF InFile
<1>3. Holding(p)' => Holding(p)
  BY <1>1 DEF Holding, InHand, HandedOver
<1>. QED
  BY <1>1, <1>2, <1>3, QuotesKeep

LEMMA QuotesStay == PlanInv /\ QuoteInv /\ [Next]_vars => QuoteInv'
<1>. SUFFICES ASSUME PlanInv, QuoteInv, [Next]_vars PROVE QuoteInv'
  OBVIOUS
<1>1. DOMAIN run = Procs /\ \A p \in Procs : DOMAIN run[p] = Fields
  BY DEF PlanInv, PlanOK
<1>2. CASE UNCHANGED <<setup, run, file, issued, sent, broken>>
  <2>1. \A q : (MadeOnce(q)' <=> MadeOnce(q)) /\ (InFile(q)' <=> InFile(q)) /\ (Spent(q)' <=> Spent(q))
    BY <1>2 DEF MadeOnce, InFile, Spent, OnRecord, Swaps, Holding, PlanIds, Workflow, Job, By, StepBy
  <2>2. \A p \in Procs : Carries(p)' <=> Carries(p)
    BY <1>2 DEF Carries, Recalls, Unwritten, InFile, OnRecord, Swaps, Holding, Own, Collided, By, StepBy
  <2>3. \A e : OnTheBooks(e)' <=> OnTheBooks(e)
    BY <1>2 DEF OnTheBooks, Plan, Workflow, Job, Own, By, Collided
  <2>4. Alone' <=> Alone
    BY <1>2 DEF Alone, Holding
  <2>5. \A i \in DOMAIN sent' : OnTheBooks(sent[i])'
    BY <1>2, <2>3 DEF QuoteInv, OnTheBooks, Plan, Workflow, Job, Own, By, Collided
  <2>. QED
    BY <1>2, <2>1, <2>2, <2>4, <2>5 DEF QuoteInv
<1>3. ASSUME NEW p \in Procs, Compile(p) PROVE QuoteInv'
  <2>1. /\ run[p].pc = "new" /\ \A o \in Procs : o # p => run'[o] = run[o]
        /\ DOMAIN run' = Procs /\ run'[p].pc \in {"ready", "rejected"} /\ run'[p].lastQuote = run[p].lastQuote
        /\ run'[p].newest = run[p].newest
        /\ UNCHANGED <<setup, file, issued, sent, broken>>
    BY <1>1, <1>3 DEF Compile, Fields
  <2>2. ~Holding(p)'
    BY <2>1 DEF Holding
  <2>3. \A q : InFile(q)' => InFile(q)
    BY <2>1 DEF InFile
  <2>. QED
    BY <2>1, <2>2, <2>3, QuotesKeep DEF InHand, HandedOver
<1>4. ASSUME NEW p \in Procs, StartStep(p) PROVE QuoteInv'
  <2>1. /\ run[p].pc = "ready" /\ \A o \in Procs : o # p => run'[o] = run[o]
        /\ DOMAIN run' = Procs /\ run'[p].pc \in {"balance", "quote", "skipped", "exec", "failed"}
        /\ run'[p].remaining = run[p].remaining /\ run'[p].lastQuote = run[p].lastQuote
        /\ run'[p].newest = run[p].newest
        /\ UNCHANGED <<setup, file, issued, sent, broken>>
    BY <1>1, <1>4 DEF StartStep, EntryOf, Fields
  <2>2. ~Holding(p)'
    BY <2>1 DEF Holding
  <2>3. \A q : InFile(q)' => InFile(q)
    BY <2>1 DEF InFile
  <2>. QED
    BY <2>1, <2>2, <2>3, QuotesKeep DEF InHand, HandedOver
<1>5. ASSUME NEW p \in Procs, StepEnds(p) \/ QuoteDeleted(p) PROVE QuoteInv'
  <2>1. /\ run[p].pc \in {"balance", "skipped", "deleting"} /\ \A o \in Procs : o # p => run'[o] = run[o]
        /\ DOMAIN run' = Procs /\ run'[p].pc = "ready"
        /\ run'[p].remaining \subseteq run[p].remaining /\ run'[p].lastQuote = run[p].lastQuote
        /\ run'[p].newest = run[p].newest
        /\ UNCHANGED <<setup, issued, sent, broken>>
    <3>1. /\ run' = [run EXCEPT ![p] = Done(run[p], run[p].lastQuote)]
          /\ run[p].pc \in {"balance", "skipped", "deleting"} /\ UNCHANGED <<setup, issued, sent, broken>>
      BY <1>1, <1>5 DEF StepEnds, QuoteDeleted
    <3>. QED
      BY <1>1, <3>1 DEF Done, Fields
  <2>2. ~Holding(p)'
    BY <2>1 DEF Holding
  <2>3. \A q : InFile(q)' => \/ InFile(q) /\ run[p].pc # "deleting"
                             \/ run[p].pc = "deleting" /\ q \in run[p].copy /\ q # run[p].quote
    BY <1>5 DEF StepEnds, QuoteDeleted, InFile, LeftOver, Without
  <2>4. \A q : InFile(q)' => InFile(q) \/ (Holding(p) /\ q \in run[p].copy)
    BY <2>3 DEF Holding
  <2>5. \A q : run[p].pc \in HandedOver /\ run[p].quote = q => ~InFile(q)'
    BY <2>1, <2>3 DEF HandedOver
  <2>. QED
    BY <2>1, <2>2, <2>4, <2>5, QuotesKeep DEF InHand, HandedOver
<1>6. ASSUME NEW p \in Procs, AllDone(p) \/ NothingRunnable(p) \/ StepFails(p) \/ Refused(p) PROVE QuoteInv'
  BY <1>6, QuotesMove DEF AllDone, NothingRunnable, StepFails, Refused, InHand, HandedOver
<1>7. ASSUME NEW p \in Procs, Simulated(p) \/ Confirmed(p) \/ ConfirmFails(p) PROVE QuoteInv'
  BY <1>7, QuotesMove DEF Simulated, Confirmed, ConfirmFails, InHand, HandedOver
<1>8. ASSUME NEW p \in Procs, Truncate(p) PROVE QuoteInv'
  BY <1>8, QuotesMove DEF Truncate, InHand, HandedOver
<1>9. ASSUME NEW p \in Procs, Crash(p) PROVE QuoteInv'
  BY <1>9, QuotesMove DEF Crash, Active, InHand, HandedOver
<1>10. ASSUME NEW p \in Procs, Sent(p) PROVE QuoteInv'
  BY <1>10, HandKeeps DEF Sent
<1>11. ASSUME NEW p \in Procs, SendFails(p) PROVE QuoteInv'
  <2>1. CASE UNCHANGED <<sent, broken>>
    BY <1>11, <2>1, QuotesMove DEF SendFails, InHand, HandedOver
  <2>2. CASE Accepted(p) /\ broken' = broken \cup {run[p].quote.by}
    BY <1>11, <2>2, HandKeeps DEF SendFails
  <2>. QED
    BY <1>11, <2>1, <2>2 DEF SendFails
<1>. QED
  BY <1>2, <1>3, <1>4, <1>5, <1>6, <1>7, <1>8, <1>9, <1>10, <1>11, BuildKeeps, FindKeeps, WriteKeeps
     DEF Next, Tick, vars

\* A quote is sent once, for any number of runs and whatever is killed or fails: unless an
\* execution of it was sent and did not finish, or two processes held copies of the file.
THEOREM SentTheorem == Spec => []SentOnce
<1>1. QuoteInv => SentOnce
  <2>. SUFFICES ASSUME QuoteInv, NEW i \in DOMAIN sent, NEW j \in DOMAIN sent, i # j,
                       sent[i].quote = sent[j].quote, None \notin broken
                PROVE  sent[i].quote.by \in broken
    BY DEF SentOnce
  <2>1. sent[i].quote \in issued
    BY DEF QuoteInv, OnTheBooks
  <2>. QED
    BY <2>1 DEF QuoteInv, Spent, OnRecord
<1>. QED
  BY <1>1, PlanStarts, PlanStays, QuotesStart, QuotesStay, PTL DEF Spec

\* For any workflows and any number of runs that share the file, an execution that names no
\* quote swaps what its own run quoted - and with one quote step in the plan, what a step it
\* depends on quoted - unless two quotes were given one id.
THEOREM OwnQuoteTheorem == Spec => []ExecutesItsQuote
<1>1. PlanInv /\ QuoteInv => ExecutesItsQuote
  <2>. SUFFICES ASSUME PlanInv, QuoteInv, ~Collided, NEW i \in DOMAIN sent, NEW s \in Plan(sent[i].by),
                       s.id = sent[i].step, s.quoteId = None
                PROVE  LET from == sent[i].quote.by
                       IN  /\ sent[i].quote = sent[i].newest
                           /\ from[1] = sent[i].by /\ from[2] \in PlanIds(sent[i].by, SwapQuote)
                           /\ PlanIds(sent[i].by, SwapQuote) = {from[2]} => from[2] \in s.deps
    BY DEF ExecutesItsQuote, Plan
  <2>. DEFINE p == sent[i].by
              q == sent[i].quote
  <2>1. /\ p \in Procs /\ q \in issued /\ Validate(Workflow(p)) = "ok"
        /\ \E t \in Plan(p) : t.id = sent[i].step /\ t.tool = SwapExec /\ Own(p, t, q, sent[i].newest)
    BY DEF QuoteInv, OnTheBooks
  <2>2. s.tool = SwapExec /\ Own(p, s, q, sent[i].newest)
    BY <2>1, PlanFacts DEF Plan
  <2>3. By(q) = p /\ q = sent[i].newest
    BY <2>2 DEF Own
  <2>4. StepBy(q) \in PlanIds(p, SwapQuote)
    BY <2>1, <2>3 DEF QuoteInv, MadeOnce
  <2>5. s.deps \cap PlanIds(p, SwapQuote) # {}
    BY <2>1, <2>2, PlanFacts DEF Plan, PlanIds
  <2>. QED
    BY <2>3, <2>4, <2>5 DEF By, StepBy
<1>. QED
  BY <1>1, PlanStarts, PlanStays, QuotesStart, QuotesStay, PTL DEF Spec

-----------------------------------------------------------------------------
(* The scheduler: what comes out, and what lies below an id.                  *)

LEMMA LeastOf ==
  ASSUME NEW S \in SUBSET Nat, S # {}
  PROVE  \E i \in S : \A j \in S : i <= j
<1>1. PICK i \in S : \A j \in S : ~ (<<j, i>> \in OpToRel(<, Nat))
  BY NatLessThanWellFounded, WFMin
<1>2. ASSUME NEW j \in S PROVE i <= j
  <2>1. i \in Nat /\ j \in Nat
    OBVIOUS
  <2>2. ~ (j < i)
    BY <1>1, <2>1 DEF OpToRel
  <2>. QED
    BY <2>1, <2>2
<1>. QED
  BY <1>2

\* Induction over the numbers up to n, said of a set.
LEMMA StepByStep ==
  ASSUME NEW n \in Nat, NEW A, 0 \in A, \A k \in 0 .. n - 1 : k \in A => k + 1 \in A
  PROVE  \A k \in 0 .. n : k \in A
<1>. DEFINE bad == (0 .. n) \ A
<1>1. SUFFICES ASSUME bad # {} PROVE FALSE
  OBVIOUS
<1>2. PICK k \in bad : \A j \in bad : k <= j
  <2>1. bad \in SUBSET Nat
    OBVIOUS
  <2>. HIDE DEF bad
  <2>. QED
    BY <1>1, <2>1, LeastOf
<1>3. k \in 1 .. n /\ k - 1 \in 0 .. n - 1 /\ k - 1 \notin bad
  BY <1>2
<1>4. k - 1 \in A /\ (k - 1) + 1 = k
  BY <1>3
<1>. QED
  BY <1>2, <1>3, <1>4

\* A function on the subsets of a set can be applied n times.
Iterated(S, F, b, n, g) ==
  g \in [0 .. n -> SUBSET S] /\ g[0] = b /\ \A k \in 1 .. n : g[k] = F[g[k - 1]]

LEMMA Iterates ==
  ASSUME NEW S, NEW F \in [SUBSET S -> SUBSET S], NEW b \in SUBSET S, NEW n \in Nat
  PROVE  \E g : Iterated(S, F, b, n, g)
<1>. DEFINE Is(g, m) == g \in [0 .. m -> SUBSET S] /\ g[0] = b /\ \A k \in 1 .. m : g[k] = F[g[k - 1]]
            A == {m \in Nat : \E g : Is(g, m)}
<1>1. 0 \in A
  <2>1. Is([k \in 0 .. 0 |-> b], 0)
    OBVIOUS
  <2>. QED
    BY <2>1
<1>2. ASSUME NEW m \in 0 .. n - 1, m \in A PROVE m + 1 \in A
  <2>1. PICK g : Is(g, m)
    BY <1>2
  <2>. DEFINE h == [k \in 0 .. m + 1 |-> IF k <= m THEN g[k] ELSE F[g[m]]]
  <2>2. h \in [0 .. m + 1 -> SUBSET S] /\ h[0] = b
    BY <2>1
  <2>3. ASSUME NEW k \in 1 .. m + 1 PROVE h[k] = F[h[k - 1]]
    <3>1. k - 1 \in 0 .. m /\ h[k - 1] = g[k - 1]
      OBVIOUS
    <3>2. CASE k <= m
      <4>1. k \in 1 .. m /\ h[k] = g[k]
        BY <3>2
      <4>. QED
        BY <2>1, <3>1, <4>1
    <3>3. CASE k = m + 1
      BY <3>1, <3>3
    <3>. QED
      BY <3>2, <3>3
  <2>4. Is(h, m + 1)
    BY <2>2, <2>3
  <2>5. m + 1 \in Nat
    OBVIOUS
  <2>. HIDE DEF Is, h
  <2>. QED
    BY <2>4, <2>5
<1>3. \A m \in 0 .. n : m \in A
  <2>. HIDE DEF A
  <2>. QED
    BY <1>1, <1>2, StepByStep
<1>4. PICK g : Is(g, n)
  <2>1. n \in A
    <3>1. n \in 0 .. n
      OBVIOUS
    <3>. HIDE DEF A
    <3>. QED
      BY <1>3, <3>1
  <2>. HIDE DEF Is
  <2>. QED
    BY <2>1
<1>. QED
  BY <1>4 DEF Iterated
Actions(w) == Len(w) \in Nat /\ DOMAIN w = 1 .. Len(w)

Under(w, ids) == UNION {DepsOf(w[i]) : i \in {j \in DOMAIN w : w[j].id \in ids}}
Freed(w, out) == {w[i].id : i \in {j \in DOMAIN w : ComesOut(w[j], out)}}

\* Kahn's rounds.
Rounds(w, g) ==
  /\ g \in [0 .. Len(w) -> SUBSET IdsOf(w)]
  /\ g[0] = {} /\ \A k \in 1 .. Len(w) : g[k] = Freed(w, g[k - 1])
  /\ g[Len(w)] = TopoSort(w)

LEMMA RoundsThereAre ==
  ASSUME NEW w, Actions(w)
  PROVE  \E g : Rounds(w, g)
<1>. DEFINE S == IdsOf(w)
            F == [X \in SUBSET S |-> Freed(w, X)]
            Eq(f) == f = [n \in 0 .. Len(w) |-> IF n = 0 THEN {} ELSE {w[i].id : i \in {j \in DOMAIN w : ComesOut(w[j], f[n - 1])}}]
            out == CHOOSE f : Eq(f)
<1>1. \A X : Freed(w, X) \in SUBSET S
  BY DEF Freed, IdsOf
<1>2. F \in [SUBSET S -> SUBSET S] /\ \A X \in SUBSET S : F[X] = Freed(w, X)
  BY <1>1
<1>3. PICK g \in [0 .. Len(w) -> SUBSET S] : g[0] = {} /\ \A k \in 1 .. Len(w) : g[k] = F[g[k - 1]]
  <2>1. {} \in SUBSET S /\ Len(w) \in Nat
    BY DEF Actions
  <2>. HIDE DEF S, F
  <2>2. \E g : Iterated(S, F, {}, Len(w), g)
    BY <1>2, <2>1, Iterates
  <2>. QED
    BY <2>2 DEF Iterated
<1>4. \A k \in 1 .. Len(w) : g[k - 1] \in SUBSET S /\ g[k] = Freed(w, g[k - 1])
  <2>. SUFFICES ASSUME NEW k \in 1 .. Len(w) PROVE g[k - 1] \in SUBSET S /\ g[k] = Freed(w, g[k - 1])
    OBVIOUS
  <2>1. k - 1 \in 0 .. Len(w)
    BY DEF Actions
  <2>2. g[k - 1] \in SUBSET S
    BY <1>3, <2>1
  <2>. HIDE DEF F, S
  <2>. QED
    BY <1>2, <1>3, <2>2
<1>5. Eq(g)
  <2>1. \A k \in 0 .. Len(w) : k # 0 => k \in 1 .. Len(w)
    BY DEF Actions
  <2>2. \A k \in 0 .. Len(w) : g[k] = IF k = 0 THEN {} ELSE Freed(w, g[k - 1])
    BY <1>3, <1>4, <2>1
  <2>. QED
    BY <1>3, <2>2 DEF Freed
<1>6. Eq(out)
  <2>. HIDE DEF Eq
  <2>. QED
    BY <1>5
<1>7. TopoSort(w) = out[Len(w)]
  BY DEF TopoSort
<1>. HIDE DEF out
<1>8. /\ DOMAIN out = 0 .. Len(w)
      /\ \A k \in 0 .. Len(w) : out[k] = IF k = 0 THEN {} ELSE Freed(w, out[k - 1])
  BY <1>6 DEF Freed
<1>9. out = [k \in 0 .. Len(w) |-> out[k]]
  BY <1>6
<1>10. out[0] = {} /\ \A k \in 1 .. Len(w) : out[k] = Freed(w, out[k - 1])
  <2>1. 0 \in 0 .. Len(w) /\ \A k \in 1 .. Len(w) : k \in 0 .. Len(w) /\ k # 0
    BY DEF Actions
  <2>. QED
    BY <1>8, <2>1
<1>11. \A k \in 0 .. Len(w) : out[k] \in SUBSET S
  <2>1. \A k \in 0 .. Len(w) : k # 0 => out[k] = Freed(w, out[k - 1])
    BY <1>8
  <2>. HIDE DEF S
  <2>. QED
    BY <1>1, <1>8, <2>1
<1>12. out \in [0 .. Len(w) -> SUBSET S]
  <2>. HIDE DEF S
  <2>. QED
    BY <1>9, <1>11
<1>13. Rounds(w, out)
  BY <1>7, <1>10, <1>12 DEF Rounds
<1>. QED
  BY <1>13

LEMMA UnderGrows == \A w, X, Y : X \subseteq Y => Under(w, X) \subseteq Under(w, Y)
  BY DEF Under

LEMMA UnderIsOf == \A w, X : DepsExist(w) => Under(w, X) \subseteq IdsOf(w)
  BY DEF Under, DepsExist

\* From round to round nothing is lost, and what comes out in a round rests on the round before.
LEMMA RoundsGrow ==
  ASSUME NEW w, Actions(w), NEW g, Rounds(w, g)
  PROVE  \A k \in 1 .. Len(w) : g[k - 1] \subseteq g[k]
<1>. DEFINE n == Len(w)
            A == {k \in Nat : k < n => g[k] \subseteq g[k + 1]}
<1>1. n \in Nat
  BY DEF Actions
<1>2. \A k \in 1 .. n : g[k] = Freed(w, g[k - 1])
  BY DEF Rounds
<1>3. 0 \in A
  BY DEF Rounds
<1>4. ASSUME NEW k \in 0 .. n - 1, k \in A PROVE k + 1 \in A
  <2>1. SUFFICES ASSUME k + 1 < n PROVE g[k + 1] \subseteq g[k + 2]
    BY <1>1
  <2>2. k + 1 \in 1 .. n /\ k + 2 \in 1 .. n /\ (k + 1) - 1 = k /\ (k + 2) - 1 = k + 1
    BY <1>1, <2>1
  <2>3. g[k + 1] = Freed(w, g[k]) /\ g[k + 2] = Freed(w, g[k + 1])
    BY <1>2, <2>2
  <2>4. g[k] \subseteq g[k + 1]
    BY <1>1, <1>4, <2>1
  <2>. QED
    BY <2>3, <2>4 DEF Freed, ComesOut
<1>5. \A k \in 0 .. n : k \in A
  <2>. HIDE DEF A, n
  <2>. QED
    BY <1>1, <1>3, <1>4, StepByStep
<1>6. ASSUME NEW k \in 1 .. n PROVE g[k - 1] \subseteq g[k]
  <2>1. k - 1 \in 0 .. n /\ k - 1 < n /\ (k - 1) + 1 = k
    BY <1>1
  <2>2. k - 1 \in A
    <3>. HIDE DEF A
    <3>. QED
      BY <1>5, <2>1
  <2>. QED
    BY <2>1, <2>2
<1>. QED
  BY <1>6

LEMMA RoundsRest ==
  ASSUME NEW w, Actions(w), UniqIds(w), NEW g, Rounds(w, g), NEW k \in 1 .. Len(w)
  PROVE  Under(w, g[k]) \subseteq g[k - 1]
<1>1. g[k] = Freed(w, g[k - 1])
  BY DEF Rounds
<1>2. ASSUME NEW i \in DOMAIN w, w[i].id \in g[k] PROVE DepsOf(w[i]) \subseteq g[k - 1]
  <2>1. PICK j \in DOMAIN w : w[j].id = w[i].id /\ ComesOut(w[j], g[k - 1])
    BY <1>1, <1>2 DEF Freed
  <2>. QED
    BY <2>1 DEF UniqIds, ComesOut
<1>. QED
  BY <1>2 DEF Under

\* Of a workflow that comes out, no set of actions has a dependency of each in it.
LEMMA NoDescent ==
  ASSUME NEW w, Actions(w), UniqIds(w), TopoSort(w) = IdsOf(w), NEW V \in SUBSET IdsOf(w),
         \A x \in V : Under(w, {x}) \cap V # {}
  PROVE  V = {}
<1>. SUFFICES ASSUME V # {} PROVE FALSE
  OBVIOUS
<1>1. PICK g : Rounds(w, g)
  BY RoundsThereAre
<1>. DEFINE K == {k \in 0 .. Len(w) : g[k] \cap V # {}}
<1>2. Len(w) \in K /\ K \in SUBSET Nat
  BY <1>1 DEF Rounds, Actions
<1>3. PICK k \in K : \A j \in K : k <= j
  <2>. HIDE DEF K
  <2>. QED
    BY <1>2, LeastOf
<1>4. k \in 1 .. Len(w)
  BY <1>1, <1>3 DEF Rounds
<1>5. PICK x \in V : x \in g[k]
  BY <1>3
<1>6. Under(w, {x}) \subseteq g[k - 1]
  <2>1. Under(w, g[k]) \subseteq g[k - 1]
    BY <1>1, <1>4, RoundsRest
  <2>. QED
    BY <1>5, <2>1, UnderGrows
<1>7. k - 1 \in K /\ ~ (k <= k - 1)
  <2>1. k - 1 \in 0 .. Len(w) /\ ~ (k <= k - 1)
    BY <1>4 DEF Actions
  <2>2. g[k - 1] \cap V # {}
    BY <1>6
  <2>. QED
    BY <2>1, <2>2
<1>. QED
  BY <1>3, <1>7

\* What only grows, within a set of at most n elements, stands still after n steps.
LEMMA Stalls ==
  ASSUME NEW S, IsFiniteSet(S), NEW n \in Nat, Cardinality(S) <= n,
         NEW F \in [SUBSET S -> SUBSET S], NEW b \in SUBSET S, NEW g, Iterated(S, F, b, n, g),
         \A k \in 1 .. n : g[k - 1] \subseteq g[k]
  PROVE  F[g[n]] \subseteq g[n]
<1>1. /\ \A k \in 0 .. n : g[k] \in SUBSET S
      /\ \A k \in 1 .. n : g[k] = F[g[k - 1]]
  BY DEF Iterated
<1>2. CASE \E k \in 1 .. n : g[k] = g[k - 1]
  <2>1. PICK k \in 1 .. n : g[k] = g[k - 1]
    BY <1>2
  <2>. DEFINE A == {j \in Nat : j >= k /\ j <= n => g[j] = g[k]}
  <2>2. 0 \in A
    OBVIOUS
  <2>3. ASSUME NEW j \in 0 .. n - 1, j \in A PROVE j + 1 \in A
    <3>1. SUFFICES ASSUME j + 1 >= k, j + 1 <= n PROVE g[j + 1] = g[k]
      OBVIOUS
    <3>2. CASE j + 1 = k
      BY <3>2
    <3>3. CASE j >= k
      <4>1. g[j] = g[k] /\ j + 1 \in 1 .. n /\ (j + 1) - 1 = j
        BY <2>3, <3>3
      <4>2. g[j + 1] = F[g[j]] /\ g[k] = F[g[k - 1]]
        BY <1>1, <4>1
      <4>. QED
        BY <2>1, <4>1, <4>2
    <3>. QED
      BY <3>1, <3>2, <3>3
  <2>4. \A j \in 0 .. n : j \in A
    <3>. HIDE DEF A
    <3>. QED
      BY <2>2, <2>3, StepByStep
  <2>5. g[n] = g[k]
    <3>1. n \in 0 .. n /\ n >= k
      OBVIOUS
    <3>2. n \in A
      <4>. HIDE DEF A
      <4>. QED
        BY <2>4, <3>1
    <3>. QED
      BY <3>1, <3>2
  <2>6. F[g[k - 1]] = g[k]
    BY <1>1
  <2>. QED
    BY <2>1, <2>5, <2>6
<1>3. CASE \A k \in 1 .. n : g[k] # g[k - 1]
  <2>. DEFINE A == {j \in Nat : j <= n => Cardinality(g[j]) >= j}
  <2>1. \A k \in 0 .. n : IsFiniteSet(g[k]) /\ Cardinality(g[k]) \in Nat
    BY <1>1, FS_Subset, FS_CardinalityType
  <2>2. 0 \in A
    BY <2>1
  <2>3. ASSUME NEW j \in 0 .. n - 1, j \in A PROVE j + 1 \in A
    <3>1. j \in 0 .. n /\ j + 1 \in 1 .. n /\ j + 1 \in 0 .. n /\ (j + 1) - 1 = j /\ j <= n
      OBVIOUS
    <3>2. g[j] \in SUBSET g[j + 1] /\ g[j] # g[j + 1]
      BY <1>3, <3>1
    <3>3. Cardinality(g[j]) <= Cardinality(g[j + 1]) /\ Cardinality(g[j]) # Cardinality(g[j + 1])
      BY <2>1, <3>1, <3>2, FS_Subset
    <3>4. Cardinality(g[j]) >= j
      BY <2>3, <3>1
    <3>5. Cardinality(g[j]) \in Nat /\ Cardinality(g[j + 1]) \in Nat
      BY <2>1, <3>1
    <3>6. Cardinality(g[j + 1]) >= j + 1
      BY <3>3, <3>4, <3>5
    <3>. QED
      BY <3>1, <3>6
  <2>4. \A j \in 0 .. n : j \in A
    <3>. HIDE DEF A
    <3>. QED
      BY <2>2, <2>3, StepByStep
  <2>5. n \in 0 .. n
    OBVIOUS
  <2>6. Cardinality(g[n]) >= n
    <3>1. n \in A
      <4>. HIDE DEF A
      <4>. QED
        BY <2>4, <2>5
    <3>. QED
      BY <3>1
  <2>7. Cardinality(g[n]) <= Cardinality(S) /\ Cardinality(S) \in Nat /\ g[n] \in SUBSET S
    BY <1>1, <2>5, FS_Subset, FS_CardinalityType
  <2>8. g[n] = S
    <3>1. Cardinality(S) = Cardinality(g[n])
      BY <2>1, <2>5, <2>6, <2>7
    <3>. QED
      BY <2>7, <3>1, FS_Subset
  <2>. QED
    BY <2>7, <2>8
<1>. QED
  BY <1>2, <1>3

LEMMA IdsAreFew ==
  ASSUME NEW w, Actions(w)
  PROVE  IsFiniteSet(IdsOf(w)) /\ Cardinality(IdsOf(w)) <= Len(w)
<1>. DEFINE f == [i \in 1 .. Len(w) |-> w[i].id]
<1>1. f \in Surjection(1 .. Len(w), IdsOf(w))
  BY DEF Surjection, IdsOf, Actions
<1>2. IsFiniteSet(1 .. Len(w)) /\ Cardinality(1 .. Len(w)) = Len(w)
  <2>1. Len(w) \in Nat /\ Len(w) \in Int /\ 1 \in Int
    BY DEF Actions
  <2>2. IsFiniteSet(1 .. Len(w)) /\ Cardinality(1 .. Len(w)) = IF 1 > Len(w) THEN 0 ELSE Len(w) - 1 + 1
    BY <2>1, FS_Interval
  <2>. QED
    BY <2>1, <2>2
<1>. HIDE DEF f
<1>. QED
  BY <1>1, <1>2, FS_Surjection

\* The steps in which what lies below an id is found.
Grows(w, X) == X \cup Under(w, X)
Reaches(w, id, g) ==
  /\ g \in [0 .. Len(w) -> SUBSET IdsOf(w)]
  /\ g[0] = Under(w, {id}) /\ \A k \in 1 .. Len(w) : g[k] = Grows(w, g[k - 1])
  /\ g[Len(w)] = Below(w, id)

LEMMA ReachesThereAre ==
  ASSUME NEW w, Actions(w), DepsExist(w), NEW id
  PROVE  \E g : Reaches(w, id, g)
<1>. DEFINE S == IdsOf(w)
            b == Under(w, {id})
            F == [X \in SUBSET S |-> Grows(w, X)]
            under(ids) == UNION {DepsOf(w[i]) : i \in {j \in DOMAIN w : w[j].id \in ids}}
            Eq(f) == f = [n \in 0 .. Len(w) |-> IF n = 0 THEN under({id}) ELSE f[n - 1] \cup under(f[n - 1])]
            reach == CHOOSE f : Eq(f)
<1>1. \A X \in SUBSET S : Grows(w, X) \in SUBSET S
  BY UnderIsOf DEF Grows
<1>2. F \in [SUBSET S -> SUBSET S] /\ b \in SUBSET S /\ \A X \in SUBSET S : F[X] = Grows(w, X)
  BY <1>1, UnderIsOf
<1>3. \A X : under(X) = Under(w, X)
  BY DEF Under
<1>4. PICK g : Iterated(S, F, b, Len(w), g)
  <2>1. Len(w) \in Nat
    BY DEF Actions
  <2>. HIDE DEF S, F, b
  <2>. QED
    BY <1>2, <2>1, Iterates
<1>5. g \in [0 .. Len(w) -> SUBSET S] /\ g[0] = b
  BY <1>4 DEF Iterated
<1>6. \A k \in 1 .. Len(w) : g[k] = Grows(w, g[k - 1])
  <2>. SUFFICES ASSUME NEW k \in 1 .. Len(w) PROVE g[k] = Grows(w, g[k - 1])
    OBVIOUS
  <2>1. k - 1 \in 0 .. Len(w)
    BY DEF Actions
  <2>2. g[k - 1] \in SUBSET S
    BY <1>5, <2>1
  <2>3. g[k] = F[g[k - 1]]
    BY <1>4 DEF Iterated
  <2>. HIDE DEF F, S
  <2>. QED
    BY <1>2, <2>2, <2>3
<1>7. Eq(g)
  <2>1. \A k \in 0 .. Len(w) : k # 0 => k \in 1 .. Len(w)
    BY DEF Actions
  <2>2. \A k \in 0 .. Len(w) : g[k] = IF k = 0 THEN under({id}) ELSE g[k - 1] \cup under(g[k - 1])
    <3>. HIDE DEF under
    <3>. QED
      BY <1>3, <1>5, <1>6, <2>1 DEF Grows, b
  <2>3. g = [k \in 0 .. Len(w) |-> g[k]]
    BY <1>5
  <2>. HIDE DEF under
  <2>. QED
    BY <2>2, <2>3
<1>8. Eq(reach)
  <2>. HIDE DEF Eq
  <2>. QED
    BY <1>7
<1>9. Below(w, id) = reach[Len(w)]
  BY DEF Below
<1>10. /\ reach = [k \in 0 .. Len(w) |-> reach[k]]
       /\ \A k \in 0 .. Len(w) : reach[k] = IF k = 0 THEN under({id}) ELSE reach[k - 1] \cup under(reach[k - 1])
  <2>. HIDE DEF reach, under
  <2>. QED
    BY <1>8
<1>. HIDE DEF reach, under
<1>11. \A k \in 0 .. Len(w) : reach[k] = IF k = 0 THEN b ELSE Grows(w, reach[k - 1])
  BY <1>3, <1>10 DEF Grows, b
<1>. HIDE DEF Eq
<1>12. reach[0] = b /\ \A k \in 1 .. Len(w) : reach[k] = Grows(w, reach[k - 1])
  <2>1. 0 \in 0 .. Len(w) /\ \A k \in 1 .. Len(w) : k \in 0 .. Len(w) /\ k # 0
    BY DEF Actions
  <2>. HIDE DEF b
  <2>. QED
    BY <1>11, <2>1
<1>13. \A k \in 0 .. Len(w) : reach[k] \in SUBSET S
  <2>. DEFINE A == {k \in Nat : k <= Len(w) => reach[k] \in SUBSET S}
  <2>1. Len(w) \in Nat
    BY DEF Actions
  <2>2. 0 \in A
    BY <1>2, <1>12
  <2>3. ASSUME NEW k \in 0 .. Len(w) - 1, k \in A PROVE k + 1 \in A
    <3>1. k + 1 \in 1 .. Len(w) /\ (k + 1) - 1 = k /\ k <= Len(w) /\ k + 1 \in Nat
      BY <2>1
    <3>2. reach[k + 1] = Grows(w, reach[k])
      BY <1>12, <3>1
    <3>3. reach[k] \in SUBSET S
      BY <2>3, <3>1
    <3>. HIDE DEF S
    <3>. QED
      BY <1>1, <3>1, <3>2, <3>3
  <2>4. \A k \in 0 .. Len(w) : k \in A
    <3>. HIDE DEF A
    <3>. QED
      BY <2>1, <2>2, <2>3, StepByStep
  <2>. QED
    BY <2>1, <2>4
<1>14. reach \in [0 .. Len(w) -> SUBSET S]
  <2>. HIDE DEF S
  <2>. QED
    BY <1>10, <1>13
<1>15. Reaches(w, id, reach)
  BY <1>9, <1>12, <1>14 DEF Reaches
<1>. QED
  BY <1>15

\* What lies below an id holds all that lies below what it holds.
LEMMA BelowIsClosed ==
  ASSUME NEW w, Actions(w), DepsExist(w), NEW id
  PROVE  /\ Under(w, {id}) \subseteq Below(w, id) /\ Below(w, id) \subseteq IdsOf(w)
         /\ Under(w, Below(w, id)) \subseteq Below(w, id)
<1>. DEFINE S == IdsOf(w)
            b == Under(w, {id})
            F == [X \in SUBSET S |-> Grows(w, X)]
            n == Len(w)
<1>1. PICK g : Reaches(w, id, g)
  BY ReachesThereAre
<1>2. n \in Nat /\ n \in 0 .. n
  BY DEF Actions
<1>3. \A k \in 0 .. n : g[k] \in SUBSET S
  BY <1>1 DEF Reaches
<1>4. \A k \in 1 .. n : g[k - 1] \in SUBSET S /\ g[k] = Grows(w, g[k - 1]) /\ g[k - 1] \subseteq g[k]
  <2>. SUFFICES ASSUME NEW k \in 1 .. n
                PROVE  g[k - 1] \in SUBSET S /\ g[k] = Grows(w, g[k - 1]) /\ g[k - 1] \subseteq g[k]
    OBVIOUS
  <2>1. k - 1 \in 0 .. n
    BY <1>2
  <2>2. g[k] = Grows(w, g[k - 1])
    BY <1>1 DEF Reaches
  <2>. QED
    BY <1>3, <2>1, <2>2 DEF Grows
<1>5. F \in [SUBSET S -> SUBSET S] /\ b \in SUBSET S /\ \A X \in SUBSET S : F[X] = Grows(w, X)
  BY UnderIsOf DEF Grows
<1>6. Iterated(S, F, b, n, g)
  <2>1. \A k \in 1 .. n : g[k] = F[g[k - 1]]
    <3>. HIDE DEF F, S
    <3>. QED
      BY <1>4, <1>5
  <2>2. g \in [0 .. n -> SUBSET S] /\ g[0] = b
    BY <1>1 DEF Reaches
  <2>. HIDE DEF F, S, b
  <2>. QED
    BY <2>1, <2>2 DEF Iterated
<1>7. IsFiniteSet(S) /\ Cardinality(S) <= n
  BY IdsAreFew
<1>8. F[g[n]] \subseteq g[n]
  <2>. HIDE DEF F, S, b, n
  <2>. QED
    BY <1>2, <1>4, <1>5, <1>6, <1>7, Stalls
<1>9. g[n] = Below(w, id) /\ g[n] \in SUBSET S
  BY <1>1, <1>2, <1>3 DEF Reaches
<1>10. Under(w, g[n]) \subseteq g[n]
  <2>1. F[g[n]] = Grows(w, g[n])
    <3>. HIDE DEF F, S, n
    <3>. QED
      BY <1>5, <1>9
  <2>. QED
    BY <1>8, <2>1 DEF Grows
<1>11. b \subseteq g[n]
  <2>. DEFINE A == {k \in Nat : k <= n => b \subseteq g[k]}
  <2>1. 0 \in A
    BY <1>1 DEF Reaches
  <2>2. ASSUME NEW k \in 0 .. n - 1, k \in A PROVE k + 1 \in A
    <3>1. k + 1 \in 1 .. n /\ (k + 1) - 1 = k /\ k <= n /\ k + 1 \in Nat
      BY <1>2
    <3>2. g[k] \subseteq g[k + 1]
      BY <1>4, <3>1
    <3>. HIDE DEF b, n
    <3>. QED
      BY <2>2, <3>1, <3>2
  <2>3. \A k \in 0 .. n : k \in A
    <3>. HIDE DEF A, n
    <3>. QED
      BY <1>2, <2>1, <2>2, StepByStep
  <2>4. n \in A
    <3>. HIDE DEF A, n
    <3>. QED
      BY <1>2, <2>3
  <2>. HIDE DEF b, n
  <2>. QED
    BY <1>2, <2>4
<1>. QED
  BY <1>9, <1>10, <1>11

LEMMA UpToIsClosed ==
  ASSUME NEW w, Actions(w), DepsExist(w), NEW id
  PROVE  Under(w, UpTo(w, id)) \subseteq UpTo(w, id)
<1>1. Under(w, UpTo(w, id)) \subseteq Under(w, {id}) \cup Under(w, Below(w, id))
  BY DEF Under, UpTo
<1>. QED
  BY <1>1, BelowIsClosed DEF UpTo

\* And it is the least such set.
LEMMA BelowIsLeast ==
  ASSUME NEW w, Actions(w), DepsExist(w), NEW id, NEW X, Under(w, {id}) \subseteq X, Under(w, X) \subseteq X
  PROVE  Below(w, id) \subseteq X
<1>1. PICK g : Reaches(w, id, g)
  BY ReachesThereAre
<1>. DEFINE n == Len(w)
            A == {k \in Nat : k <= n => g[k] \subseteq X}
<1>2. n \in Nat /\ n \in 0 .. n
  BY DEF Actions
<1>3. 0 \in A
  BY <1>1 DEF Reaches
<1>4. ASSUME NEW k \in 0 .. n - 1, k \in A PROVE k + 1 \in A
  <2>1. k + 1 \in 1 .. n /\ (k + 1) - 1 = k /\ k <= n /\ k + 1 \in Nat
    BY <1>2
  <2>2. g[k + 1] = Grows(w, g[k])
    BY <1>1, <2>1 DEF Reaches
  <2>3. g[k] \subseteq X
    BY <1>4, <2>1
  <2>4. Under(w, g[k]) \subseteq X
    BY <2>3, UnderGrows
  <2>. HIDE DEF n
  <2>. QED
    BY <2>1, <2>2, <2>3, <2>4 DEF Grows
<1>5. \A k \in 0 .. n : k \in A
  <2>. HIDE DEF A, n
  <2>. QED
    BY <1>2, <1>3, <1>4, StepByStep
<1>6. n \in A
  <2>. HIDE DEF A, n
  <2>. QED
    BY <1>2, <1>5
<1>. QED
  BY <1>1, <1>2, <1>6 DEF Reaches

\* A workflow in which every action counts its dependencies down stops coming out only when
\* nothing more can.
LEMMA RoundsStall ==
  ASSUME NEW w, Actions(w)
  PROVE  Freed(w, TopoSort(w)) \subseteq TopoSort(w) /\ TopoSort(w) \subseteq IdsOf(w)
<1>. DEFINE S == IdsOf(w)
            F == [X \in SUBSET S |-> Freed(w, X)]
            n == Len(w)
<1>1. PICK g : Rounds(w, g)
  BY RoundsThereAre
<1>2. n \in Nat /\ n \in 0 .. n
  BY DEF Actions
<1>3. /\ g \in [0 .. n -> SUBSET S] /\ g[0] = {} /\ g[n] = TopoSort(w)
      /\ \A k \in 1 .. n : g[k] = Freed(w, g[k - 1])
  BY <1>1 DEF Rounds
<1>4. \A k \in 1 .. n : g[k - 1] \subseteq g[k]
  BY <1>1, RoundsGrow
<1>5. F \in [SUBSET S -> SUBSET S] /\ \A X \in SUBSET S : F[X] = Freed(w, X)
  BY DEF Freed, IdsOf
<1>6. \A k \in 1 .. n : g[k - 1] \in SUBSET S
  <2>1. \A k \in 1 .. n : k - 1 \in 0 .. n
    BY <1>2
  <2>. HIDE DEF S, n, F
  <2>. QED
    BY <1>3, <2>1
<1>. HIDE DEF F
<1>7. {} \in SUBSET S /\ Iterated(S, F, {}, n, g)
  <2>1. \A k \in 1 .. n : g[k] = F[g[k - 1]]
    <3>. HIDE DEF S, n
    <3>. QED
      BY <1>3, <1>5, <1>6
  <2>. QED
    BY <1>3, <2>1 DEF Iterated
<1>8. IsFiniteSet(S) /\ Cardinality(S) <= n
  BY IdsAreFew
<1>9. F[g[n]] \subseteq g[n]
  <2>. HIDE DEF S, n
  <2>. QED
    BY <1>2, <1>4, <1>5, <1>7, <1>8, Stalls
<1>10. g[n] \in SUBSET S
  <2>. HIDE DEF S, n
  <2>. QED
    BY <1>2, <1>3
<1>. QED
  BY <1>3, <1>5, <1>9, <1>10

\* The least below: of finitely many ids, one that has no more below it than any other.
LEMMA FewestBelow ==
  ASSUME NEW w, Actions(w), DepsExist(w), NEW T \in SUBSET IdsOf(w), T # {}
  PROVE  \E x \in T : \A y \in T : Below(w, y) \subseteq Below(w, x) => Below(w, x) \subseteq Below(w, y)
<1>. DEFINE N == {Cardinality(Below(w, x)) : x \in T}
<1>1. \A x : IsFiniteSet(Below(w, x)) /\ Cardinality(Below(w, x)) \in Nat
  BY BelowIsClosed, IdsAreFew, FS_Subset, FS_CardinalityType
<1>2. N \in SUBSET Nat /\ N # {}
  BY <1>1
<1>3. PICK m \in N : \A j \in N : m <= j
  <2>. HIDE DEF N
  <2>. QED
    BY <1>2, LeastOf
<1>4. PICK x \in T : m = Cardinality(Below(w, x))
  BY <1>3
<1>5. ASSUME NEW y \in T, Below(w, y) \subseteq Below(w, x) PROVE Below(w, x) \subseteq Below(w, y)
  <2>1. Cardinality(Below(w, x)) <= Cardinality(Below(w, y))
    BY <1>3, <1>4
  <2>2. Below(w, y) \in SUBSET Below(w, x) /\ Cardinality(Below(w, y)) <= Cardinality(Below(w, x))
    BY <1>1, <1>5, FS_Subset
  <2>3. Cardinality(Below(w, x)) = Cardinality(Below(w, y))
    BY <1>1, <2>1, <2>2
  <2>. QED
    BY <1>1, <2>2, <2>3, FS_Subset
<1>. QED
  BY <1>5

\* What does not come out goes round, if every dependency is written once.
LEMMA StuckIsCyclic ==
  ASSUME NEW w, Actions(w), UniqIds(w), DepsExist(w), TopoSort(w) # IdsOf(w),
         \A i \in DOMAIN w : CountsDown(w[i])
  PROVE  Cyclic(w)
<1>. DEFINE T == IdsOf(w) \ TopoSort(w)
<1>. SUFFICES ASSUME ~Cyclic(w) PROVE FALSE
  OBVIOUS
<1>1. T # {} /\ T \in SUBSET IdsOf(w)
  BY RoundsStall
<1>2. \A x \in T : Under(w, {x}) \cap T # {}
  <2>. SUFFICES ASSUME NEW i \in DOMAIN w, w[i].id \in T PROVE Under(w, {w[i].id}) \cap T # {}
    BY DEF IdsOf
  <2>1. ~ ComesOut(w[i], TopoSort(w))
    BY RoundsStall DEF Freed
  <2>2. PICK y \in DepsOf(w[i]) : y \notin TopoSort(w)
    BY <2>1 DEF ComesOut
  <2>3. y \in IdsOf(w) /\ y \in Under(w, {w[i].id})
    BY DEF DepsExist, Under
  <2>. QED
    BY <2>2, <2>3
<1>. HIDE DEF T
<1>3. PICK x \in T : \A y \in T : Below(w, y) \subseteq Below(w, x) => Below(w, x) \subseteq Below(w, y)
  BY <1>1, FewestBelow
<1>4. PICK y \in T : y \in Under(w, {x})
  BY <1>2
<1>5. y \in Below(w, x)
  BY <1>4, BelowIsClosed
<1>6. Below(w, y) \subseteq Below(w, x)
  <2>1. Under(w, {y}) \subseteq Under(w, Below(w, x))
    BY <1>5, UnderGrows
  <2>2. Under(w, Below(w, x)) \subseteq Below(w, x)
    BY BelowIsClosed
  <2>. QED
    BY <2>1, <2>2, BelowIsLeast
<1>7. y \in Below(w, y)
  BY <1>3, <1>5, <1>6
<1>. QED
  BY <1>1, <1>7 DEF Cyclic

\* And what comes out whole does not go round.
LEMMA OrderedIsAcyclic ==
  ASSUME NEW w, Actions(w), UniqIds(w), DepsExist(w), TopoSort(w) = IdsOf(w)
  PROVE  ~Cyclic(w)
<1>. SUFFICES ASSUME NEW id \in IdsOf(w), id \in Below(w, id) PROVE FALSE
  BY DEF Cyclic
<1>. DEFINE V == {x \in IdsOf(w) : id \in Below(w, x)}
<1>1. ASSUME NEW x \in V PROVE Under(w, {x}) \cap V # {}
  <2>. DEFINE X == UNION {UpTo(w, y) : y \in Under(w, {x})}
  <2>1. \A y : Under(w, UpTo(w, y)) \subseteq UpTo(w, y)
    BY UpToIsClosed
  <2>2. Under(w, X) \subseteq X
    <3>1. ASSUME NEW z \in Under(w, X) PROVE z \in X
      <4>1. PICK i \in DOMAIN w : w[i].id \in X /\ z \in DepsOf(w[i])
        BY DEF Under
      <4>2. PICK y \in Under(w, {x}) : w[i].id \in UpTo(w, y)
        BY <4>1
      <4>3. z \in Under(w, UpTo(w, y))
        BY <4>1, <4>2 DEF Under
      <4>. QED
        BY <2>1, <4>3
    <3>. QED
      BY <3>1
  <2>3. Under(w, {x}) \subseteq X
    BY DEF UpTo
  <2>4. id \in X
    <3>. HIDE DEF X
    <3>. QED
      BY <2>2, <2>3, BelowIsLeast
  <2>5. PICK y \in Under(w, {x}) : id \in UpTo(w, y)
    BY <2>4
  <2>6. y \in IdsOf(w)
    BY UnderIsOf
  <2>. QED
    BY <2>5, <2>6 DEF UpTo
<1>2. V \in SUBSET IdsOf(w) /\ id \in V
  OBVIOUS
<1>. HIDE DEF V
<1>3. V = {}
  BY <1>1, <1>2, NoDescent
<1>. QED
  BY <1>2, <1>3

\* The scheduler refuses as cyclic only a workflow with a cycle or with a dependency written
\* twice, and lets no cycle pass: for every workflow.
THEOREM RefusedTheorem == Spec => []CyclesAreRefused
<1>1. PlanInv => CyclesAreRefused
  <2>. SUFFICES ASSUME PlanInv, NEW p \in Procs, UniqIds(Workflow(p)), DepsExist(Workflow(p))
                PROVE  /\ run[p].pc = "rejected" /\ Validate(Workflow(p)) = "cycle" =>
                            Cyclic(Workflow(p)) \/ \E i \in DOMAIN Workflow(p) : ~CountsDown(Workflow(p)[i])
                       /\ run[p].pc \notin {"new", "rejected"} => ~Cyclic(Workflow(p))
    BY DEF CyclesAreRefused
  <2>. DEFINE w == Workflow(p)
  <2>1. Actions(w)
    BY WorkflowsAssumption DEF Actions, PlanInv, Workflow, Job
  <2>2. Validate(w) = "cycle" => TopoSort(w) # IdsOf(w)
    BY DEF Validate, HasCycle
  <2>3. Validate(w) = "ok" => TopoSort(w) = IdsOf(w)
    BY DEF Validate, HasCycle
  <2>4. run[p].pc \notin {"new", "rejected"} => Validate(w) = "ok"
    BY DEF PlanInv, PlanOK
  <2>. HIDE DEF w
  <2>5. UniqIds(w) /\ DepsExist(w)
    BY DEF w
  <2>6. Validate(w) = "cycle" => Cyclic(w) \/ \E i \in DOMAIN w : ~CountsDown(w[i])
    BY <2>1, <2>2, <2>5, StuckIsCyclic
  <2>7. run[p].pc \notin {"new", "rejected"} => ~Cyclic(w)
    BY <2>1, <2>3, <2>4, <2>5, OrderedIsAcyclic
  <2>. QED
    BY <2>6, <2>7 DEF w
<1>. QED
  BY <1>1, PlanStarts, PlanStays, PTL DEF Spec

-----------------------------------------------------------------------------
(* Plans are carried through.                                                *)

\* What a step of a plan waits for.
LEMMA WaitsFor ==
  ASSUME NEW w, Validate(w) = "ok"
  PROVE  /\ \A s \in ToPlan(w) :
              \/ /\ s.id \in IdsOf(w)
                 /\ s.deps \subseteq Under(w, {s.id})
                      \cup (IF IdsWith(w, SwapExec) # {} /\ s.id \in IdsWith(w, SwapQuote) THEN {Before} ELSE {})
                      \cup (IF s.id = After THEN IdsWith(w, SwapExec) ELSE {})
              \/ Before \notin IdsOf(w) /\ s.id = Before /\ s.deps = {}
              \/ After \notin IdsOf(w) /\ s.id = After /\ s.deps = IdsWith(w, SwapExec)
         /\ \A x \in IdsOf(w) \cup (IF IdsWith(w, SwapExec) # {} THEN {Before, After} ELSE {}) :
              \E s \in ToPlan(w) : s.id = x
<1>. DEFINE E == IdsWith(w, SwapExec)
            steps == {StepOf(w[i]) : i \in DOMAIN w}
            Of(i) == IF E = {} THEN StepOf(w[i]) ELSE Patched(StepOf(w[i]), E)
<1>1. \A i \in DOMAIN w : StepOf(w[i]).id = w[i].id /\ StepOf(w[i]).tool = w[i].tool
  BY DEF StepOf
<1>2. E = {s.id : s \in {t \in steps : t.tool = SwapExec}}
  BY <1>1 DEF IdsWith
<1>3. IdsOf(w) = {s.id : s \in steps}
  BY <1>1 DEF IdsOf
<1>4. ASSUME NEW s \in ToPlan(w)
      PROVE  \/ \E i \in DOMAIN w : s = Of(i)
             \/ E # {} /\ Before \notin IdsOf(w) /\ s = BalanceStep(Before, {})
             \/ E # {} /\ After \notin IdsOf(w) /\ s = BalanceStep(After, E)
  <2>. HIDE DEF E
  <2>. QED
    BY <1>2, <1>3 DEF ToPlan, WithBalances
<1>5. /\ \A i \in DOMAIN w : Of(i) \in ToPlan(w)
      /\ E # {} /\ Before \notin IdsOf(w) => BalanceStep(Before, {}) \in ToPlan(w)
      /\ E # {} /\ After \notin IdsOf(w) => BalanceStep(After, E) \in ToPlan(w)
  <2>. HIDE DEF E
  <2>. QED
    BY <1>2, <1>3 DEF ToPlan, WithBalances
<1>6. ASSUME NEW i \in DOMAIN w
      PROVE  /\ Of(i).id = w[i].id /\ w[i].id \in IdsOf(w)
             /\ Of(i).deps \subseteq Under(w, {w[i].id})
                  \cup (IF E # {} /\ w[i].id \in IdsWith(w, SwapQuote) THEN {Before} ELSE {})
                  \cup (IF w[i].id = After THEN E ELSE {})
  <2>1. DepsOf(w[i]) \subseteq Under(w, {w[i].id})
    BY DEF Under
  <2>2. w[i].tool = SwapQuote => w[i].id \in IdsWith(w, SwapQuote)
    BY DEF IdsWith
  <2>3. StepOf(w[i]).id = w[i].id /\ StepOf(w[i]).tool = w[i].tool /\ StepOf(w[i]).deps = DepsOf(w[i])
    BY DEF StepOf
  <2>4. /\ Patched(StepOf(w[i]), E).id = w[i].id
        /\ Patched(StepOf(w[i]), E).deps = DepsOf(w[i]) \cup (IF w[i].tool = SwapQuote THEN {Before} ELSE {})
                                                        \cup (IF w[i].id = After THEN E ELSE {})
    <3>. HIDE DEF E
    <3>. QED
      BY DEF StepOf, Patched
  <2>. HIDE DEF E
  <2>. QED
    BY <2>1, <2>2, <2>3, <2>4 DEF IdsOf
<1>7. \A deps : /\ BalanceStep(Before, deps).id = Before /\ BalanceStep(After, deps).id = After
                /\ BalanceStep(Before, deps).deps = deps /\ BalanceStep(After, deps).deps = deps
  BY DEF BalanceStep
<1>. HIDE DEF E, Of
<1>8. \A s \in ToPlan(w) :
        \/ /\ s.id \in IdsOf(w)
           /\ s.deps \subseteq Under(w, {s.id})
                \cup (IF E # {} /\ s.id \in IdsWith(w, SwapQuote) THEN {Before} ELSE {})
                \cup (IF s.id = After THEN E ELSE {})
        \/ Before \notin IdsOf(w) /\ s.id = Before /\ s.deps = {}
        \/ After \notin IdsOf(w) /\ s.id = After /\ s.deps = E
  <2>. SUFFICES ASSUME NEW s \in ToPlan(w)
                PROVE  \/ /\ s.id \in IdsOf(w)
                          /\ s.deps \subseteq Under(w, {s.id})
                               \cup (IF E # {} /\ s.id \in IdsWith(w, SwapQuote) THEN {Before} ELSE {})
                               \cup (IF s.id = After THEN E ELSE {})
                       \/ Before \notin IdsOf(w) /\ s.id = Before /\ s.deps = {}
                       \/ After \notin IdsOf(w) /\ s.id = After /\ s.deps = E
    OBVIOUS
  <2>1. CASE \E i \in DOMAIN w : s = Of(i)
    BY <1>6, <2>1
  <2>2. CASE Before \notin IdsOf(w) /\ s = BalanceStep(Before, {})
    BY <1>7, <2>2
  <2>3. CASE After \notin IdsOf(w) /\ s = BalanceStep(After, E)
    BY <1>7, <2>3
  <2>. QED
    BY <1>4, <2>1, <2>2, <2>3
<1>9. \A x \in IdsOf(w) : \E s \in ToPlan(w) : s.id = x
  BY <1>5, <1>6 DEF IdsOf
<1>10. E # {} => \A x \in {Before, After} : \E s \in ToPlan(w) : s.id = x
  BY <1>5, <1>7, <1>9
<1>. QED
  BY <1>8, <1>9, <1>10 DEF E

\* Ids of which each waits for another one: there are none, unless a balance of the
\* workflow's own is in the wrong place.
LEMMA NobodyWaits ==
  ASSUME NEW w, Actions(w), Validate(w) = "ok", NEW T,
         \A x \in T : \E s \in ToPlan(w) : s.id = x /\ s.deps \cap T # {},
         Before \in IdsOf(w) => UpTo(w, Before) \cap (IdsWith(w, SwapQuote) \cup {After}) = {},
         \A x \in IdsWith(w, SwapExec) : After \notin UpTo(w, x)
  PROVE  T = {}
<1>. DEFINE E == IdsWith(w, SwapExec)
            Q == IdsWith(w, SwapQuote)
            I == IdsOf(w)
<1>1. UniqIds(w) /\ DepsExist(w) /\ TopoSort(w) = I
  BY DEF Validate, HasCycle
<1>2. ASSUME NEW x \in T
      PROVE  \/ /\ x \in I
                /\ \E y \in T : \/ y \in Under(w, {x})
                                \/ x \in Q /\ y = Before
                                \/ x = After /\ y \in E
             \/ x = After /\ x \notin I /\ \E y \in T : y \in E
  <2>1. PICK s \in ToPlan(w) : s.id = x /\ s.deps \cap T # {}
    OBVIOUS
  <2>2. PICK y \in T : y \in s.deps
    BY <2>1
  <2>3. \/ /\ x \in I
           /\ s.deps \subseteq Under(w, {x}) \cup (IF E # {} /\ x \in Q THEN {Before} ELSE {})
                                             \cup (IF x = After THEN E ELSE {})
        \/ s.deps = {}
        \/ x = After /\ x \notin I /\ s.deps = E
    <3>1. \/ /\ s.id \in I
             /\ s.deps \subseteq Under(w, {s.id}) \cup (IF E # {} /\ s.id \in Q THEN {Before} ELSE {})
                                                  \cup (IF s.id = After THEN E ELSE {})
          \/ Before \notin I /\ s.id = Before /\ s.deps = {}
          \/ After \notin I /\ s.id = After /\ s.deps = E
      BY WaitsFor
    <3>. HIDE DEF E, Q, I
    <3>. QED
      BY <2>1, <3>1
  <2>. HIDE DEF E, Q, I
  <2>. QED
    BY <2>2, <2>3
<1>3. ASSUME NEW C, C \subseteq I, \A x \in C : Under(w, {x}) \subseteq C,
             \A x \in C \cap T, y \in T : ~(x \in Q /\ y = Before) /\ ~(x = After /\ y \in E)
      PROVE  C \cap T = {}
  <2>1. \A x \in C \cap T : Under(w, {x}) \cap (C \cap T) # {}
    <3>. HIDE DEF E, Q, I
    <3>. QED
      BY <1>2, <1>3
  <2>2. C \cap T \in SUBSET IdsOf(w)
    BY <1>3
  <2>. QED
    BY <1>1, <2>1, <2>2, NoDescent
<1>4. \A id, x : x \in UpTo(w, id) => Under(w, {x}) \subseteq UpTo(w, id)
  <2>1. \A id, x : x \in UpTo(w, id) => Under(w, {x}) \subseteq Under(w, UpTo(w, id))
    BY UnderGrows
  <2>. QED
    BY <1>1, <2>1, UpToIsClosed
<1>5. \A id \in I : UpTo(w, id) \subseteq I
  BY <1>1, BelowIsClosed DEF UpTo
<1>6. E \subseteq I /\ \A id : id \in UpTo(w, id)
  BY DEF IdsWith, IdsOf, UpTo
<1>7. Before # After
  BY DEF Before, After
<1>. HIDE DEF E, Q, I
<1>8. Before \notin T
  <2>1. CASE Before \in I
    <3>1. UpTo(w, Before) \cap (Q \cup {After}) = {}
      BY <2>1 DEF I, Q
    <3>2. UpTo(w, Before) \cap T = {}
      BY <1>3, <1>4, <1>5, <2>1, <3>1
    <3>. QED
      BY <1>6, <3>2
  <2>2. CASE Before \notin I
    BY <1>2, <1>7, <2>2
  <2>. QED
    BY <2>1, <2>2
<1>9. E \cap T = {}
  <2>. DEFINE C == UNION {UpTo(w, x) : x \in E}
  <2>1. C \subseteq I /\ E \subseteq C /\ After \notin C
    BY <1>5, <1>6 DEF E
  <2>2. \A x \in C : Under(w, {x}) \subseteq C
    BY <1>4
  <2>. HIDE DEF C
  <2>3. \A x \in C \cap T, y \in T : ~(x \in Q /\ y = Before) /\ ~(x = After /\ y \in E)
    BY <1>8, <2>1
  <2>4. C \cap T = {}
    BY <1>3, <2>1, <2>2, <2>3
  <2>. QED
    BY <2>1, <2>4
<1>10. I \cap T = {}
  <2>1. \A x \in I : Under(w, {x}) \subseteq I
    BY <1>1, UnderIsOf DEF I
  <2>. QED
    BY <1>3, <1>8, <1>9, <2>1
<1>. QED
  BY <1>2, <1>9, <1>10

\* A run forgets no step of its plan, and stands still only where each step waits.
Carrying(p, r) ==
  /\ r.pc \notin {"new", "rejected"} => \A s \in Plan(p) : s \in r.remaining \/ s.id \in r.done
  /\ r.pc = "stuck" => r.remaining # {} /\ \A s \in r.remaining : ~(s.deps \subseteq r.done)
PlansCarry == \A p \in Procs : Carrying(p, run[p])

\* What a step does to a run's list.
Listed(p) ==
  \/ run'[p] = run[p]
  \/ run'[p].pc = "rejected"
  \/ run'[p].pc = "ready" /\ run'[p].remaining = Plan(p)
  \/ /\ run[p].pc \notin {"new", "rejected"}
     /\ \/ /\ run'[p].remaining = run[p].remaining /\ run'[p].done = run[p].done
           /\ run'[p].pc = "stuck" => run[p].remaining # {} /\ Ready(p) = {}
        \/ /\ run'[p].pc = "ready" /\ \E s : /\ run'[p].remaining = run[p].remaining \ {s}
                                             /\ run'[p].done = run[p].done \cup {s.id}

LEMMA ListsMove ==
  ASSUME PlanInv, [Next]_vars
  PROVE  setup' = setup /\ \A p \in Procs : Listed(p)
<1>0. DOMAIN run = Procs /\ \A p \in Procs : PlanOK(p, run[p]) /\ DOMAIN run[p] = Fields
  BY DEF PlanInv, PlanOK
<1>1. CASE UNCHANGED <<setup, run>>
  BY <1>1 DEF Listed
<1>2. ASSUME NEW p \in Procs,
             \/ Compile(p) \/ AllDone(p) \/ NothingRunnable(p) \/ StartStep(p) \/ StepEnds(p) \/ StepFails(p)
             \/ QuoteBuilt(p) \/ Truncate(p) \/ QuoteWritten(p)
             \/ LookUp(p) \/ Refused(p) \/ Simulated(p) \/ Sent(p) \/ SendFails(p)
             \/ Confirmed(p) \/ ConfirmFails(p) \/ QuoteDeleted(p) \/ Crash(p)
      PROVE  setup' = setup /\ (\A o \in Procs : o # p => run'[o] = run[o]) /\ Listed(p)
  <2>1. CASE Compile(p)
    <3>1. setup' = setup /\ \A o \in Procs : o # p => run'[o] = run[o]
      BY <1>0, <2>1 DEF Compile
    <3>2. run'[p].pc = "rejected" \/ (run'[p].pc = "ready" /\ run'[p].remaining = Plan(p))
      BY <1>0, <2>1 DEF Compile, Plan, Workflow, Fields
    <3>. QED
      BY <3>1, <3>2 DEF Listed
  <2>2. ASSUME NEW pc, Goto(p, pc), setup' = setup, run[p].pc \notin {"new", "rejected"},
               pc = "stuck" => run[p].remaining # {} /\ Ready(p) = {}
        PROVE  setup' = setup /\ (\A o \in Procs : o # p => run'[o] = run[o]) /\ Listed(p)
    <3>1. /\ \A o \in Procs : o # p => run'[o] = run[o]
          /\ run'[p].pc = pc /\ run'[p].remaining = run[p].remaining /\ run'[p].done = run[p].done
      BY <2>2, Going
    <3>. QED
      BY <2>2, <3>1 DEF Listed
  <2>3. CASE \/ AllDone(p) \/ NothingRunnable(p) \/ StepFails(p) \/ Truncate(p) \/ Refused(p) \/ Simulated(p)
             \/ Sent(p) \/ SendFails(p) \/ Confirmed(p) \/ ConfirmFails(p) \/ Crash(p)
    <3>1. CASE AllDone(p) \/ NothingRunnable(p)
      BY <2>2, <3>1 DEF AllDone, NothingRunnable
    <3>2. CASE StepFails(p) \/ Refused(p) \/ SendFails(p) \/ ConfirmFails(p)
      BY <2>2, <3>2 DEF StepFails, Refused, SendFails, ConfirmFails
    <3>3. CASE Simulated(p) \/ Sent(p) \/ Confirmed(p) \/ Truncate(p)
      BY <2>2, <3>3 DEF Simulated, Sent, Confirmed, Truncate
    <3>4. CASE Crash(p)
      BY <2>2, <3>4 DEF Crash, Active
    <3>. QED
      BY <2>3, <3>1, <3>2, <3>3, <3>4
  <2>4. CASE StartStep(p)
    <3>1. /\ setup' = setup /\ \A o \in Procs : o # p => run'[o] = run[o]
          /\ run'[p].remaining = run[p].remaining /\ run'[p].done = run[p].done
          /\ run'[p].pc = EntryOf(p, First(Ready(p))) /\ run[p].pc = "ready"
      BY <1>0, <2>4 DEF StartStep, Fields
    <3>2. EntryOf(p, First(Ready(p))) # "stuck"
      BY DEF EntryOf
    <3>. QED
      BY <3>1, <3>2 DEF Listed
  <2>5. CASE QuoteBuilt(p) \/ LookUp(p)
    <3>1. /\ Gains(p) /\ setup' = setup /\ run[p].pc \in {"quote", "exec"}
          /\ run'[p].pc \in {"toWrite", "simulate"}
      BY <2>5, Builds, Finds
    <3>. QED
      BY <3>1 DEF Gains, Listed
  <2>6. CASE StepEnds(p) \/ QuoteWritten(p) \/ QuoteDeleted(p)
    <3>1. PICK lastQuote : run' = [run EXCEPT ![p] = Done(run[p], lastQuote)] /\ setup' = setup
      BY <1>0, <2>6 DEF StepEnds, QuoteWritten, QuoteDeleted
    <3>2. /\ \A o \in Procs : o # p => run'[o] = run[o]
          /\ run'[p].pc = "ready" /\ run'[p].done = run[p].done \cup {run[p].step.id}
          /\ run'[p].remaining = run[p].remaining \ {run[p].step}
      BY <1>0, <3>1 DEF Done, Fields
    <3>3. run[p].pc \notin {"new", "rejected"}
      BY <2>6 DEF StepEnds, QuoteWritten, QuoteDeleted
    <3>. QED
      BY <3>1, <3>2, <3>3 DEF Listed
  <2>. QED
    BY <1>2, <2>1, <2>3, <2>4, <2>5, <2>6
<1>3. ASSUME NEW p \in Procs, setup' = setup /\ (\A o \in Procs : o # p => run'[o] = run[o]) /\ Listed(p)
      PROVE  setup' = setup /\ \A o \in Procs : Listed(o)
  BY <1>3 DEF Listed
<1>. QED
  BY <1>1, <1>2, <1>3 DEF Next, Tick, vars

LEMMA PlansCarryOn == PlanInv /\ PlansCarry /\ [Next]_vars => PlansCarry'
<1>. SUFFICES ASSUME PlanInv, PlansCarry, [Next]_vars, NEW p \in Procs PROVE Carrying(p, run[p])'
  BY DEF PlansCarry
<1>1. setup' = setup /\ Listed(p) /\ Carrying(p, run[p])
  BY ListsMove DEF PlansCarry
<1>2. Plan(p)' = Plan(p)
  BY <1>1 DEF Plan, Workflow, Job
<1>3. CASE run'[p] = run[p]
  BY <1>1, <1>2, <1>3 DEF Carrying
<1>4. CASE run'[p].pc = "rejected" \/ (run'[p].pc = "ready" /\ run'[p].remaining = Plan(p))
  BY <1>2, <1>4 DEF Carrying
<1>5. CASE /\ run[p].pc \notin {"new", "rejected"}
           /\ run'[p].remaining = run[p].remaining /\ run'[p].done = run[p].done
           /\ run'[p].pc = "stuck" => run[p].remaining # {} /\ Ready(p) = {}
  BY <1>1, <1>2, <1>5 DEF Carrying, Ready
<1>6. CASE /\ run[p].pc \notin {"new", "rejected"} /\ run'[p].pc = "ready"
           /\ \E s : run'[p].remaining = run[p].remaining \ {s} /\ run'[p].done = run[p].done \cup {s.id}
  BY <1>1, <1>2, <1>6 DEF Carrying
<1>. QED
  BY <1>1, <1>3, <1>4, <1>5, <1>6 DEF Listed

\* A compiled plan is carried through, unless a balance of the workflow's own is in the wrong
\* place: for every workflow the scheduler accepts.
THEOREM CarriedTheorem == Spec => []StuckOnlyByOwnBalance
<1>1. PlanInv /\ PlansCarry => StuckOnlyByOwnBalance
  <2>. SUFFICES ASSUME PlanInv, PlansCarry, NEW p \in Procs, run[p].pc = "stuck",
                       Before \in IdsOf(Workflow(p)) =>
                         UpTo(Workflow(p), Before) \cap (PlanIds(p, SwapQuote) \cup {After}) = {},
                       \A x \in PlanIds(p, SwapExec) : After \notin UpTo(Workflow(p), x)
                PROVE  FALSE
    BY DEF StuckOnlyByOwnBalance
  <2>. DEFINE w == Workflow(p)
              T == {s.id : s \in run[p].remaining}
  <2>1. Actions(w)
    BY WorkflowsAssumption DEF Actions, PlanInv, Workflow, Job
  <2>2. /\ Validate(w) = "ok" /\ run[p].remaining \subseteq ToPlan(w) /\ run[p].remaining # {}
        /\ \A s \in ToPlan(w) : s \in run[p].remaining \/ s.id \in run[p].done
        /\ \A s \in run[p].remaining : ~(s.deps \subseteq run[p].done)
    BY DEF PlanInv, PlanOK, PlansCarry, Carrying, Plan
  <2>. HIDE DEF w
  <2>3. ASSUME NEW s \in ToPlan(w), NEW y \in s.deps PROVE \E t \in ToPlan(w) : t.id = y
    <3>. DEFINE E == IdsWith(w, SwapExec)
    <3>1. \/ s.deps \subseteq Under(w, {s.id}) \cup (IF E # {} /\ s.id \in IdsWith(w, SwapQuote) THEN {Before} ELSE {})
                                               \cup (IF s.id = After THEN E ELSE {})
          \/ s.deps = {}
          \/ s.deps = E
      BY <2>2, WaitsFor
    <3>2. Under(w, {s.id}) \subseteq IdsOf(w)
      BY <2>2, UnderIsOf DEF Validate
    <3>3. E \subseteq IdsOf(w)
      BY DEF IdsWith, IdsOf
    <3>4. y \in IdsOf(w) \cup (IF E # {} THEN {Before, After} ELSE {})
      <4>. HIDE DEF E
      <4>. QED
        BY <3>1, <3>2, <3>3
    <3>. QED
      BY <2>2, <3>4, WaitsFor
  <2>4. ASSUME NEW x \in T PROVE \E s \in ToPlan(w) : s.id = x /\ s.deps \cap T # {}
    <3>1. PICK s \in run[p].remaining : s.id = x
      BY <2>4
    <3>2. PICK y \in s.deps : y \notin run[p].done
      BY <2>2
    <3>3. PICK t \in ToPlan(w) : t.id = y
      BY <2>2, <2>3
    <3>4. y \in T
      BY <2>2, <3>2, <3>3
    <3>. QED
      BY <2>2, <3>1, <3>4
  <2>5. T # {}
    BY <2>2
  <2>6. /\ Before \in IdsOf(w) => UpTo(w, Before) \cap (IdsWith(w, SwapQuote) \cup {After}) = {}
        /\ \A x \in IdsWith(w, SwapExec) : After \notin UpTo(w, x)
    BY DEF PlanIds, w
  <2>. HIDE DEF T
  <2>. QED
    BY <2>1, <2>2, <2>4, <2>5, <2>6, NobodyWaits
<1>2. Init => PlansCarry
  BY DEF Init, Idle, PlansCarry, Carrying
<1>. QED
  BY <1>1, <1>2, PlanStarts, PlanStays, PlansCarryOn, PTL DEF Spec
==============================================================================
