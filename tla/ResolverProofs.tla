---------------------------- MODULE ResolverProofs ----------------------------
(***************************************************************************)
(* For any number of requests and intents: what a request resolves is what *)
(* it was asked, from the cache or not, a cached answer is a recent one,    *)
(* the better of two offers is taken, a venue that refuses is left alone,   *)
(* and nobody waits for an RPC slot that is free.                           *)
(***************************************************************************)
EXTENDS Resolver, FiniteSetTheorems, TLAPS

-----------------------------------------------------------------------------
(* The inductive invariant.                                                  *)

Offered == {[id |-> i.id, dependsOn |-> j.dependsOn, swap |-> Swap(j), adapter |-> v, cached |-> b] :
              i \in Intents, j \in Intents, v \in Venues, b \in BOOLEAN}

Points == {"new", "next", "jupiter", "pools", "queued", "woken", "rpc", "answered", "failed"}
Marks == {"done", "token", "open", "queued", "woken"}

Types ==
  /\ setup \in Setups
  /\ pc \in [Procs -> Points]
  /\ call \in [Procs -> [Venues -> Marks]]
  /\ DOMAIN slots = Procs /\ slots = [p \in Procs |-> slots[p]]
  /\ nth \in [Procs -> Nat \ {0}]
  /\ resolved \in [Procs -> Seq(Offered)]
  /\ resolveCache \in [Keys -> {None} \cup [age : Nat, act : Offered]]

\* What the calls of a request of kind k at a point say of its quote slots.  A call to
\* Jupiter never queues; of the pools only Raydium does, behind Meteora.
PoolSlots(calls) ==
  [active |-> (IF calls["meteora"] = "open" THEN 1 ELSE 0) + (IF calls["raydium"] = "open" THEN 1 ELSE 0),
   queue  |-> IF calls["raydium"] = "queued" THEN <<"raydium">> ELSE <<>>,
   woken  |-> IF calls["raydium"] = "woken" THEN 1 ELSE 0]

Agrees(k, point, calls, l) ==
  CASE point = "jupiter" ->
         /\ calls[Jupiter] \in {"token", "open"} /\ calls["meteora"] = "done" /\ calls["raydium"] = "done"
         /\ l = [active |-> 1, queue |-> <<>>, woken |-> 0]
    [] point = "pools" ->
         /\ calls[Jupiter] = "done" /\ calls["meteora"] \in {"open", "done"}
         /\ calls["raydium"] \in {"open", "done", "queued", "woken"}
         /\ calls["raydium"] = "queued" => calls["meteora"] = "open"
         /\ k = "run_v0" => calls["raydium"] \in {"open", "done"} /\ l = NewLimiter
         /\ k # "run_v0" =>
              /\ l = PoolSlots(calls)
              /\ calls["raydium"] = "woken" => calls["meteora"] = "done"
              /\ calls["meteora"] = "open" /\ calls["raydium"] = "open" => QuoteConcurrency >= 2
    [] OTHER -> (\A v \in Venues : calls[v] = "done") /\ l = NewLimiter

CallsOK == \A p \in Procs : Agrees(Job(p).kind, pc[p], call[p], slots[p])

\* A request that asks somebody is at an intent of its job.
AtWork ==
  \A p \in Procs :
    /\ pc[p] \in {"next", "jupiter", "pools"} => Job(p).kind \in {"resolve_v0", "run_v0"}
    /\ pc[p] \in {"jupiter", "pools"} => nth[p] <= Len(Job(p).intents)

Shape == Types /\ CallsOK /\ AtWork

\* The limiter agrees with its callers on who waits and who was woken.
Woken == {p \in Procs : pc[p] = "woken"}
QueueOK ==
  /\ rpc \in [active : Int, queue : Seq(Procs), woken : Nat]
  /\ \A i \in DOMAIN rpc.queue : pc[rpc.queue[i]] = "queued"
  /\ \A i, j \in DOMAIN rpc.queue : rpc.queue[i] = rpc.queue[j] => i = j
  /\ rpc.woken = Cardinality(Woken)

\* What the cache holds for a key is a resolution of the key's swap.
CacheOK == \A k \in Keys : resolveCache[k] # None => resolveCache[k].act.swap = <<k[3], k[4]>>
CountOK == \A p \in Procs : Len(resolved[p]) < nth[p]

-----------------------------------------------------------------------------
(* A step of a request that is not about the RPC, and the steps that are.    *)

Walk(p) ==
  \/ Begin(p) \/ Answer(p) \/ SkipIntent(p) \/ AnswerFromCache(p)
  \/ AskJupiter(p) \/ PassOverJupiter(p) \/ AcquireHttpToken(p)
  \/ JupiterAnswers(p) \/ JupiterFallsBack(p)
  \/ \E e \in setup.failures : JupiterTriesAgain(p, e) \/ JupiterFails(p, e)
  \/ \E v \in Venues : \/ GoesOn(p, v) \/ PoolTriesAgain(p, v) \/ PoolAnswers(p, v)
                       \/ \E e \in setup.failures : PoolFails(p, v, e)
  \/ Choose(p) \/ GiveUpIntent(p) \/ HashFromCache(p)

Phone(p) == AskRpc(p) \/ RpcGoesOn(p) \/ RpcAnswers(p) \/ RpcFails(p)

LEMMA WalkOrPhone == \A p \in Procs : Step(p) => Walk(p) \/ Phone(p)
  BY DEF Step, Walk, Phone

-----------------------------------------------------------------------------
(* Types, calls and places.                                                  *)

LEMMA VenueNames == Jupiter = "jupiter" /\ Pools = {"meteora", "raydium"}
                    /\ Venues = {"jupiter", "meteora", "raydium"}
  BY DEF Jupiter, Pools, Venues

LEMMA ShapeStarts == Init => Shape
<1>. SUFFICES ASSUME Init PROVE Shape
  OBVIOUS
<1>1. Types
  BY DEF Init, Types, Points, Marks
<1>2. CallsOK
  BY VenueNames DEF Init, CallsOK, Agrees
<1>. QED
  BY <1>1, <1>2 DEF Init, Shape, AtWork

\* What a walking step may do to the points, the calls and the slots.
WalkFrame(p) ==
  /\ setup' = setup /\ rpc' = rpc
  /\ pc' \in [Procs -> Points] /\ call' \in [Procs -> [Venues -> Marks]]
  /\ DOMAIN slots' = Procs /\ slots' = [q \in Procs |-> slots'[q]]
  /\ pc[p] \in {"new", "next", "jupiter", "pools"}
  /\ pc'[p] \in {"next", "jupiter", "pools", "answered"}
  /\ \A q \in Procs \ {p} : pc'[q] = pc[q] /\ call'[q] = call[q] /\ slots'[q] = slots[q]
  /\ Agrees(Job(p).kind, pc'[p], call'[p], slots'[p])

LEMMA Framed ==
  ASSUME NEW p \in Procs, Types, setup' = setup, rpc' = rpc,
         pc[p] \in {"new", "next", "jupiter", "pools"},
         NEW point \in {"next", "jupiter", "pools", "answered"}, pc' = [pc EXCEPT ![p] = point],
         NEW calls \in [Venues -> Marks], call' = [call EXCEPT ![p] = calls],
         NEW l, slots' = [slots EXCEPT ![p] = l],
         Agrees(Job(p).kind, point, calls, l)
  PROVE  WalkFrame(p)
  BY DEF Types, WalkFrame, Points

\* A step that leaves the calls and the slots alone.
LEMMA FramedPoint ==
  ASSUME NEW p \in Procs, Types, setup' = setup, rpc' = rpc, call' = call, slots' = slots,
         pc[p] \in {"new", "next", "jupiter", "pools"},
         NEW point \in {"next", "jupiter", "pools", "answered"}, pc' = [pc EXCEPT ![p] = point],
         Agrees(Job(p).kind, point, call[p], slots[p])
  PROVE  WalkFrame(p)
  BY DEF Types, WalkFrame, Points

LEMMA FramedAsk ==
  ASSUME NEW p \in Procs, Types, setup' = setup, rpc' = rpc,
         pc[p] \in {"new", "next", "jupiter", "pools"}, AskPools(p, NewLimiter)
  PROVE  WalkFrame(p)
<1>. DEFINE direct == Job(p).kind = "run_v0"
            asks == IF direct THEN Pools ELSE {v \in Pools : ~InBackoff(p, v)}
            enter(k, v) == IF v \in asks /\ ~direct THEN Enter(k, QuoteConcurrency, v) ELSE k
            first == enter(NewLimiter, "meteora")
            entered == enter(first, "raydium")
            waits(v) == \E i \in DOMAIN entered.queue : entered.queue[i] = v
            calls == [v \in Venues |-> IF v \notin asks THEN "done"
                                      ELSE IF waits(v) THEN "queued" ELSE "open"]
<1>1. pc' = [pc EXCEPT ![p] = "pools"] /\ slots' = [slots EXCEPT ![p] = entered]
  BY DEF AskPools
<1>2. call' = [call EXCEPT ![p] = calls]
  BY DEF AskPools
<1>3. asks \in SUBSET Pools /\ (direct => asks = Pools)
  OBVIOUS
<1>4. first = IF "meteora" \in asks /\ ~direct THEN [active |-> 1, queue |-> <<>>, woken |-> 0] ELSE NewLimiter
  BY LimitsAssumption DEF Enter, Full, NewLimiter
<1>5. CASE direct \/ "raydium" \notin asks
  <2>1. entered = first /\ entered.queue = <<>>
    BY <1>4, <1>5 DEF NewLimiter
  <2>2. \A v \in Venues : calls[v] = IF v \in asks THEN "open" ELSE "done"
    BY <2>1
  <2>3. Agrees(Job(p).kind, "pools", calls, entered)
    <3>1. calls[Jupiter] = "done" /\ calls["meteora"] \in {"open", "done"} /\ calls["raydium"] \in {"open", "done"}
      <4>. HIDE DEF calls
      <4>1. Jupiter \notin asks
        BY <1>3, VenueNames
      <4>. HIDE DEF asks
      <4>. QED
        BY <2>2, <4>1, VenueNames
    <3>2. CASE direct
      <4>1. entered = NewLimiter
        BY <1>4, <2>1, <3>2
      <4>. HIDE DEF calls, entered, asks
      <4>. QED
        BY <3>1, <3>2, <4>1 DEF Agrees
    <3>3. CASE ~direct
      <4>1. calls["raydium"] = "done" /\ calls["meteora"] = IF "meteora" \in asks THEN "open" ELSE "done"
        BY <1>5, <2>2, <3>3, VenueNames
      <4>2. entered = PoolSlots(calls)
        <5>1. entered = IF "meteora" \in asks THEN [active |-> 1, queue |-> <<>>, woken |-> 0] ELSE NewLimiter
          BY <1>4, <2>1, <3>3
        <5>. HIDE DEF asks, calls, entered
        <5>. QED
          BY <4>1, <5>1 DEF PoolSlots, NewLimiter
      <4>. HIDE DEF calls, entered, asks
      <4>. QED
        BY <3>1, <3>3, <4>2, <4>1 DEF Agrees
    <3>. QED
      BY <3>2, <3>3
  <2>4. calls \in [Venues -> Marks]
    BY DEF Marks
  <2>. HIDE DEF calls, entered, asks
  <2>. QED
    BY <1>1, <1>2, <2>3, <2>4, Framed
<1>6. CASE ~direct /\ "raydium" \in asks /\ ~("meteora" \in asks /\ QuoteConcurrency = 1)
  <2>1. entered = [active |-> IF "meteora" \in asks THEN 2 ELSE 1, queue |-> <<>>, woken |-> 0]
    BY <1>4, <1>6, LimitsAssumption DEF Enter, Full, NewLimiter
  <2>2. \A v \in Venues : calls[v] = IF v \in asks THEN "open" ELSE "done"
    BY <2>1
  <2>3. Agrees(Job(p).kind, "pools", calls, entered)
    <3>1. "meteora" \in asks => QuoteConcurrency >= 2
      <4>. HIDE DEF asks
      <4>. QED
        BY <1>6, LimitsAssumption
    <3>2. /\ calls[Jupiter] = "done" /\ calls["raydium"] = "open"
          /\ calls["meteora"] = IF "meteora" \in asks THEN "open" ELSE "done"
      BY <1>3, <1>6, <2>2, VenueNames
    <3>. HIDE DEF calls, entered, asks
    <3>3. entered = PoolSlots(calls)
      BY <2>1, <3>2 DEF PoolSlots
    <3>. QED
      BY <1>6, <3>1, <3>2, <3>3 DEF Agrees
  <2>4. calls \in [Venues -> Marks]
    BY DEF Marks
  <2>. HIDE DEF calls, entered, asks
  <2>. QED
    BY <1>1, <1>2, <2>3, <2>4, Framed
<1>7. CASE ~direct /\ "raydium" \in asks /\ "meteora" \in asks /\ QuoteConcurrency = 1
  <2>1. entered = [active |-> 1, queue |-> <<"raydium">>, woken |-> 0]
    BY <1>4, <1>7 DEF Enter, Full
  <2>2. calls["meteora"] = "open" /\ calls["raydium"] = "queued" /\ calls["jupiter"] = "done"
    BY <1>3, <1>7, <2>1, VenueNames
  <2>3. Agrees(Job(p).kind, "pools", calls, entered)
    BY <1>7, <2>1, <2>2, VenueNames DEF Agrees, PoolSlots
  <2>4. calls \in [Venues -> Marks]
    BY DEF Marks
  <2>. HIDE DEF calls, entered, asks
  <2>. QED
    BY <1>1, <1>2, <2>3, <2>4, Framed
<1>. QED
  BY <1>5, <1>6, <1>7

LEMMA WalkKeepsCalls ==
  ASSUME NEW p \in Procs, Shape, Walk(p)
  PROVE  WalkFrame(p)
<1>. USE DEF request, observed
<1>1. Agrees(Job(p).kind, pc[p], call[p], slots[p])
  BY DEF Shape, CallsOK
<1>2. Types /\ call[p] \in [Venues -> Marks] /\ pc[p] \in Points
  BY DEF Shape, Types
<1>3. pc = [pc EXCEPT ![p] = pc[p]] /\ slots = [slots EXCEPT ![p] = slots[p]]
  BY DEF Shape, Types
<1>4. \A v \in Venues : call[p][v] # "done" => pc[p] = IF v = "jupiter" THEN "jupiter" ELSE "pools"
  BY <1>1, VenueNames DEF Agrees
<1>5. ASSUME Begin(p)
      PROVE  WalkFrame(p)
  <2>1. /\ pc[p] \in {"new", "next"} /\ pc' = [pc EXCEPT ![p] = "next"]
        /\ setup' = setup /\ rpc' = rpc /\ call' = call /\ slots' = slots
    BY <1>3, <1>5 DEF Begin
  <2>2. Agrees(Job(p).kind, "next", call[p], slots[p])
    BY <1>1, <2>1 DEF Agrees
  <2>. QED
    BY <1>2, <2>1, <2>2, FramedPoint
<1>6. ASSUME Answer(p)
      PROVE  WalkFrame(p)
  <2>1. /\ pc[p] \in {"new", "next"} /\ pc' = [pc EXCEPT ![p] = "answered"]
        /\ setup' = setup /\ rpc' = rpc /\ call' = call /\ slots' = slots
    BY <1>3, <1>6 DEF Answer, Fresh
  <2>2. Agrees(Job(p).kind, "answered", call[p], slots[p])
    BY <1>1, <2>1 DEF Agrees
  <2>. QED
    BY <1>2, <2>1, <2>2, FramedPoint
<1>7. ASSUME SkipIntent(p)
      PROVE  WalkFrame(p)
  <2>1. /\ pc[p] \in {"new", "next"} /\ pc' = [pc EXCEPT ![p] = "next"]
        /\ setup' = setup /\ rpc' = rpc /\ call' = call /\ slots' = slots
    BY <1>3, <1>7 DEF SkipIntent, AtIntent
  <2>2. Agrees(Job(p).kind, "next", call[p], slots[p])
    BY <1>1, <2>1 DEF Agrees
  <2>. QED
    BY <1>2, <2>1, <2>2, FramedPoint
<1>8. ASSUME AnswerFromCache(p)
      PROVE  WalkFrame(p)
  <2>1. /\ pc[p] \in {"new", "next"} /\ pc' = [pc EXCEPT ![p] = "next"]
        /\ setup' = setup /\ rpc' = rpc /\ call' = call /\ slots' = slots
    BY <1>3, <1>8 DEF AnswerFromCache, AtIntent
  <2>2. Agrees(Job(p).kind, "next", call[p], slots[p])
    BY <1>1, <2>1 DEF Agrees
  <2>. QED
    BY <1>2, <2>1, <2>2, FramedPoint
<1>9. ASSUME HashFromCache(p)
      PROVE  WalkFrame(p)
  <2>1. /\ pc[p] \in {"new", "next"} /\ pc' = [pc EXCEPT ![p] = "answered"]
        /\ setup' = setup /\ rpc' = rpc /\ call' = call /\ slots' = slots
    BY <1>3, <1>9 DEF HashFromCache
  <2>2. Agrees(Job(p).kind, "answered", call[p], slots[p])
    BY <1>1, <2>1 DEF Agrees
  <2>. QED
    BY <1>2, <2>1, <2>2, FramedPoint
<1>10. ASSUME Choose(p)
      PROVE  WalkFrame(p)
  <2>1. /\ pc[p] = "pools" /\ pc' = [pc EXCEPT ![p] = "next"] /\ \A v \in Pools : call[p][v] = "done"
        /\ setup' = setup /\ rpc' = rpc /\ call' = call /\ slots' = slots
    BY <1>10 DEF Choose, PoolsDone
  <2>2. Agrees(Job(p).kind, "next", call[p], slots[p])
    BY <1>1, <2>1, VenueNames DEF Agrees, PoolSlots, NewLimiter
  <2>. QED
    BY <1>2, <2>1, <2>2, FramedPoint
<1>11. ASSUME GiveUpIntent(p)
      PROVE  WalkFrame(p)
  <2>1. /\ pc[p] = "pools" /\ pc' = [pc EXCEPT ![p] = "next"] /\ \A v \in Pools : call[p][v] = "done"
        /\ setup' = setup /\ rpc' = rpc /\ call' = call /\ slots' = slots
    BY <1>11 DEF GiveUpIntent, PoolsDone
  <2>2. Agrees(Job(p).kind, "next", call[p], slots[p])
    BY <1>1, <2>1, VenueNames DEF Agrees, PoolSlots, NewLimiter
  <2>. QED
    BY <1>2, <2>1, <2>2, FramedPoint
<1>12. ASSUME AskJupiter(p)
      PROVE  WalkFrame(p)
  <2>. DEFINE calls == [call[p] EXCEPT !["jupiter"] = ToFetch]
              l == Enter(slots[p], QuoteConcurrency, "jupiter")
  <2>1. pc[p] = "next" /\ setup' = setup /\ rpc' = rpc
    BY <1>4, <1>12, VenueNames DEF AskJupiter, ToResolve, AtIntent
  <2>2. pc' = [pc EXCEPT ![p] = "jupiter"] /\ slots' = [slots EXCEPT ![p] = l]
    BY <1>3, <1>12, <2>1, VenueNames DEF AskJupiter, ToResolve, AtIntent
  <2>3. call' = [call EXCEPT ![p] = calls]
    BY <1>12, VenueNames DEF AskJupiter, ToResolve, AtIntent
  <2>4. calls \in [Venues -> Marks]
    BY <1>2 DEF ToFetch, Marks
  <2>5. Agrees(Job(p).kind, "jupiter", calls, l)
    BY <1>1, <1>2, <2>1, VenueNames, LimitsAssumption DEF Agrees, ToFetch, Enter, Full, NewLimiter
  <2>. QED
    BY <1>2, <2>1, <2>2, <2>3, <2>4, <2>5, Framed
<1>13. ASSUME AcquireHttpToken(p)
      PROVE  WalkFrame(p)
  <2>. DEFINE calls == [call[p] EXCEPT !["jupiter"] = "open"]
              l == slots[p]
  <2>1. pc[p] = "jupiter" /\ setup' = setup /\ rpc' = rpc
    BY <1>4, <1>13, VenueNames DEF AcquireHttpToken
  <2>2. pc' = [pc EXCEPT ![p] = "jupiter"] /\ slots' = [slots EXCEPT ![p] = l]
    BY <1>3, <1>13, <2>1, VenueNames DEF AcquireHttpToken
  <2>3. call' = [call EXCEPT ![p] = calls]
    BY <1>13, VenueNames DEF AcquireHttpToken
  <2>4. calls \in [Venues -> Marks]
    BY <1>2 DEF ToFetch, Marks
  <2>5. Agrees(Job(p).kind, "jupiter", calls, l)
    BY <1>1, <1>2, <2>1, VenueNames, LimitsAssumption DEF Agrees, ToFetch
  <2>. QED
    BY <1>2, <2>1, <2>2, <2>3, <2>4, <2>5, Framed
<1>14. ASSUME JupiterAnswers(p)
      PROVE  WalkFrame(p)
  <2>. DEFINE calls == [call[p] EXCEPT !["jupiter"] = "done"]
              l == Leave(slots[p])
  <2>1. pc[p] = "jupiter" /\ setup' = setup /\ rpc' = rpc
    BY <1>4, <1>14, VenueNames DEF JupiterAnswers
  <2>2. pc' = [pc EXCEPT ![p] = "next"] /\ slots' = [slots EXCEPT ![p] = l]
    BY <1>3, <1>14, <2>1, VenueNames DEF JupiterAnswers
  <2>3. call' = [call EXCEPT ![p] = calls]
    BY <1>14, VenueNames DEF JupiterAnswers
  <2>4. calls \in [Venues -> Marks]
    BY <1>2 DEF ToFetch, Marks
  <2>5. Agrees(Job(p).kind, "next", calls, l)
    BY <1>1, <1>2, <2>1, VenueNames, LimitsAssumption DEF Agrees, ToFetch, Leave, NewLimiter
  <2>. QED
    BY <1>2, <2>1, <2>2, <2>3, <2>4, <2>5, Framed
<1>15. ASSUME JupiterFallsBack(p)
      PROVE  WalkFrame(p)
  <2>. DEFINE calls == [call[p] EXCEPT !["jupiter"] = ToFetch]
              l == slots[p]
  <2>1. pc[p] = "jupiter" /\ setup' = setup /\ rpc' = rpc
    BY <1>4, <1>15, VenueNames DEF JupiterFallsBack
  <2>2. pc' = [pc EXCEPT ![p] = "jupiter"] /\ slots' = [slots EXCEPT ![p] = l]
    BY <1>3, <1>15, <2>1, VenueNames DEF JupiterFallsBack
  <2>3. call' = [call EXCEPT ![p] = calls]
    BY <1>15, VenueNames DEF JupiterFallsBack
  <2>4. calls \in [Venues -> Marks]
    BY <1>2 DEF ToFetch, Marks
  <2>5. Agrees(Job(p).kind, "jupiter", calls, l)
    BY <1>1, <1>2, <2>1, VenueNames, LimitsAssumption DEF Agrees, ToFetch
  <2>. QED
    BY <1>2, <2>1, <2>2, <2>3, <2>4, <2>5, Framed
<1>16. ASSUME NEW e, JupiterTriesAgain(p, e)
      PROVE  WalkFrame(p)
  <2>. DEFINE calls == [call[p] EXCEPT !["jupiter"] = ToFetch]
              l == slots[p]
  <2>1. pc[p] = "jupiter" /\ setup' = setup /\ rpc' = rpc
    BY <1>4, <1>16, VenueNames DEF JupiterTriesAgain
  <2>2. pc' = [pc EXCEPT ![p] = "jupiter"] /\ slots' = [slots EXCEPT ![p] = l]
    BY <1>3, <1>16, <2>1, VenueNames DEF JupiterTriesAgain
  <2>3. call' = [call EXCEPT ![p] = calls]
    BY <1>16, VenueNames DEF JupiterTriesAgain
  <2>4. calls \in [Venues -> Marks]
    BY <1>2 DEF ToFetch, Marks
  <2>5. Agrees(Job(p).kind, "jupiter", calls, l)
    BY <1>1, <1>2, <2>1, VenueNames, LimitsAssumption DEF Agrees, ToFetch
  <2>. QED
    BY <1>2, <2>1, <2>2, <2>3, <2>4, <2>5, Framed
<1>17. ASSUME PassOverJupiter(p)
      PROVE  WalkFrame(p)
  <2>1. pc[p] = "next" /\ setup' = setup /\ rpc' = rpc /\ AskPools(p, slots[p])
    BY <1>17 DEF PassOverJupiter, ToResolve, AtIntent
  <2>2. slots[p] = NewLimiter
    BY <1>1, <2>1 DEF Agrees
  <2>. QED
    BY <1>2, <2>1, <2>2, FramedAsk
<1>18. ASSUME NEW e, JupiterFails(p, e)
      PROVE  WalkFrame(p)
  <2>1. pc[p] = "jupiter" /\ setup' = setup /\ rpc' = rpc /\ AskPools(p, Leave(slots[p]))
    BY <1>4, <1>18, VenueNames DEF JupiterFails
  <2>2. Leave(slots[p]) = NewLimiter
    BY <1>1, <2>1 DEF Agrees, Leave, NewLimiter
  <2>. QED
    BY <1>2, <2>1, <2>2, FramedAsk
<1>19. ASSUME NEW v \in Venues, GoesOn(p, v)
      PROVE  WalkFrame(p)
  <2>. DEFINE calls == [call[p] EXCEPT !["raydium"] = "open"]
              l == Resume(slots[p])
  <2>1. v = "raydium" /\ pc[p] = "pools" /\ call[p][v] = "woken"
    BY <1>1, <1>4, <1>19, VenueNames DEF GoesOn, Agrees
  <2>2. /\ setup' = setup /\ rpc' = rpc /\ pc' = [pc EXCEPT ![p] = "pools"]
        /\ call' = [call EXCEPT ![p] = calls] /\ slots' = [slots EXCEPT ![p] = l]
    BY <1>3, <1>19, <2>1 DEF GoesOn
  <2>3. calls \in [Venues -> Marks]
    BY <1>2 DEF Marks
  <2>4. Agrees(Job(p).kind, "pools", calls, l)
    <3>1. Job(p).kind # "run_v0" /\ slots[p] = PoolSlots(call[p])
      BY <1>1, <2>1 DEF Agrees
    <3>2. l = PoolSlots(calls)
      <4>. DEFINE m == IF call[p]["meteora"] = "open" THEN 1 ELSE 0
      <4>1. slots[p] = [active |-> m, queue |-> <<>>, woken |-> 1] /\ m \in Int
        BY <2>1, <3>1 DEF PoolSlots
      <4>2. l = [active |-> m + 1, queue |-> <<>>, woken |-> 0]
        BY <4>1 DEF Resume
      <4>3. calls["raydium"] = "open" /\ calls["meteora"] = call[p]["meteora"]
        BY <1>2, VenueNames
      <4>. QED
        BY <4>2, <4>3 DEF PoolSlots
    <3>. QED
      BY <1>1, <1>2, <2>1, <3>1, <3>2, VenueNames DEF Agrees
  <2>. QED
    BY <1>2, <2>1, <2>2, <2>3, <2>4, Framed
<1>20. ASSUME NEW v \in Venues, PoolTriesAgain(p, v)
      PROVE  WalkFrame(p)
  <2>1. /\ pc[p] = "pools" /\ pc' = [pc EXCEPT ![p] = "pools"]
        /\ setup' = setup /\ rpc' = rpc /\ call' = call /\ slots' = slots
    BY <1>3, <1>4, <1>20, VenueNames DEF PoolTriesAgain
  <2>. QED
    BY <1>1, <1>2, <2>1, FramedPoint
<1>21. ASSUME NEW v, NEW o, NEW e, PoolEnds(p, v, o, e)
      PROVE  WalkFrame(p)
  <2>. DEFINE direct == Job(p).kind = "run_v0"
              woken == IF direct THEN {} ELSE WokenBy(slots[p])
              calls == [w \in Venues |-> IF w = v THEN "done" ELSE IF w \in woken THEN "woken" ELSE call[p][w]]
              l == IF direct THEN slots[p] ELSE Leave(slots[p])
  <2>1. v \in Pools /\ call[p][v] = "open" /\ setup' = setup /\ rpc' = rpc /\ pc' = pc
    BY <1>21 DEF PoolEnds
  <2>2. pc[p] = "pools" /\ pc' = [pc EXCEPT ![p] = "pools"]
    BY <1>3, <1>4, <2>1, VenueNames
  <2>3. call' = [call EXCEPT ![p] = calls] /\ slots' = [slots EXCEPT ![p] = l]
    BY <1>3, <1>21 DEF PoolEnds
  <2>4. calls \in [Venues -> Marks]
    BY <1>2 DEF Marks
  <2>5. ASSUME direct
        PROVE  Agrees(Job(p).kind, "pools", calls, l)
    BY <1>1, <2>1, <2>2, <2>5, VenueNames DEF Agrees
  <2>6. ASSUME ~direct, v = "meteora", call[p]["raydium"] = "queued"
        PROVE  Agrees(Job(p).kind, "pools", calls, l)
    <3>1. slots[p] = [active |-> 1, queue |-> <<"raydium">>, woken |-> 0]
      BY <1>1, <2>1, <2>2, <2>6 DEF Agrees, PoolSlots
    <3>2. woken = {"raydium"} /\ l = [active |-> 0, queue |-> <<>>, woken |-> 1]
      BY <2>6, <3>1 DEF Leave, WokenBy
    <3>. QED
      BY <1>1, <2>2, <2>6, <3>2, VenueNames DEF Agrees, PoolSlots
  <2>7. ASSUME ~direct, ~(v = "meteora" /\ call[p]["raydium"] = "queued")
        PROVE  Agrees(Job(p).kind, "pools", calls, l)
    <3>1. slots[p].queue = <<>> /\ slots[p].woken = IF call[p]["raydium"] = "woken" THEN 1 ELSE 0
      BY <1>1, <2>1, <2>2, <2>7, VenueNames DEF Agrees, PoolSlots
    <3>2. woken = {} /\ l = [slots[p] EXCEPT !.active = @ - 1]
      BY <2>7, <3>1 DEF Leave, WokenBy
    <3>. QED
      BY <1>1, <2>1, <2>2, <2>7, <3>1, <3>2, VenueNames DEF Agrees, PoolSlots
  <2>8. Agrees(Job(p).kind, "pools", calls, l)
    BY <2>5, <2>6, <2>7
  <2>. QED
    BY <1>2, <2>1, <2>2, <2>3, <2>4, <2>8, Framed
<1>. QED
  BY <1>5, <1>6, <1>7, <1>8, <1>9, <1>10, <1>11, <1>12, <1>13, <1>14, <1>15, <1>16, <1>17, <1>18, <1>19, <1>20, <1>21 DEF Walk, PoolAnswers, PoolFails

-----------------------------------------------------------------------------
(* The steps that are about the RPC.                                         *)

\* They move requests between points at which nothing is out.
LEMMA PhoneKeepsCalls ==
  ASSUME NEW p \in Procs, Shape, QueueOK, Phone(p)
  PROVE  /\ setup' = setup /\ call' = call /\ slots' = slots
         /\ nth' = nth /\ resolved' = resolved /\ resolveCache' = resolveCache
         /\ pc' \in [Procs -> Points]
         /\ \A q \in Procs : pc'[q] # pc[q] =>
              /\ pc[q] \in {"new", "queued", "woken", "rpc"}
              /\ pc'[q] \in {"queued", "woken", "rpc", "answered", "failed"}
<1>. USE DEF request, observed, Shape, Types, Points
<1>1. CASE AskRpc(p)
  BY <1>1 DEF AskRpc
<1>2. CASE RpcGoesOn(p)
  BY <1>2 DEF RpcGoesOn
<1>3. ASSUME NEW end \in {"answered", "failed"}, pc[p] = "rpc", RpcLeaves(p, end)
      PROVE  /\ pc' \in [Procs -> Points]
             /\ \A q \in Procs : pc'[q] # pc[q] =>
                  /\ pc[q] \in {"queued", "rpc"} /\ pc'[q] \in {"woken", "answered", "failed"}
  <2>1. \A q \in WokenBy(rpc) : pc[q] = "queued"
    BY DEF WokenBy, QueueOK
  <2>. QED
    BY <1>3, <2>1 DEF RpcLeaves
<1>4. CASE RpcAnswers(p)
  BY <1>3, <1>4 DEF RpcAnswers
<1>5. CASE RpcFails(p)
  BY <1>3, <1>5 DEF RpcFails
<1>. QED
  BY <1>1, <1>2, <1>4, <1>5 DEF Phone

-----------------------------------------------------------------------------
(* The walk through the intents.                                             *)

\* What a walking step may do to the answer, the cache and the place in the job.
WalkGoes(p) ==
  /\ pc'[p] \in {"next", "jupiter", "pools"} => Job(p).kind \in {"resolve_v0", "run_v0"}
  /\ pc'[p] \in {"jupiter", "pools"} => nth'[p] <= Len(Job(p).intents)
  /\ \/ UNCHANGED <<nth, resolved, resolveCache, made>>
     \/ nth' = [nth EXCEPT ![p] = @ + 1] /\ UNCHANGED <<resolved, resolveCache, made>>
     \/ AnswerFromCache(p)
     \/ /\ Job(p).kind \in {"resolve_v0", "run_v0"} /\ nth[p] <= Len(Job(p).intents)
        /\ \E v \in Venues : Resolve(p, v) /\ (v = Jupiter \/ (v = BestPool(offer[p], stats[p]) /\ ~NoOffer(p)))

LEMMA BestPoolIsAPool == \A os, ss : BestPool(os, ss) \in Venues
  BY VenueNames DEF BestPool

LEMMA WalkIsProgress ==
  ASSUME NEW p \in Procs, Shape, Walk(p)
  PROVE  WalkGoes(p)
<1>. USE DEF request, observed, WalkGoes
<1>1. \A v \in Venues : call[p][v] # "done" => pc[p] = IF v = "jupiter" THEN "jupiter" ELSE "pools"
  BY VenueNames DEF Shape, CallsOK, Agrees
<1>2. /\ pc[p] \in {"next", "jupiter", "pools"} => Job(p).kind \in {"resolve_v0", "run_v0"}
      /\ pc[p] \in {"jupiter", "pools"} => nth[p] <= Len(Job(p).intents)
  BY DEF Shape, AtWork
<1>3. pc \in [Procs -> Points]
  BY DEF Shape, Types
<1>. USE <1>3
<1>4. ASSUME Begin(p)
      PROVE  WalkGoes(p)
  BY <1>1, <1>2, <1>4, VenueNames DEF Begin
<1>5. ASSUME Answer(p)
      PROVE  WalkGoes(p)
  BY <1>1, <1>2, <1>5, VenueNames DEF Answer, Fresh
<1>6. ASSUME SkipIntent(p)
      PROVE  WalkGoes(p)
  BY <1>1, <1>2, <1>6, VenueNames DEF SkipIntent, AtIntent
<1>7. ASSUME AnswerFromCache(p)
      PROVE  WalkGoes(p)
  BY <1>1, <1>2, <1>7, VenueNames DEF AnswerFromCache, AtIntent
<1>8. ASSUME HashFromCache(p)
      PROVE  WalkGoes(p)
  BY <1>1, <1>2, <1>8, VenueNames DEF HashFromCache
<1>9. ASSUME Choose(p)
      PROVE  WalkGoes(p)
  BY <1>1, <1>2, <1>9, VenueNames, BestPoolIsAPool DEF Choose, PoolsDone
<1>10. ASSUME GiveUpIntent(p)
      PROVE  WalkGoes(p)
  BY <1>1, <1>2, <1>10, VenueNames DEF GiveUpIntent, PoolsDone
<1>11. ASSUME AskJupiter(p)
      PROVE  WalkGoes(p)
  BY <1>1, <1>2, <1>11, VenueNames DEF AskJupiter, ToResolve, AtIntent
<1>12. ASSUME PassOverJupiter(p)
      PROVE  WalkGoes(p)
  BY <1>1, <1>2, <1>12, VenueNames DEF PassOverJupiter, AskPools, ToResolve, AtIntent
<1>13. ASSUME AcquireHttpToken(p)
      PROVE  WalkGoes(p)
  BY <1>1, <1>2, <1>13, VenueNames DEF AcquireHttpToken
<1>14. ASSUME JupiterAnswers(p)
      PROVE  WalkGoes(p)
  BY <1>1, <1>2, <1>14, VenueNames DEF JupiterAnswers
<1>15. ASSUME JupiterFallsBack(p)
      PROVE  WalkGoes(p)
  BY <1>1, <1>2, <1>15, VenueNames DEF JupiterFallsBack
<1>16. ASSUME NEW e, JupiterTriesAgain(p, e)
      PROVE  WalkGoes(p)
  BY <1>1, <1>2, <1>16, VenueNames DEF JupiterTriesAgain
<1>17. ASSUME NEW e, JupiterFails(p, e)
      PROVE  WalkGoes(p)
  BY <1>1, <1>2, <1>17, VenueNames DEF JupiterFails, AskPools
<1>18. ASSUME NEW v \in Venues, GoesOn(p, v)
      PROVE  WalkGoes(p)
  BY <1>1, <1>2, <1>18, VenueNames DEF GoesOn
<1>19. ASSUME NEW v \in Venues, PoolTriesAgain(p, v)
      PROVE  WalkGoes(p)
  BY <1>1, <1>2, <1>19, VenueNames DEF PoolTriesAgain
<1>20. ASSUME NEW v, NEW o, NEW e, PoolEnds(p, v, o, e)
      PROVE  WalkGoes(p)
  BY <1>1, <1>2, <1>20, VenueNames DEF PoolEnds
<1>. QED
  BY <1>4, <1>5, <1>6, <1>7, <1>8, <1>9, <1>10, <1>11, <1>12, <1>13, <1>14, <1>15, <1>16, <1>17, <1>18, <1>19, <1>20 DEF Walk, PoolAnswers, PoolFails

-----------------------------------------------------------------------------
(* The limiter of the RPC.                                                   *)

Line == QueueOK /\ Busy(rpc, RpcConcurrency)

LEMMA WokenIsFinite == IsFiniteSet(Woken) /\ Cardinality(Woken) \in Nat
  BY SetupsAssumption, FS_Subset, FS_CardinalityType DEF Woken

LEMMA LineStarts == Init => Line
<1>. SUFFICES ASSUME Init PROVE Line
  OBVIOUS
<1>1. Woken = {} /\ rpc = [active |-> 0, queue |-> <<>>, woken |-> 0]
  BY DEF Init, Woken, NewLimiter
<1>. QED
  BY <1>1, FS_EmptySet DEF Line, QueueOK, Busy

\* Steps of requests that do not wait for the RPC leave the line as it is.
LEMMA LineUndisturbed ==
  ASSUME Line, rpc' = rpc,
         \A q \in Procs : pc'[q] # pc[q] => {pc[q], pc'[q]} \cap {"queued", "woken"} = {}
  PROVE  Line'
<1>1. Woken' = Woken
  BY DEF Woken
<1>2. \A i \in DOMAIN rpc.queue : rpc.queue[i] \in Procs
  BY DEF Line, QueueOK
<1>. QED
  BY <1>1, <1>2 DEF Line, QueueOK, Busy

LEMMA AskKeepsLine ==
  ASSUME NEW p \in Procs, Shape, Line, AskRpc(p)
  PROVE  Line'
<1>1. /\ pc \in [Procs -> Points] /\ pc[p] = "new" /\ rpc' = Enter(rpc, RpcConcurrency, p)
      /\ pc' = [pc EXCEPT ![p] = IF Full(rpc, RpcConcurrency) THEN "queued" ELSE "rpc"]
  BY DEF AskRpc, Shape, Types
<1>2. Woken' = Woken
  BY <1>1 DEF Woken
<1>3. /\ rpc \in [active : Int, queue : Seq(Procs), woken : Nat]
      /\ \A i \in DOMAIN rpc.queue : rpc.queue[i] # p
  BY <1>1 DEF Line, QueueOK
<1>4. CASE Full(rpc, RpcConcurrency)
  <2>1. rpc' = [active |-> rpc.active, queue |-> Append(rpc.queue, p), woken |-> rpc.woken]
    BY <1>1, <1>3, <1>4 DEF Enter
  <2>2. QueueOK'
    BY <1>1, <1>2, <1>3, <1>4, <2>1 DEF Line, QueueOK
  <2>. QED
    BY <1>3, <1>4, <2>1, <2>2, LimitsAssumption DEF Line, Busy, Full
<1>5. CASE ~Full(rpc, RpcConcurrency)
  <2>1. rpc' = [active |-> rpc.active + 1, queue |-> rpc.queue, woken |-> rpc.woken]
    BY <1>1, <1>3, <1>5 DEF Enter
  <2>2. QueueOK'
    BY <1>1, <1>2, <1>3, <1>5, <2>1 DEF Line, QueueOK
  <2>. QED
    BY <1>3, <2>1, <2>2, LimitsAssumption DEF Line, Busy
<1>. QED
  BY <1>4, <1>5

LEMMA GoesOnKeepsLine ==
  ASSUME NEW p \in Procs, Shape, Line, RpcGoesOn(p)
  PROVE  Line'
<1>1. /\ pc \in [Procs -> Points] /\ pc[p] = "woken" /\ pc' = [pc EXCEPT ![p] = "rpc"]
      /\ rpc' = [active |-> rpc.active + 1, queue |-> rpc.queue, woken |-> rpc.woken - 1]
  BY DEF RpcGoesOn, Resume, Shape, Types
<1>2. Woken' = Woken \ {p} /\ p \in Woken
  BY <1>1 DEF Woken
<1>3. Cardinality(Woken') = Cardinality(Woken) - 1 /\ Cardinality(Woken') \in Nat
  BY <1>2, WokenIsFinite, FS_RemoveElement, FS_CardinalityType
<1>4. rpc \in [active : Int, queue : Seq(Procs), woken : Nat] /\ rpc.woken = Cardinality(Woken)
  BY DEF Line, QueueOK
<1>5. QueueOK'
  BY <1>1, <1>3, <1>4 DEF Line, QueueOK
<1>. QED
  BY <1>1, <1>4, <1>5, LimitsAssumption DEF Line, Busy

LEMMA LeaveKeepsLine ==
  ASSUME NEW p \in Procs, Shape, Line, NEW end \in {"answered", "failed"}, pc[p] = "rpc", RpcLeaves(p, end)
  PROVE  Line'
<1>1. /\ rpc' = Leave(rpc)
      /\ pc' = [q \in Procs |-> IF q = p THEN end ELSE IF q \in WokenBy(rpc) THEN "woken" ELSE pc[q]]
  BY DEF RpcLeaves
<1>2. rpc \in [active : Int, queue : Seq(Procs), woken : Nat] /\ rpc.woken = Cardinality(Woken)
  BY DEF Line, QueueOK
<1>3. CASE rpc.queue = <<>>
  <2>1. rpc' = [active |-> rpc.active - 1, queue |-> <<>>, woken |-> rpc.woken]
    BY <1>1, <1>2, <1>3 DEF Leave
  <2>2. Woken' = Woken
    BY <1>1, <1>3 DEF Woken, WokenBy
  <2>3. QueueOK'
    BY <1>2, <2>1, <2>2 DEF QueueOK
  <2>. QED
    BY <2>1, <2>3 DEF Line, Busy
<1>4. CASE rpc.queue # <<>>
  <2>. DEFINE h == Head(rpc.queue)
  <2>1. /\ rpc' = [active |-> rpc.active - 1, queue |-> Tail(rpc.queue), woken |-> rpc.woken + 1]
        /\ pc' = [q \in Procs |-> IF q = p THEN end ELSE IF q = h THEN "woken" ELSE pc[q]]
    BY <1>1, <1>4 DEF Leave, WokenBy
  <2>2. h \in Procs /\ pc[h] = "queued" /\ 1 \in DOMAIN rpc.queue /\ h = rpc.queue[1]
    BY <1>2, <1>4 DEF Line, QueueOK
  <2>3. Woken' = Woken \cup {h} /\ h \notin Woken
    BY <2>1, <2>2 DEF Woken
  <2>4. Cardinality(Woken') = Cardinality(Woken) + 1
    BY <2>3, WokenIsFinite, FS_AddElement
  <2>5. /\ Tail(rpc.queue) \in Seq(Procs)
        /\ \A i \in DOMAIN Tail(rpc.queue) : i + 1 \in DOMAIN rpc.queue /\ Tail(rpc.queue)[i] = rpc.queue[i + 1]
    BY <1>2, <1>4
  <2>6. \A i \in DOMAIN Tail(rpc.queue) : pc'[rpc'.queue[i]] = "queued"
    <3>. SUFFICES ASSUME NEW i \in DOMAIN Tail(rpc.queue) PROVE pc'[rpc'.queue[i]] = "queued"
      OBVIOUS
    <3>1. i + 1 # 1 /\ rpc'.queue[i] = rpc.queue[i + 1] /\ i + 1 \in DOMAIN rpc.queue
      BY <1>2, <2>1, <2>5
    <3>2. rpc.queue[i + 1] \in Procs /\ pc[rpc.queue[i + 1]] = "queued" /\ rpc.queue[i + 1] # h
      BY <1>2, <2>2, <3>1 DEF Line, QueueOK
    <3>. QED
      BY <2>1, <3>1, <3>2
  <2>7. \A i, j \in DOMAIN Tail(rpc.queue) : Tail(rpc.queue)[i] = Tail(rpc.queue)[j] => i = j
    <3>. SUFFICES ASSUME NEW i \in DOMAIN Tail(rpc.queue), NEW j \in DOMAIN Tail(rpc.queue),
                         Tail(rpc.queue)[i] = Tail(rpc.queue)[j]
                  PROVE  i = j
      OBVIOUS
    <3>1. i + 1 = j + 1
      BY <2>5 DEF Line, QueueOK
    <3>2. i \in Int /\ j \in Int
      BY <2>5
    <3>. QED
      BY <3>1, <3>2
  <2>8. QueueOK'
    BY <1>2, <2>1, <2>4, <2>5, <2>6, <2>7 DEF QueueOK
  <2>9. rpc.active + rpc.woken >= RpcConcurrency
    BY <1>4 DEF Line, Busy
  <2>. QED
    BY <1>2, <2>1, <2>8, <2>9, LimitsAssumption DEF Line, Busy
<1>. QED
  BY <1>3, <1>4

LEMMA PhoneKeepsLine ==
  ASSUME NEW p \in Procs, Shape, Line, Phone(p)
  PROVE  Line'
  BY AskKeepsLine, GoesOnKeepsLine, LeaveKeepsLine DEF Phone, RpcAnswers, RpcFails

-----------------------------------------------------------------------------
(* What is resolved and what is cached.                                      *)

Record == CacheOK /\ CountOK /\ AnswersTheIntent

LEMMA IntentsOfJobs ==
  ASSUME NEW p \in Procs, Types, Job(p).kind \in {"resolve_v0", "run_v0"}, nth[p] <= Len(Job(p).intents)
  PROVE  /\ nth[p] \in DOMAIN Job(p).intents
         /\ IntentOf(p) \in Intents /\ CacheKey(IntentOf(p)) \in Keys
<1>1. nth[p] \in DOMAIN Job(p).intents
  BY SetupsAssumption DEF Types, Job
<1>2. IntentOf(p) \in Intents
  <2>. DEFINE Of(s, q) == {s.work[q].intents[i] : i \in DOMAIN s.work[q].intents}
              Among(s) == UNION {Of(s, q) : q \in {r \in Procs : s.work[r].kind \in {"resolve_v0", "run_v0"}}}
  <2>1. IntentOf(p) \in Of(setup, p)
    BY <1>1 DEF IntentOf, Job
  <2>2. p \in {r \in Procs : setup.work[r].kind \in {"resolve_v0", "run_v0"}}
    BY DEF Job
  <2>3. setup \in Setups
    BY DEF Types
  <2>4. Intents = UNION {Among(s) : s \in Setups}
    BY DEF Intents
  <2>. HIDE DEF Of
  <2>5. IntentOf(p) \in Among(setup)
    BY <2>1, <2>2
  <2>. HIDE DEF Among
  <2>. QED
    BY <2>3, <2>4, <2>5
<1>. QED
  BY <1>1, <1>2 DEF Keys

\* The request gains an action that carries the id and the swap of its intent.
LEMMA Gained ==
  ASSUME NEW p \in Procs, Types, CountOK, AnswersTheIntent,
         setup' = setup, nth[p] \in DOMAIN Job(p).intents,
         NEW act \in Offered, act.id = IntentOf(p).id, act.swap = Swap(IntentOf(p)),
         ~act.cached => act.dependsOn = IntentOf(p).dependsOn,
         resolved' = [resolved EXCEPT ![p] = Append(@, act)], nth' = [nth EXCEPT ![p] = @ + 1]
  PROVE  /\ nth' \in [Procs -> Nat \ {0}] /\ resolved' \in [Procs -> Seq(Offered)]
         /\ CountOK' /\ AnswersTheIntent'
<1>1. /\ nth \in [Procs -> Nat \ {0}] /\ resolved \in [Procs -> Seq(Offered)]
  BY DEF Types
<1>2. nth' \in [Procs -> Nat \ {0}] /\ resolved' \in [Procs -> Seq(Offered)]
  BY <1>1
<1>3. \A q \in Procs \ {p} : nth'[q] = nth[q] /\ resolved'[q] = resolved[q]
  BY <1>1
<1>4. nth'[p] = nth[p] + 1 /\ resolved'[p] = Append(resolved[p], act)
  BY <1>1
<1>5. Len(resolved[p]) < nth[p] /\ Len(resolved[p]) \in Nat /\ nth[p] \in Nat
  BY <1>1 DEF CountOK
<1>6. CountOK'
  BY <1>1, <1>3, <1>4, <1>5 DEF CountOK
<1>7. \A q \in Procs : Job(q)' = Job(q)
  BY DEF Job
<1>8. AnswersTheIntent'
  <2>. SUFFICES ASSUME NEW q \in Procs
                PROVE  \E at \in [DOMAIN resolved'[q] -> 1 .. nth'[q] - 1] :
                         CarryOut(resolved'[q], at, Job(q).intents)
    BY <1>7 DEF AnswersTheIntent
  <2>1. PICK at \in [DOMAIN resolved[q] -> 1 .. nth[q] - 1] :
          CarryOut(resolved[q], at, Job(q).intents)
    BY DEF AnswersTheIntent
  <2>2. CASE q # p
    BY <1>3, <2>1, <2>2
  <2>3. CASE q = p
    <3>. DEFINE longer == [i \in DOMAIN resolved'[q] |-> IF i \in DOMAIN resolved[q] THEN at[i] ELSE nth[q]]
    <3>1. /\ DOMAIN resolved[q] = 1 .. Len(resolved[q])
          /\ DOMAIN resolved'[q] = 1 .. Len(resolved[q]) + 1
          /\ \A i \in 1 .. Len(resolved[q]) : resolved'[q][i] = resolved[q][i]
          /\ resolved'[q][Len(resolved[q]) + 1] = act
      BY <1>1, <1>4, <2>3
    <3>2. longer \in [DOMAIN resolved'[q] -> 1 .. nth'[q] - 1]
      BY <1>4, <1>5, <2>1, <2>3, <3>1
    <3>3. /\ \A i \in 1 .. Len(resolved[q]) : longer[i] = at[i]
          /\ longer[Len(resolved[q]) + 1] = nth[q]
      BY <1>5, <2>3, <3>1
    <3>. HIDE DEF longer
    <3>4. ASSUME NEW i \in DOMAIN resolved'[q], NEW j \in DOMAIN resolved'[q], i < j
          PROVE  longer[i] < longer[j]
      <4>1. i \in 1 .. Len(resolved[q]) /\ longer[i] = at[i] /\ at[i] \in 1 .. nth[q] - 1
        BY <1>5, <2>1, <2>3, <3>1, <3>3, <3>4
      <4>2. CASE j = Len(resolved[q]) + 1
        BY <1>5, <2>3, <3>3, <4>1, <4>2
      <4>3. CASE j # Len(resolved[q]) + 1
        <5>1. j \in 1 .. Len(resolved[q]) /\ longer[j] = at[j]
          BY <1>5, <2>3, <3>1, <3>3, <4>3
        <5>. QED
          BY <2>1, <3>1, <3>4, <4>1, <5>1 DEF CarryOut
      <4>. QED
        BY <4>2, <4>3
    <3>5. ASSUME NEW i \in DOMAIN resolved'[q]
          PROVE  /\ longer[i] \in DOMAIN Job(q).intents
                 /\ CarriesOut(resolved'[q][i], Job(q).intents[longer[i]])
      <4>1. CASE i = Len(resolved[q]) + 1
        <5>1. resolved'[q][i] = act /\ longer[i] = nth[q]
          BY <3>1, <3>3, <4>1
        <5>. QED
          BY <2>3, <5>1 DEF CarriesOut, IntentOf
      <4>2. CASE i # Len(resolved[q]) + 1
        <5>1. i \in 1 .. Len(resolved[q]) /\ longer[i] = at[i] /\ resolved'[q][i] = resolved[q][i]
          BY <1>5, <2>3, <3>1, <3>3, <4>2
        <5>. QED
          BY <2>1, <3>1, <5>1 DEF CarryOut
      <4>. QED
        BY <4>1, <4>2
    <3>. QED
      BY <3>2, <3>4, <3>5 DEF CarryOut
  <2>. QED
    BY <2>2, <2>3
<1>. QED
  BY <1>2, <1>6, <1>8

\* The request leaves an intent behind, or stays at it.
LEMMA NothingGained ==
  ASSUME Types, CountOK, AnswersTheIntent, setup' = setup, resolved' = resolved,
         nth' \in [Procs -> Nat \ {0}], \A q \in Procs : nth'[q] >= nth[q]
  PROVE  CountOK' /\ AnswersTheIntent'
<1>1. \A q \in Procs : nth[q] \in Nat /\ nth'[q] \in Nat /\ Len(resolved[q]) \in Nat
  BY DEF Types
<1>2. CountOK'
  BY <1>1 DEF CountOK
<1>3. \A q \in Procs : 1 .. nth[q] - 1 \subseteq 1 .. nth'[q] - 1
  BY <1>1
<1>4. \A q \in Procs : Job(q)' = Job(q)
  BY DEF Job
<1>5. AnswersTheIntent'
  <2>. SUFFICES ASSUME NEW q \in Procs
                PROVE  \E at \in [DOMAIN resolved[q] -> 1 .. nth'[q] - 1] :
                         CarryOut(resolved[q], at, Job(q).intents)
    BY <1>4 DEF AnswersTheIntent
  <2>1. PICK at \in [DOMAIN resolved[q] -> 1 .. nth[q] - 1] :
          CarryOut(resolved[q], at, Job(q).intents)
    BY DEF AnswersTheIntent
  <2>2. at \in [DOMAIN resolved[q] -> 1 .. nth'[q] - 1]
    BY <1>3, <2>1
  <2>. QED
    BY <2>1, <2>2
<1>. QED
  BY <1>2, <1>5

LEMMA Offering ==
  ASSUME NEW i \in Intents, NEW j \in Intents, NEW v \in Venues, NEW b \in BOOLEAN
  PROVE  [id |-> i.id, dependsOn |-> j.dependsOn, swap |-> Swap(j), adapter |-> v, cached |-> b] \in Offered
  BY DEF Offered

LEMMA ResolveKeepsRecord ==
  ASSUME NEW p \in Procs, Types, Record, setup' = setup,
         Job(p).kind \in {"resolve_v0", "run_v0"}, nth[p] <= Len(Job(p).intents),
         NEW v \in Venues, Resolve(p, v)
  PROVE  Record' /\ nth' \in [Procs -> Nat \ {0}] /\ resolved' \in [Procs -> Seq(Offered)]
         /\ resolveCache' \in [Keys -> {None} \cup [age : Nat, act : Offered]]
<1>. DEFINE it == IntentOf(p)
            act == Action(it, v, FALSE)
<1>1. nth[p] \in DOMAIN Job(p).intents /\ it \in Intents /\ CacheKey(it) \in Keys
  BY IntentsOfJobs
<1>2. act \in Offered /\ act.id = it.id /\ act.swap = Swap(it) /\ act.dependsOn = it.dependsOn
  <2>1. act = [id |-> it.id, dependsOn |-> it.dependsOn, swap |-> Swap(it), adapter |-> v, cached |-> FALSE]
    BY DEF Action
  <2>2. it \in Intents /\ FALSE \in BOOLEAN
    BY <1>1
  <2>. HIDE DEF act, it
  <2>3. act \in Offered
    BY <2>1, <2>2, Offering
  <2>. QED
    BY <2>1, <2>3
<1>3. /\ resolved' = [resolved EXCEPT ![p] = Append(@, act)]
      /\ nth' = [nth EXCEPT ![p] = @ + 1]
      /\ \/ resolveCache' = resolveCache
         \/ resolveCache' = [resolveCache EXCEPT ![CacheKey(it)] = [age |-> 0, act |-> act]]
  BY DEF Resolve
<1>4. /\ nth' \in [Procs -> Nat \ {0}] /\ resolved' \in [Procs -> Seq(Offered)]
      /\ CountOK' /\ AnswersTheIntent'
  <2>. HIDE DEF act
  <2>. QED
    BY <1>1, <1>2, <1>3, Gained DEF Record
<1>5. CacheKey(it)[3] = it.pair /\ CacheKey(it)[4] = it.slippage /\ Swap(it) = <<it.pair, it.slippage>>
  BY DEF CacheKey, Swap
<1>6. resolveCache \in [Keys -> {None} \cup [age : Nat, act : Offered]] /\ CacheOK
  BY DEF Types, Record
<1>7. resolveCache' \in [Keys -> {None} \cup [age : Nat, act : Offered]] /\ CacheOK'
  <2>. HIDE DEF act, it
  <2>. QED
    BY <1>1, <1>2, <1>3, <1>5, <1>6 DEF CacheOK
<1>. QED
  BY <1>4, <1>7 DEF Record

LEMMA CacheKeepsRecord ==
  ASSUME NEW p \in Procs, Types, AtWork, Record, setup' = setup, AnswerFromCache(p)
  PROVE  Record' /\ nth' \in [Procs -> Nat \ {0}] /\ resolved' \in [Procs -> Seq(Offered)]
         /\ resolveCache' = resolveCache
<1>. DEFINE it == IntentOf(p)
            hit == resolveCache[CacheKey(it)].act
            act == HandedOut(hit, it.id)
<1>1. /\ pc[p] = "next" /\ nth[p] <= Len(Job(p).intents) /\ Hit(p)
      /\ resolved' = [resolved EXCEPT ![p] = Append(@, HandedOut(Cached(p).act, it.id))]
      /\ nth' = [nth EXCEPT ![p] = @ + 1] /\ resolveCache' = resolveCache
  BY DEF AnswerFromCache, AtIntent, request, observed
<1>2. nth[p] \in DOMAIN Job(p).intents /\ it \in Intents /\ CacheKey(it) \in Keys
  BY <1>1, IntentsOfJobs DEF AtWork
<1>3. Cached(p) = resolveCache[CacheKey(it)] /\ Cached(p) # None
  BY <1>1 DEF Hit, Cached
<1>4. hit \in Offered /\ hit.swap = Swap(it)
  <2>1. resolveCache[CacheKey(it)] \in [age : Nat, act : Offered]
    BY <1>2, <1>3 DEF Types
  <2>2. hit.swap = <<CacheKey(it)[3], CacheKey(it)[4]>>
    BY <1>2, <1>3 DEF Record, CacheOK
  <2>. QED
    BY <2>1, <2>2 DEF CacheKey, Swap
<1>5. PICK i \in Intents, j \in Intents, v \in Venues, b \in BOOLEAN :
        hit = [id |-> i.id, dependsOn |-> j.dependsOn, swap |-> Swap(j), adapter |-> v, cached |-> b]
  BY <1>4 DEF Offered
<1>6. act = [id |-> it.id, dependsOn |-> j.dependsOn, swap |-> Swap(j), adapter |-> v, cached |-> TRUE]
  BY <1>5 DEF HandedOut
<1>7. act \in Offered /\ act.id = it.id /\ act.swap = Swap(it) /\ act.cached
  <2>1. Swap(j) = Swap(it)
    BY <1>4, <1>5
  <2>2. it \in Intents /\ TRUE \in BOOLEAN
    BY <1>2
  <2>. HIDE DEF act, it
  <2>3. act \in Offered
    <3>1. act = [id |-> it.id, dependsOn |-> j.dependsOn, swap |-> Swap(j), adapter |-> v, cached |-> TRUE]
      BY <1>6
    <3>. QED
      BY <2>2, <3>1, Offering
  <2>. QED
    BY <1>6, <2>1, <2>3
<1>8. resolved' = [resolved EXCEPT ![p] = Append(@, act)]
  BY <1>1, <1>3
<1>9. /\ nth' \in [Procs -> Nat \ {0}] /\ resolved' \in [Procs -> Seq(Offered)]
      /\ CountOK' /\ AnswersTheIntent'
  <2>. HIDE DEF act
  <2>. QED
    BY <1>1, <1>2, <1>7, <1>8, Gained DEF Record
<1>. QED
  BY <1>1, <1>9 DEF Record, CacheOK

-----------------------------------------------------------------------------
(* The invariant is inductive.                                               *)

Inv == Shape /\ Line /\ Record

LEMMA InvStarts == Init => Inv
<1>. SUFFICES ASSUME Init PROVE Inv
  OBVIOUS
<1>1. CacheOK /\ CountOK
  BY DEF Init, CacheOK, CountOK
<1>2. AnswersTheIntent
  <2>. SUFFICES ASSUME NEW p \in Procs
                PROVE  \E at \in [DOMAIN resolved[p] -> 1 .. nth[p] - 1] :
                         CarryOut(resolved[p], at, Job(p).intents)
    BY DEF AnswersTheIntent
  <2>. DEFINE none == [i \in DOMAIN resolved[p] |-> 1]
  <2>1. DOMAIN resolved[p] = {}
    BY DEF Init
  <2>2. none \in [DOMAIN resolved[p] -> 1 .. nth[p] - 1]
    BY <2>1
  <2>3. CarryOut(resolved[p], none, Job(p).intents)
    BY <2>1 DEF CarryOut
  <2>. QED
    BY <2>2, <2>3
<1>3. Record
  BY <1>1, <1>2 DEF Record
<1>. QED
  BY <1>3, ShapeStarts, LineStarts DEF Inv

LEMMA WalkKeepsInv ==
  ASSUME NEW p \in Procs, Inv, Walk(p)
  PROVE  Inv'
<1>1. WalkFrame(p) /\ WalkGoes(p)
  BY WalkKeepsCalls, WalkIsProgress DEF Inv
<1>2. setup' = setup /\ \A q \in Procs : Job(q)' = Job(q)
  BY <1>1 DEF WalkFrame, Job
<1>3. Line'
  BY <1>1, LineUndisturbed DEF Inv, WalkFrame
<1>4. CallsOK'
  BY <1>1, <1>2 DEF Inv, Shape, CallsOK, WalkFrame
<1>5. /\ Record' /\ nth' \in [Procs -> Nat \ {0}] /\ resolved' \in [Procs -> Seq(Offered)]
      /\ resolveCache' \in [Keys -> {None} \cup [age : Nat, act : Offered]]
      /\ \A q \in Procs \ {p} : nth'[q] = nth[q]
  <2>1. nth \in [Procs -> Nat \ {0}] /\ resolved \in [Procs -> Seq(Offered)]
        /\ resolveCache \in [Keys -> {None} \cup [age : Nat, act : Offered]]
    BY DEF Inv, Shape, Types
  <2>2. CASE UNCHANGED <<nth, resolved, resolveCache>>
    <3>1. CountOK' /\ AnswersTheIntent'
      BY <1>2, <2>1, <2>2, NothingGained DEF Inv, Shape, Record
    <3>. QED
      BY <2>1, <2>2, <3>1 DEF Inv, Record, CacheOK
  <2>3. CASE nth' = [nth EXCEPT ![p] = @ + 1] /\ UNCHANGED <<resolved, resolveCache>>
    <3>1. nth' \in [Procs -> Nat \ {0}] /\ \A q \in Procs : nth'[q] >= nth[q]
      BY <2>1, <2>3
    <3>2. CountOK' /\ AnswersTheIntent'
      BY <1>2, <2>3, <3>1, NothingGained DEF Inv, Shape, Record
    <3>. QED
      BY <2>1, <2>3, <3>1, <3>2 DEF Inv, Record, CacheOK
  <2>4. CASE AnswerFromCache(p)
    <3>1. nth' = [nth EXCEPT ![p] = @ + 1]
      BY <2>4 DEF AnswerFromCache
    <3>. QED
      BY <1>2, <2>1, <2>4, <3>1, CacheKeepsRecord DEF Inv, Shape
  <2>5. ASSUME Job(p).kind \in {"resolve_v0", "run_v0"}, nth[p] <= Len(Job(p).intents),
               NEW v \in Venues, Resolve(p, v)
        PROVE  /\ Record' /\ nth' \in [Procs -> Nat \ {0}] /\ resolved' \in [Procs -> Seq(Offered)]
               /\ resolveCache' \in [Keys -> {None} \cup [age : Nat, act : Offered]]
               /\ \A q \in Procs \ {p} : nth'[q] = nth[q]
    <3>1. nth' = [nth EXCEPT ![p] = @ + 1]
      BY <2>5 DEF Resolve
    <3>. QED
      BY <1>2, <2>1, <2>5, <3>1, ResolveKeepsRecord DEF Inv, Shape
  <2>. QED
    BY <1>1, <2>2, <2>3, <2>4, <2>5 DEF WalkGoes
<1>6. Types'
  BY <1>1, <1>2, <1>5 DEF Inv, Shape, Types, WalkFrame
<1>7. AtWork'
  <2>1. \A q \in Procs \ {p} : pc'[q] = pc[q] /\ nth'[q] = nth[q] /\ Job(q)' = Job(q)
    BY <1>1, <1>2, <1>5 DEF WalkFrame
  <2>2. /\ pc'[p] \in {"next", "jupiter", "pools"} => Job(p)'.kind \in {"resolve_v0", "run_v0"}
        /\ pc'[p] \in {"jupiter", "pools"} => nth'[p] <= Len(Job(p)'.intents)
    BY <1>1, <1>2 DEF WalkGoes
  <2>. QED
    BY <2>1, <2>2 DEF Inv, Shape, AtWork
<1>. QED
  BY <1>3, <1>4, <1>5, <1>6, <1>7 DEF Inv, Shape

LEMMA PhoneKeepsInv ==
  ASSUME NEW p \in Procs, Inv, Phone(p)
  PROVE  Inv'
<1>1. /\ setup' = setup /\ call' = call /\ slots' = slots
      /\ nth' = nth /\ resolved' = resolved /\ resolveCache' = resolveCache
      /\ pc' \in [Procs -> Points]
      /\ \A q \in Procs : pc'[q] # pc[q] =>
           /\ pc[q] \in {"new", "queued", "woken", "rpc"}
           /\ pc'[q] \in {"queued", "woken", "rpc", "answered", "failed"}
  BY PhoneKeepsCalls DEF Inv, Line
<1>2. \A q \in Procs : Job(q)' = Job(q)
  BY <1>1 DEF Job
<1>3. Line'
  BY PhoneKeepsLine DEF Inv
<1>4. Types'
  BY <1>1 DEF Inv, Shape, Types
<1>5. CallsOK'
  <2>. SUFFICES ASSUME NEW q \in Procs
                PROVE  Agrees(Job(q).kind, pc'[q], call[q], slots[q])
    BY <1>1, <1>2 DEF CallsOK
  <2>1. Agrees(Job(q).kind, pc[q], call[q], slots[q])
    BY DEF Inv, Shape, CallsOK
  <2>2. CASE pc'[q] = pc[q]
    BY <2>1, <2>2
  <2>3. CASE pc'[q] # pc[q]
    BY <1>1, <2>1, <2>3 DEF Agrees
  <2>. QED
    BY <2>2, <2>3
<1>6. AtWork'
  BY <1>1, <1>2 DEF Inv, Shape, AtWork
<1>7. Record'
  <2>1. nth \in [Procs -> Nat \ {0}]
    BY DEF Inv, Shape, Types
  <2>2. CountOK' /\ AnswersTheIntent'
    BY <1>1, <2>1, NothingGained DEF Inv, Shape, Record
  <2>. QED
    BY <1>1, <2>2 DEF Inv, Record, CacheOK
<1>. QED
  BY <1>3, <1>4, <1>5, <1>6, <1>7 DEF Inv, Shape

LEMMA TickKeepsInv == Inv /\ Tick => Inv'
<1>. SUFFICES ASSUME Inv, Tick PROVE Inv'
  OBVIOUS
<1>1. /\ setup' = setup /\ pc' = pc /\ call' = call /\ rpc' = rpc
      /\ nth' = nth /\ slots' = slots /\ resolved' = resolved
      /\ resolveCache' = [k \in Keys |-> IF resolveCache[k] = None THEN None
                                        ELSE [resolveCache[k] EXCEPT !.age = AtMost(@ + 1, Ttl)]]
  BY DEF Tick, request
<1>2. \A q \in Procs : Job(q)' = Job(q)
  BY <1>1 DEF Job
<1>3. resolveCache \in [Keys -> {None} \cup [age : Nat, act : Offered]]
  BY DEF Inv, Shape, Types
<1>4. ASSUME NEW k \in Keys, resolveCache[k] # None
      PROVE  /\ resolveCache'[k] \in [age : Nat, act : Offered]
             /\ resolveCache'[k].act = resolveCache[k].act
  <2>1. resolveCache[k] \in [age : Nat, act : Offered]
    BY <1>3, <1>4
  <2>2. AtMost(resolveCache[k].age + 1, Ttl) \in Nat
    BY <2>1, LimitsAssumption DEF AtMost
  <2>3. resolveCache'[k] = [resolveCache[k] EXCEPT !.age = AtMost(@ + 1, Ttl)]
    BY <1>1, <1>4
  <2>. QED
    BY <2>1, <2>2, <2>3
<1>5. \A k \in Keys : resolveCache[k] = None => resolveCache'[k] = None
  BY <1>1
<1>6. resolveCache' \in [Keys -> {None} \cup [age : Nat, act : Offered]]
  BY <1>1, <1>4, <1>5
<1>7. CacheOK'
  BY <1>4, <1>5 DEF Inv, Record, CacheOK
<1>8. Record'
  <2>1. nth \in [Procs -> Nat \ {0}]
    BY DEF Inv, Shape, Types
  <2>2. CountOK' /\ AnswersTheIntent'
    BY <1>1, <2>1, NothingGained DEF Inv, Shape, Record
  <2>. QED
    BY <1>7, <2>2 DEF Record
<1>9. Line'
  BY <1>1, LineUndisturbed DEF Inv
<1>. QED
  BY <1>1, <1>2, <1>6, <1>8, <1>9 DEF Inv, Shape, Types, CallsOK, AtWork

LEMMA StutterKeepsInv == Inv /\ UNCHANGED vars => Inv'
<1>. SUFFICES ASSUME Inv, UNCHANGED vars PROVE Inv'
  OBVIOUS
<1>1. UNCHANGED <<setup, pc, call, slots, nth, resolved, resolveCache, rpc>>
  BY DEF vars, request
<1>2. \A q \in Procs : Job(q)' = Job(q)
  BY <1>1 DEF Job
<1>3. AnswersTheIntent'
  BY <1>1, <1>2 DEF Inv, Record, AnswersTheIntent
<1>4. Line'
  BY <1>1, LineUndisturbed DEF Inv
<1>. QED
  BY <1>1, <1>2, <1>3, <1>4 DEF Inv, Shape, Types, CallsOK, AtWork, Record, CacheOK, CountOK

LEMMA InvAlways == Spec => []Inv
<1>1. Inv /\ [Next]_vars => Inv'
  BY WalkKeepsInv, PhoneKeepsInv, TickKeepsInv, StutterKeepsInv, WalkOrPhone DEF Next
<1>. QED
  BY <1>1, InvStarts, PTL DEF Spec

\* Nobody queues for the RPC while it has a slot to give, however many requests
\* call it and however their calls end: createLimiter wakes a caller for every slot.
THEOREM LineTheorem == Spec => []NobodyQueuesForNothing
<1>1. Inv => NobodyQueuesForNothing
  BY DEF Inv, Line, NobodyQueuesForNothing
<1>. QED
  BY <1>1, InvAlways, PTL

\* Whatever a request resolves, freshly or from the cache another request filled,
\* is the swap its own intents asked for, in their order.
THEOREM AnswersTheorem == Spec => []AnswersTheIntent
<1>1. Inv => AnswersTheIntent
  BY DEF Inv, Record
<1>. QED
  BY <1>1, InvAlways, PTL

-----------------------------------------------------------------------------
(* What the cache and the pools give.                                        *)

\* Nothing in the cache is older than it says: a request made it no longer ago.
Dated ==
  /\ made \in [Swaps -> [Venues -> Nat]]
  /\ \A k \in Keys : resolveCache[k] # None =>
       made[resolveCache[k].act.swap][resolveCache[k].act.adapter] <= resolveCache[k].age

LEMMA OfferedPlaces == \A act \in Offered : act.swap \in Swaps /\ act.adapter \in Venues
  BY DEF Offered, Swaps

LEMMA CachePlaces ==
  ASSUME Inv, NEW k \in Keys, resolveCache[k] # None
  PROVE  /\ resolveCache[k] \in [age : Nat, act : Offered]
         /\ resolveCache[k].act.swap \in Swaps /\ resolveCache[k].act.adapter \in Venues
  BY OfferedPlaces DEF Inv, Shape, Types

LEMMA DatedStarts == Init => Dated
  BY LimitsAssumption DEF Init, Dated

LEMMA ResolveKeepsDated ==
  ASSUME NEW p \in Procs, Inv, Dated, Job(p).kind \in {"resolve_v0", "run_v0"}, nth[p] <= Len(Job(p).intents),
         NEW v \in Venues, Resolve(p, v)
  PROVE  Dated'
<1>. DEFINE it == IntentOf(p)
            act == Action(it, v, FALSE)
            key == CacheKey(it)
<1>1. it \in Intents /\ key \in Keys /\ Swap(it) \in Swaps
  BY IntentsOfJobs DEF Inv, Shape, Swaps
<1>2. act.swap = Swap(it) /\ act.adapter = v
  BY DEF Action
<1>3. \/ resolveCache' = resolveCache /\ made' = made
      \/ /\ resolveCache' = [resolveCache EXCEPT ![key] = [age |-> 0, act |-> act]]
         /\ made' = [made EXCEPT ![Swap(it)][v] = 0]
  BY DEF Resolve
<1>4. resolveCache \in [Keys -> {None} \cup [age : Nat, act : Offered]]
  BY DEF Inv, Shape, Types
<1>. HIDE DEF it, act, key
<1>5. CASE resolveCache' = resolveCache /\ made' = made
  BY <1>5 DEF Dated
<1>6. CASE /\ resolveCache' = [resolveCache EXCEPT ![key] = [age |-> 0, act |-> act]]
           /\ made' = [made EXCEPT ![Swap(it)][v] = 0]
  <2>1. /\ made' \in [Swaps -> [Venues -> Nat]] /\ made'[Swap(it)][v] = 0
        /\ \A s \in Swaps, w \in Venues : made'[s][w] <= made[s][w]
    BY <1>1, <1>6 DEF Dated
  <2>2. ASSUME NEW k \in Keys, resolveCache'[k] # None
        PROVE  made'[resolveCache'[k].act.swap][resolveCache'[k].act.adapter] <= resolveCache'[k].age
    <3>1. CASE k = key
      BY <1>1, <1>2, <1>4, <1>6, <2>1, <3>1
    <3>2. CASE k # key
      <4>1. resolveCache'[k] = resolveCache[k]
        BY <1>4, <1>6, <3>2
      <4>. DEFINE s == resolveCache[k].act.swap
                  w == resolveCache[k].act.adapter
      <4>2. s \in Swaps /\ w \in Venues /\ resolveCache[k].age \in Nat
        BY <2>2, <4>1, CachePlaces
      <4>3. made[s][w] <= resolveCache[k].age
        BY <2>2, <4>1 DEF Dated
      <4>4. made'[s][w] <= made[s][w] /\ made[s][w] \in Nat /\ made'[s][w] \in Nat
        BY <2>1, <4>2 DEF Dated
      <4>. HIDE DEF s, w
      <4>5. made'[s][w] <= resolveCache[k].age
        BY <4>2, <4>3, <4>4
      <4>. QED
        BY <4>1, <4>5 DEF s, w
    <3>. QED
      BY <3>1, <3>2
  <2>. QED
    BY <2>1, <2>2 DEF Dated
<1>. QED
  BY <1>3, <1>5, <1>6

LEMMA TickKeepsDated ==
  ASSUME Inv, Dated, Tick PROVE Dated'
<1>1. /\ resolveCache' = [k \in Keys |-> IF resolveCache[k] = None THEN None
                                         ELSE [resolveCache[k] EXCEPT !.age = AtMost(@ + 1, Ttl)]]
      /\ made' = [s \in Swaps |-> [v \in Venues |-> AtMost(made[s][v] + 1, Ttl)]]
  BY DEF Tick
<1>2. \A m, n \in Nat : AtMost(m, Ttl) \in Nat /\ (m <= n => AtMost(m, Ttl) <= AtMost(n, Ttl))
  BY LimitsAssumption DEF AtMost
<1>3. made' \in [Swaps -> [Venues -> Nat]]
  <2>1. \A s \in Swaps, v \in Venues : made[s][v] + 1 \in Nat
    BY DEF Dated
  <2>. QED
    BY <1>1, <1>2, <2>1
<1>4. ASSUME NEW k \in Keys, resolveCache'[k] # None
      PROVE  made'[resolveCache'[k].act.swap][resolveCache'[k].act.adapter] <= resolveCache'[k].age
  <2>. DEFINE s == resolveCache[k].act.swap
              w == resolveCache[k].act.adapter
  <2>1. resolveCache[k] # None
    BY <1>1, <1>4
  <2>2. s \in Swaps /\ w \in Venues /\ resolveCache[k] \in [age : Nat, act : Offered]
    BY <2>1, CachePlaces
  <2>3. /\ resolveCache'[k].act = resolveCache[k].act
        /\ resolveCache'[k].age = AtMost(resolveCache[k].age + 1, Ttl)
    BY <1>1, <2>1, <2>2
  <2>4. made[s][w] <= resolveCache[k].age
    BY <2>1 DEF Dated
  <2>. HIDE DEF s, w
  <2>5. made'[s][w] = AtMost(made[s][w] + 1, Ttl)
    BY <1>1, <2>2
  <2>6. made[s][w] \in Nat /\ resolveCache[k].age \in Nat
    BY <2>2 DEF Dated
  <2>7. AtMost(made[s][w] + 1, Ttl) <= AtMost(resolveCache[k].age + 1, Ttl)
    <3>1. made[s][w] + 1 \in Nat /\ resolveCache[k].age + 1 \in Nat /\ made[s][w] + 1 <= resolveCache[k].age + 1
      BY <2>4, <2>6
    <3>. QED
      BY <1>2, <3>1
  <2>. QED
    BY <2>3, <2>5, <2>7 DEF s, w
<1>. QED
  BY <1>3, <1>4 DEF Dated

LEMMA DatedStays == Inv /\ Dated /\ [Next]_vars => Dated'
<1>. SUFFICES ASSUME Inv, Dated, [Next]_vars PROVE Dated'
  OBVIOUS
<1>1. CASE UNCHANGED <<resolveCache, made>>
  BY <1>1 DEF Dated
<1>2. ASSUME NEW p \in Procs, Phone(p) PROVE Dated'
  BY <1>1, <1>2 DEF Phone, AskRpc, RpcGoesOn, RpcAnswers, RpcFails, observed
<1>3. ASSUME NEW p \in Procs, Walk(p) PROVE Dated'
  <2>1. WalkGoes(p)
    BY <1>3, WalkIsProgress DEF Inv
  <2>2. ASSUME AnswerFromCache(p) PROVE UNCHANGED <<resolveCache, made>>
    BY <2>2 DEF AnswerFromCache, observed
  <2>. QED
    BY <1>1, <2>1, <2>2, ResolveKeepsDated DEF WalkGoes
<1>. QED
  BY <1>1, <1>2, <1>3, TickKeepsDated, WalkOrPhone DEF Next, vars, observed

\* An action is gained from the cache, from Jupiter, or from the better pool.
LEMMA HowTaken ==
  ASSUME Inv, [Next]_vars, NEW p \in Procs, Took(p)
  PROVE  \/ AnswerFromCache(p) /\ Taken(p) = HandedOut(Cached(p).act, IntentOf(p).id)
         \/ \E v \in Venues :
              /\ Taken(p) = Action(IntentOf(p), v, FALSE)
              /\ v = Jupiter \/ (v = BestPool(offer[p], stats[p]) /\ ~NoOffer(p))
<1>1. resolved \in [Procs -> Seq(Offered)]
  BY DEF Inv, Shape, Types
<1>2. resolved'[p] # resolved[p]
  BY <1>1 DEF Took
<1>3. \A act : Len(Append(resolved[p], act)) = Len(resolved[p]) + 1
               /\ Append(resolved[p], act)[Len(resolved[p]) + 1] = act
  BY <1>1
<1>4. ~Tick /\ ~UNCHANGED vars /\ \A q \in Procs : ~Phone(q)
  BY <1>2 DEF Tick, vars, request, Phone, AskRpc, RpcGoesOn, RpcAnswers, RpcFails
<1>5. PICK q \in Procs : WalkGoes(q)
  BY <1>4, WalkOrPhone, WalkIsProgress DEF Next, Inv
<1>6. CASE AnswerFromCache(q)
  <2>1. resolved' = [resolved EXCEPT ![q] = Append(@, HandedOut(Cached(q).act, IntentOf(q).id))]
    BY <1>6 DEF AnswerFromCache
  <2>2. q = p
    BY <1>1, <1>2, <2>1
  <2>. QED
    BY <1>1, <1>3, <1>6, <2>1, <2>2 DEF Taken
<1>7. CASE \E v \in Venues : Resolve(q, v) /\ (v = Jupiter \/ (v = BestPool(offer[q], stats[q]) /\ ~NoOffer(q)))
  <2>1. PICK v \in Venues : Resolve(q, v) /\ (v = Jupiter \/ (v = BestPool(offer[q], stats[q]) /\ ~NoOffer(q)))
    BY <1>7
  <2>2. resolved' = [resolved EXCEPT ![q] = Append(@, Action(IntentOf(q), v, FALSE))]
    BY <2>1 DEF Resolve
  <2>3. q = p
    BY <1>1, <1>2, <2>2
  <2>. QED
    BY <1>1, <1>3, <2>1, <2>2, <2>3 DEF Taken
<1>. QED
  BY <1>2, <1>5, <1>6, <1>7 DEF WalkGoes

\* What comes from the cache was resolved by some request less than the time to live ago,
\* however many requests fill the cache and read it.
THEOREM RecentTheorem == Spec => CacheIsRecent
<1>1. ASSUME Inv, Dated, [Next]_vars, NEW p \in Procs, Took(p), Taken(p).cached
      PROVE  made[Taken(p).swap][Taken(p).adapter] < Ttl
  <2>1. \A it, v : ~Action(it, v, FALSE).cached
    BY DEF Action
  <2>2. AnswerFromCache(p) /\ Taken(p) = HandedOut(Cached(p).act, IntentOf(p).id)
    BY <1>1, <2>1, HowTaken
  <2>. DEFINE k == CacheKey(IntentOf(p))
  <2>3. /\ Cached(p) = resolveCache[k] /\ resolveCache[k] # None /\ resolveCache[k].age < Ttl
        /\ pc[p] = "next" /\ nth[p] <= Len(Job(p).intents)
    BY <2>2 DEF AnswerFromCache, Hit, Cached, AtIntent
  <2>4. k \in Keys
    BY <1>1, <2>3, IntentsOfJobs DEF Inv, Shape, AtWork
  <2>5. Taken(p).swap = resolveCache[k].act.swap /\ Taken(p).adapter = resolveCache[k].act.adapter
    BY <2>2, <2>3 DEF HandedOut
  <2>6. made[resolveCache[k].act.swap][resolveCache[k].act.adapter] <= resolveCache[k].age
    BY <1>1, <2>3, <2>4 DEF Dated
  <2>7. /\ resolveCache[k].age \in Nat /\ made[resolveCache[k].act.swap][resolveCache[k].act.adapter] \in Nat
    BY <1>1, <2>3, <2>4, CachePlaces DEF Dated
  <2>. QED
    BY <2>3, <2>5, <2>6, <2>7, LimitsAssumption
<1>2. Inv /\ Dated /\ [Next]_vars =>
        [\A p \in Procs : Took(p) /\ Taken(p).cached => made[Taken(p).swap][Taken(p).adapter] < Ttl]_vars
  BY <1>1
<1>3. Spec => []Dated
  BY InvAlways, DatedStarts, DatedStays, PTL DEF Spec
<1>. QED
  BY <1>2, <1>3, InvAlways, PTL DEF Spec, CacheIsRecent

-----------------------------------------------------------------------------
(* The choice of a pool.                                                     *)

\* Offers are amounts, and what is remembered of a venue is a sequence of events.
Comparable ==
  /\ stats \in [Procs -> [Venues -> Seq(EventKinds)]]
  /\ DOMAIN offer = Procs /\ \A p \in Procs : DOMAIN offer[p] = Pools
  /\ \A p \in Procs, v \in Pools : offer[p][v] # None => EffectiveOut(offer[p][v]) \in Nat

LEMMA ComparableStarts == Init => Comparable
<1>. SUFFICES ASSUME Init PROVE Comparable
  OBVIOUS
<1>1. stats \in [Procs -> [Venues -> Seq(EventKinds)]]
  BY DEF Init
<1>2. offer = [p \in Procs |-> [v \in Pools |-> None]]
  BY DEF Init
<1>3. DOMAIN offer = Procs /\ \A p \in Procs : offer[p] = [v \in Pools |-> None]
  BY <1>2
<1>4. \A p \in Procs : DOMAIN offer[p] = Pools /\ \A v \in Pools : offer[p][v] = None
  BY <1>3
<1>. QED
  BY <1>1, <1>3, <1>4 DEF Comparable

LEMMA Remembers ==
  ASSUME NEW events \in Seq(EventKinds), NEW kind \in EventKinds
  PROVE  Remember(events, kind) \in Seq(EventKinds)
<1>1. Append(events, kind) \in Seq(EventKinds) /\ Append(events, kind) # <<>>
  <2>1. \A S : \A s \in Seq(S), e \in S : Append(s, e) \in Seq(S) /\ Len(Append(s, e)) = Len(s) + 1 /\ Len(s) \in Nat
    OBVIOUS
  <2>2. Append(events, kind) \in Seq(EventKinds) /\ Len(Append(events, kind)) # 0
    BY <2>1
  <2>. DEFINE s == Append(events, kind)
  <2>3. s = <<>> => Len(s) = 0
    <3>. HIDE DEF s
    <3>. QED
      OBVIOUS
  <2>. QED
    BY <2>2, <2>3
<1>2. Tail(Append(events, kind)) \in Seq(EventKinds)
  BY <1>1
<1>. QED
  BY <1>1, <1>2 DEF Remember

LEMMA EventKeepsComparable ==
  ASSUME Comparable, NEW p \in Procs, NEW v \in Venues, NEW kind \in EventKinds, RecordAdapterEvent(p, v, kind)
  PROVE  stats' \in [Procs -> [Venues -> Seq(EventKinds)]]
<1>1. stats[p][v] \in Seq(EventKinds)
  BY DEF Comparable
<1>2. Remember(stats[p][v], kind) \in Seq(EventKinds)
  BY <1>1, Remembers
<1>3. stats' = [stats EXCEPT ![p][v] = Remember(@, kind)]
  BY DEF RecordAdapterEvent
<1>. QED
  BY <1>2, <1>3 DEF Comparable

LEMMA ForgetKeepsComparable ==
  ASSUME Comparable, NEW p \in Procs, Forget(p), stats' \in [Procs -> [Venues -> Seq(EventKinds)]]
  PROVE  Comparable'
<1>1. offer' = [offer EXCEPT ![p] = [v \in Pools |-> None]]
  BY DEF Forget
<1>. QED
  BY <1>1 DEF Comparable

LEMMA OfferKeepsComparable ==
  ASSUME Comparable, NEW p \in Procs, NEW v \in Pools, NEW q, q # None => EffectiveOut(q) \in Nat,
         offer' = [offer EXCEPT ![p][v] = q], stats' \in [Procs -> [Venues -> Seq(EventKinds)]]
  PROVE  Comparable'
  BY DEF Comparable

LEMMA WalkKeepsComparable ==
  ASSUME Inv, Comparable, NEW p \in Procs, Walk(p) PROVE Comparable'
<1>. USE VenueNames
<1>1. CASE UNCHANGED <<offer, stats>>
  BY <1>1 DEF Comparable
<1>2. \A answer : EventOf(answer) \in EventKinds
  BY DEF EventOf, EventKinds
<1>3. "ok" \in EventKinds
  BY DEF EventKinds
<1>4. CASE Begin(p) \/ SkipIntent(p) \/ AnswerFromCache(p) \/ AskJupiter(p) \/ AcquireHttpToken(p)
           \/ JupiterFallsBack(p) \/ HashFromCache(p)
  BY <1>1, <1>4 DEF Begin, SkipIntent, AnswerFromCache, AskJupiter, AcquireHttpToken, JupiterFallsBack,
                    HashFromCache, request
<1>5. CASE Answer(p)
  <2>1. stats' = [stats EXCEPT ![p] = [v \in Venues |-> <<>>]] /\ offer' = offer
    BY <1>5 DEF Answer, Fresh
  <2>2. [v \in Venues |-> <<>>] \in [Venues -> Seq(EventKinds)]
    OBVIOUS
  <2>. QED
    BY <2>1, <2>2 DEF Comparable
<1>6. CASE PassOverJupiter(p)
  BY <1>6, ForgetKeepsComparable DEF PassOverJupiter, AskPools, Comparable
<1>7. CASE JupiterAnswers(p)
  BY <1>3, <1>7, ForgetKeepsComparable, EventKeepsComparable DEF JupiterAnswers
<1>8. ASSUME NEW e, JupiterTriesAgain(p, e) PROVE Comparable'
  BY <1>1, <1>8 DEF JupiterTriesAgain, request
<1>9. ASSUME NEW e, JupiterFails(p, e) PROVE Comparable'
  BY <1>2, <1>9, ForgetKeepsComparable, EventKeepsComparable DEF JupiterFails, AskPools
<1>10. ASSUME NEW v, GoesOn(p, v) \/ PoolTriesAgain(p, v) PROVE Comparable'
  BY <1>1, <1>10 DEF GoesOn, PoolTriesAgain, request
<1>11. ASSUME NEW v, NEW q, q # None => EffectiveOut(q) \in Nat, NEW e \in EventKinds, PoolEnds(p, v, q, e)
       PROVE  Comparable'
  BY <1>11, EventKeepsComparable, OfferKeepsComparable DEF PoolEnds
<1>12. ASSUME NEW v, PoolAnswers(p, v) PROVE Comparable'
  <2>1. PICK q \in setup.offers[v] : v \in Pools /\ PoolEnds(p, v, q, "ok")
    BY <1>12 DEF PoolAnswers
  <2>2. EffectiveOut(q) \in Nat
    BY <2>1, SetupsAssumption DEF Inv, Shape, Types
  <2>. QED
    BY <1>3, <1>11, <2>1, <2>2
<1>13. ASSUME NEW v, NEW e, PoolFails(p, v, e) PROVE Comparable'
  BY <1>2, <1>11, <1>13 DEF PoolFails
<1>14. CASE Choose(p) \/ GiveUpIntent(p)
  BY <1>14, ForgetKeepsComparable DEF Choose, GiveUpIntent, Comparable
<1>. QED
  BY <1>4, <1>5, <1>6, <1>7, <1>8, <1>9, <1>10, <1>12, <1>13, <1>14 DEF Walk

LEMMA ComparableStays == Inv /\ Comparable /\ [Next]_vars => Comparable'
<1>. SUFFICES ASSUME Inv, Comparable, [Next]_vars PROVE Comparable'
  OBVIOUS
<1>1. CASE UNCHANGED <<offer, stats>>
  BY <1>1 DEF Comparable
<1>. QED
  BY <1>1, WalkKeepsComparable, WalkOrPhone
     DEF Next, vars, request, Tick, Phone, AskRpc, RpcGoesOn, RpcAnswers, RpcFails

\* A venue never loses more than 200 basis points.
LEMMA PenaltyBounds ==
  ASSUME NEW events \in Seq(EventKinds) PROVE PenaltyBps(events) \in 0 .. 200
<1>1. CASE events = <<>>
  BY <1>1 DEF PenaltyBps
<1>2. CASE events # <<>>
  <2>. DEFINE n == Len(events)
              bad == Count(events, {"fail"}) + 2 * Count(events, {"429", "timeout"})
              bps == (2 * 200 * bad + n) \div (2 * n)
  <2>1. n \in Nat /\ n > 0
    BY <1>2
  <2>2. \A kinds : Count(events, kinds) \in Nat
    <3>. SUFFICES ASSUME NEW kinds PROVE Count(events, kinds) \in Nat
      OBVIOUS
    <3>1. IsFiniteSet(1 .. Len(events)) /\ DOMAIN events = 1 .. Len(events)
      BY <2>1, FS_Interval
    <3>2. IsFiniteSet({i \in DOMAIN events : events[i] \in kinds})
      BY <3>1, FS_Subset
    <3>. QED
      BY <3>2, FS_CardinalityType DEF Count
  <2>3. bad \in Nat
    BY <2>2
  <2>. HIDE DEF n, bad
  <2>4. bps \in Nat
    <3>1. 2 * 200 * bad + n \in Nat /\ 2 * n \in Nat /\ 2 * n > 0
      BY <2>1, <2>3
    <3>. DEFINE a == 2 * 200 * bad + n
                b == 2 * n
    <3>. HIDE DEF a, b
    <3>2. a \in Nat /\ b \in Nat /\ b > 0 => a \div b \in Nat
      OBVIOUS
    <3>. QED
      BY <3>1, <3>2 DEF a, b
  <2>. HIDE DEF bps
  <2>5. PenaltyBps(events) = IF bps > 200 THEN 200 ELSE bps
    BY <1>2 DEF PenaltyBps, bps, bad, n
  <2>. QED
    BY <2>4, <2>5
<1>. QED
  BY <1>1, <1>2

\* Two base units more, at no greater a penalty, are a better score.
LEMMA MoreIsBetter ==
  ASSUME NEW more \in Nat, NEW less \in Nat, more > less + 1,
         NEW bm \in 0 .. 200, NEW bl \in 0 .. 200, bm <= bl
  PROVE  ApplyPenalty(more, bm) > ApplyPenalty(less, bl)
<1>. DEFINE x == more * (10000 - bm)
            y == less * (10000 - bl)
<1>1. x \in Nat /\ y \in Nat
  OBVIOUS
<1>2. x >= more * (10000 - bl)
  OBVIOUS
<1>3. more * (10000 - bl) >= (less + 2) * (10000 - bl)
  OBVIOUS
<1>4. (less + 2) * (10000 - bl) = y + 2 * (10000 - bl)
  OBVIOUS
<1>5. more * (10000 - bl) \in Nat /\ (less + 2) * (10000 - bl) \in Nat
  OBVIOUS
<1>6. x >= y + 10000
  <2>1. 2 * (10000 - bl) >= 10000
    OBVIOUS
  <2>. HIDE DEF x, y
  <2>. QED
    BY <1>1, <1>2, <1>3, <1>4, <1>5, <2>1
<1>. HIDE DEF x, y
<1>7. x \div 10000 > y \div 10000
  BY <1>1, <1>6
<1>. QED
  BY <1>7 DEF ApplyPenalty, x, y

\* Of two pools the chosen one scores no less than the other.
LEMMA BestScores ==
  ASSUME Comparable, NEW p \in Procs, ~NoOffer(p), NEW w \in Pools, offer[p][w] # None
  PROVE  LET v == BestPool(offer[p], stats[p])
         IN  /\ v \in Pools /\ offer[p][v] # None
             /\ w # v => Score(offer[p][v], stats[p][v]) >= Score(offer[p][w], stats[p][w])
<1>. DEFINE score(v) == Score(offer[p][v], stats[p][v])
<1>1. \A v \in Pools : offer[p][v] # None => score(v) \in Int
  <2>. SUFFICES ASSUME NEW v \in Pools, offer[p][v] # None PROVE score(v) \in Int
    OBVIOUS
  <2>1. EffectiveOut(offer[p][v]) \in Nat /\ stats[p][v] \in Seq(EventKinds)
    BY DEF Comparable, Venues
  <2>2. PenaltyBps(stats[p][v]) \in 0 .. 200
    BY <2>1, PenaltyBounds
  <2>3. \A a \in Nat, b \in 0 .. 200 : (a * (10000 - b)) \div 10000 \in Int
    OBVIOUS
  <2>4. (EffectiveOut(offer[p][v]) * (10000 - PenaltyBps(stats[p][v]))) \div 10000 \in Int
    <3>. DEFINE a == EffectiveOut(offer[p][v])
                b == PenaltyBps(stats[p][v])
    <3>1. a \in Nat /\ b \in 0 .. 200
      BY <2>1, <2>2
    <3>. HIDE DEF a, b
    <3>2. (a * (10000 - b)) \div 10000 \in Int
      BY <2>3, <3>1
    <3>. QED
      BY <3>2 DEF a, b
  <2>. QED
    BY <2>4 DEF Score, ApplyPenalty
<1>2. BestPool(offer[p], stats[p]) =
        IF offer[p]["raydium"] = None THEN "meteora"
        ELSE IF offer[p]["meteora"] = None THEN "raydium"
        ELSE IF score("raydium") > score("meteora") THEN "raydium" ELSE "meteora"
  BY DEF BestPool
<1>. HIDE DEF score
<1>3. \E v \in Pools : offer[p][v] # None
  BY DEF NoOffer
<1>4. LET v == BestPool(offer[p], stats[p])
      IN  v \in Pools /\ offer[p][v] # None /\ (w # v => score(v) >= score(w))
  BY <1>1, <1>2, <1>3, VenueNames
<1>. QED
  BY <1>4 DEF score

\* Whatever the venues offer, an offer that promises two base units more than the one taken
\* lost to a penalty for what its venue failed at lately.
THEOREM OfferTheorem == Spec => NoBetterOfferLost
<1>1. ASSUME Inv, Comparable, [Next]_vars, NEW p \in Procs, Took(p), Taken(p).adapter \in Pools, ~Taken(p).cached,
             NEW w \in Pools, offer[p][w] # None,
             EffectiveOut(offer[p][w]) > EffectiveOut(offer[p][Taken(p).adapter]) + 1
      PROVE  PenaltyBps(stats[p][w]) > PenaltyBps(stats[p][Taken(p).adapter])
  <2>. DEFINE v == BestPool(offer[p], stats[p])
  <2>1. /\ \A act, id : HandedOut(act, id).cached
        /\ \A it, u : Action(it, u, FALSE).adapter = u
        /\ Jupiter \notin Pools
    BY VenueNames DEF HandedOut, Action
  <2>2. Taken(p).adapter = v /\ ~NoOffer(p)
    <3>1. \/ AnswerFromCache(p) /\ Taken(p) = HandedOut(Cached(p).act, IntentOf(p).id)
          \/ \E u \in Venues :
               /\ Taken(p) = Action(IntentOf(p), u, FALSE)
               /\ u = Jupiter \/ (u = BestPool(offer[p], stats[p]) /\ ~NoOffer(p))
      BY <1>1, HowTaken
    <3>2. Taken(p) # HandedOut(Cached(p).act, IntentOf(p).id)
      BY <1>1, <2>1
    <3>3. PICK u \in Venues :
            /\ Taken(p) = Action(IntentOf(p), u, FALSE)
            /\ u = Jupiter \/ (u = BestPool(offer[p], stats[p]) /\ ~NoOffer(p))
      BY <3>1, <3>2
    <3>4. Taken(p).adapter = u
      BY <2>1, <3>3
    <3>. QED
      BY <1>1, <2>1, <3>3, <3>4
  <2>3. v \in Pools /\ offer[p][v] # None
        /\ (w # v => Score(offer[p][v], stats[p][v]) >= Score(offer[p][w], stats[p][w]))
    BY <1>1, <2>2, BestScores
  <2>. HIDE DEF v
  <2>4. \A u \in Pools : offer[p][u] # None =>
          EffectiveOut(offer[p][u]) \in Nat /\ PenaltyBps(stats[p][u]) \in 0 .. 200
    <3>. SUFFICES ASSUME NEW u \in Pools, offer[p][u] # None
                  PROVE  EffectiveOut(offer[p][u]) \in Nat /\ PenaltyBps(stats[p][u]) \in 0 .. 200
      OBVIOUS
    <3>1. stats[p][u] \in Seq(EventKinds)
      BY <1>1 DEF Comparable, Venues
    <3>. QED
      BY <1>1, <3>1, PenaltyBounds DEF Comparable
  <2>5. w # v
    BY <1>1, <2>2, <2>3, <2>4
  <2>6. SUFFICES ASSUME PenaltyBps(stats[p][w]) <= PenaltyBps(stats[p][v]) PROVE FALSE
    <3>1. PenaltyBps(stats[p][w]) \in Int /\ PenaltyBps(stats[p][v]) \in Int
      BY <1>1, <2>3, <2>4
    <3>. QED
      BY <1>1, <2>2, <3>1
  <2>7. Score(offer[p][w], stats[p][w]) > Score(offer[p][v], stats[p][v])
    BY <1>1, <2>2, <2>3, <2>4, <2>6, MoreIsBetter DEF Score
  <2>8. /\ Score(offer[p][w], stats[p][w]) \in Int /\ Score(offer[p][v], stats[p][v]) \in Int
    BY <1>1, <2>3, <2>4 DEF Score, ApplyPenalty
  <2>. QED
    BY <2>3, <2>5, <2>7, <2>8
<1>2. Inv /\ Comparable /\ [Next]_vars =>
        [\A p \in Procs : Took(p) /\ Taken(p).adapter \in Pools /\ ~Taken(p).cached =>
           LET v == Taken(p).adapter
           IN  \A w \in Pools :
                 offer[p][w] # None /\ EffectiveOut(offer[p][w]) > EffectiveOut(offer[p][v]) + 1
                   => PenaltyBps(stats[p][w]) > PenaltyBps(stats[p][v])]_vars
  BY <1>1
<1>3. Spec => []Comparable
  BY InvAlways, ComparableStarts, ComparableStays, PTL DEF Spec
<1>. QED
  BY <1>2, <1>3, InvAlways, PTL DEF Spec, NoBetterOfferLost

-----------------------------------------------------------------------------
(* What a request spares upstream.                                           *)

\* The ideal bucket is never lower than the request's own, but for a remainder of less than a
\* token; a venue that refused the request is calm for as long as its back-off has run.
Paces ==
  Paced => \A p \in Procs :
    LET own == tokens[p] * setup.period + idle[p]
        top == HttpBurst * setup.period
    IN  /\ level[p] \in Int /\ tokens[p] \in 0 .. HttpBurst /\ idle[p] \in Nat
        /\ level[p] + setup.period - 1 >= own \/ level[p] >= top
Cools ==
  /\ calm \in [Procs -> [Venues -> Nat]] /\ backoff \in [Procs -> [Venues -> Nat]]
  /\ \A p \in Procs, v \in Venues : calm[p][v] + backoff[p][v] >= Cooldown
Spares == Paces /\ Cools /\ DOMAIN level = Procs /\ DOMAIN tokens = Procs /\ DOMAIN idle = Procs

LEMMA PeriodIsNat == Inv => setup.period \in Nat /\ HttpBurst * setup.period \in Nat
<1>. SUFFICES ASSUME Inv PROVE setup.period \in Nat /\ HttpBurst * setup.period \in Nat
  OBVIOUS
<1>1. setup.period \in Nat /\ HttpBurst \in Nat
  BY SetupsAssumption, LimitsAssumption DEF Inv, Shape, Types
<1>. QED
  BY <1>1

LEMMA SparesStarts == Init => Spares
<1>. SUFFICES ASSUME Init PROVE Spares
  OBVIOUS
<1>1. setup.period \in Nat /\ HttpBurst \in Nat
  BY SetupsAssumption, LimitsAssumption DEF Init
<1>2. HttpBurst * setup.period \in Nat
  BY <1>1
<1>3. /\ \A p \in Procs : level[p] = HttpBurst * setup.period /\ tokens[p] = HttpBurst /\ idle[p] = 0
      /\ DOMAIN level = Procs /\ DOMAIN tokens = Procs /\ DOMAIN idle = Procs
  BY DEF Init
<1>4. Paces
  <2>. DEFINE top == HttpBurst * setup.period
  <2>1. top \in Nat
    BY <1>2
  <2>2. \A p \in Procs : level[p] = top
    BY <1>3
  <2>. HIDE DEF top
  <2>3. \A p \in Procs : level[p] \in Int /\ level[p] >= top
    BY <2>1, <2>2
  <2>. QED
    BY <1>1, <1>3, <2>3 DEF Paces, top
<1>5. Cools
  <2>1. Cooldown \in Nat
    BY LimitsAssumption
  <2>2. calm = [p \in Procs |-> [v \in Venues |-> Cooldown]] /\ backoff = [p \in Procs |-> [v \in Venues |-> 0]]
    BY DEF Init
  <2>. QED
    BY <2>1, <2>2 DEF Cools
<1>. QED
  BY <1>3, <1>4, <1>5 DEF Spares

\* A tick fills the ideal bucket as much as it can fill the request's own.
LEMMA TickPaces ==
  ASSUME NEW own \in Int, NEW own1 \in Int, own1 <= own + 1, NEW top \in Int,
         NEW l \in Int, NEW period \in Int, l + period - 1 >= own \/ l >= top
  PROVE  /\ AtMost(l + 1, top) \in Int
         /\ AtMost(l + 1, top) + period - 1 >= own1 \/ AtMost(l + 1, top) >= top
  BY DEF AtMost

\* Taking a token costs both buckets a token, and the own one its remainder when it was refilled.
LEMMA FetchPaces ==
  ASSUME NEW period \in Nat \ {0}, NEW burst \in Nat, NEW t \in 0 .. burst, NEW i \in Nat, NEW l \in Int,
         l + period - 1 >= t * period + i \/ l >= burst * period,
         NEW b, b.tokens = AtMost(t + (i \div period), burst),
         b.idle = IF i \div period >= 1 THEN 0 ELSE i,
         b.tokens > 0
  PROVE  /\ b.tokens - 1 \in 0 .. burst /\ b.idle \in Nat
         /\ l - period + period - 1 >= (b.tokens - 1) * period + b.idle
<1>. DEFINE gain == i \div period
            own == (b.tokens - 1) * period + b.idle
<1>1. gain \in Nat /\ gain * period <= i /\ (gain = 0 => i < period)
  OBVIOUS
<1>. HIDE DEF gain
<1>2. b.tokens \in 1 .. burst /\ b.tokens <= t + gain /\ b.idle \in Nat /\ (b.idle = IF gain >= 1 THEN 0 ELSE i)
  BY <1>1 DEF AtMost, gain
<1>3. \A x, y \in Int : x <= y => x * period <= y * period
  OBVIOUS
<1>4. own \in Int /\ own + period = b.tokens * period + b.idle
  <2>1. \A x \in Int, y \in Nat : (x - 1) * period \in Int /\ x * period \in Int
                                  /\ (x - 1) * period + y + period = x * period + y
    OBVIOUS
  <2>. DEFINE k == b.tokens
  <2>2. k \in Int /\ b.idle \in Nat
    BY <1>2
  <2>. HIDE DEF k
  <2>3. (k - 1) * period \in Int /\ (k - 1) * period + b.idle + period = k * period + b.idle
    BY <2>1, <2>2
  <2>. QED
    BY <2>2, <2>3 DEF k
<1>5. (t + gain) * period = t * period + gain * period /\ t * period \in Int /\ gain * period \in Int
      /\ burst * period \in Int /\ b.tokens * period \in Int
  BY <1>1, <1>2
<1>6. b.tokens * period <= (t + gain) * period /\ b.tokens * period <= burst * period
  BY <1>1, <1>2, <1>3
<1>. DEFINE tp == t * period
            gp == gain * period
            bp == b.tokens * period
            top == burst * period
<1>7. /\ tp \in Int /\ gp \in Int /\ bp \in Int /\ top \in Int
      /\ bp <= tp + gp /\ bp <= top /\ gp <= i /\ own + period = bp + b.idle
      /\ l + period - 1 >= tp + i \/ l >= top
      /\ gain = 0 => gp = 0
  BY <1>1, <1>4, <1>5, <1>6
<1>. HIDE DEF tp, gp, bp, top, own
<1>8. l - period + period - 1 >= own
  BY <1>1, <1>2, <1>4, <1>7
<1>. QED
  BY <1>2, <1>8 DEF own

LEMMA TickKeepsSpares == Inv /\ Spares /\ Tick => Spares'
<1>. SUFFICES ASSUME Inv, Spares, Tick PROVE Spares'
  OBVIOUS
<1>. DEFINE top == HttpBurst * setup.period
<1>1. setup.period \in Nat /\ top \in Nat
  BY PeriodIsNat
<1>2. /\ setup' = setup /\ tokens' = tokens
      /\ idle' = [p \in Procs |-> IF Resolving(p) THEN AtMost(idle[p] + 1, top) ELSE 0]
      /\ level' = [p \in Procs |-> AtMost(level[p] + 1, top)]
      /\ backoff' = [p \in Procs |-> [v \in Venues |-> IF backoff[p][v] > 0 THEN backoff[p][v] - 1 ELSE 0]]
      /\ calm' = [p \in Procs |-> [v \in Venues |-> AtMost(calm[p][v] + 1, Cooldown)]]
  BY DEF Tick, request
<1>. HIDE DEF top
<1>3. Paced => \A p \in Procs : level[p] \in Int /\ tokens[p] \in 0 .. HttpBurst /\ idle[p] \in Nat
  BY DEF Spares, Paces
<1>4. Paced => \A p \in Procs : idle'[p] \in Nat /\ idle'[p] <= idle[p] + 1
  BY <1>1, <1>2, <1>3 DEF AtMost
<1>5. Paced => \A p \in Procs : level'[p] = AtMost(level[p] + 1, top) /\ level'[p] \in Int
  BY <1>1, <1>2, <1>3 DEF AtMost
<1>6. ASSUME Paced, NEW p \in Procs
      PROVE  level'[p] + setup.period - 1 >= tokens[p] * setup.period + idle'[p] \/ level'[p] >= top
  <2>. DEFINE held == tokens[p] * setup.period
  <2>1. held \in Int
    BY <1>1, <1>3, <1>6
  <2>2. level[p] + setup.period - 1 >= held + idle[p] \/ level[p] >= top
    BY <1>6 DEF Spares, Paces, top
  <2>. HIDE DEF held
  <2>3. level'[p] + setup.period - 1 >= held + idle'[p] \/ level'[p] >= top
    BY <1>1, <1>3, <1>4, <1>5, <1>6, <2>1, <2>2 DEF AtMost
  <2>. QED
    BY <2>3 DEF held
<1>7. Paces'
  BY <1>2, <1>3, <1>4, <1>5, <1>6 DEF Paces, Paced, top
<1>8. Cools'
  <2>1. \A p \in Procs, v \in Venues : calm[p][v] \in Nat /\ backoff[p][v] \in Nat /\ calm[p][v] + backoff[p][v] >= Cooldown
    BY DEF Spares, Cools
  <2>2. Cooldown \in Nat
    BY LimitsAssumption
  <2>3. \A p \in Procs, v \in Venues : calm'[p][v] \in Nat /\ backoff'[p][v] \in Nat /\ calm'[p][v] + backoff'[p][v] >= Cooldown
    BY <1>2, <2>1, <2>2 DEF AtMost
  <2>4. calm' \in [Procs -> [Venues -> Nat]] /\ backoff' \in [Procs -> [Venues -> Nat]]
    BY <1>2, <2>3
  <2>. QED
    BY <2>3, <2>4 DEF Cools
<1>. QED
  BY <1>2, <1>7, <1>8 DEF Spares

\* What a walking step may do to the bucket and to the back-off, and whom it calls.
WalkSpares(p) ==
  /\ UNCHANGED <<tokens, idle, level>> \/ AcquireHttpToken(p) \/ Answer(p)
  /\ \/ UNCHANGED <<calm, backoff>> \/ Answer(p)
     \/ \E v \in Venues, kind \in EventKinds : RecordAdapterEvent(p, v, kind)
  /\ Job(p).kind = "resolve_v0" => \A v \in Venues : Calls(p, v) => ~InBackoff(p, v)

\* Asking the pools, resolve_v0 calls those that are not in back-off.
LEMMA AskedPools ==
  ASSUME NEW p \in Procs, Inv, NEW l, AskPools(p, l), Job(p).kind = "resolve_v0",
         NEW v \in Venues, call'[p][v] # "done"
  PROVE  ~InBackoff(p, v)
<1>1. Job(p).kind # "run_v0"
  OBVIOUS
<1>2. call'[p][v] # "done" => v \in {u \in Pools : ~InBackoff(p, u)}
  BY <1>1 DEF AskPools, Inv, Shape, Types
<1>. QED
  BY <1>2

\* The end of a pool's call wakes a call that was made before.
LEMMA WokenBefore ==
  ASSUME NEW p \in Procs, Inv, NEW v \in Pools, NEW q, NEW e, PoolEnds(p, v, q, e),
         Job(p).kind = "resolve_v0", NEW w \in Venues, call[p][w] = "done"
  PROVE  call'[p][w] = "done"
<1>1. v \in Venues /\ call[p][v] = "open"
  BY DEF PoolEnds, Venues
<1>2. Agrees(Job(p).kind, pc[p], call[p], slots[p])
  BY DEF Inv, Shape, CallsOK
<1>3. pc[p] = "pools"
  BY <1>1, <1>2, VenueNames DEF Agrees
<1>4. slots[p] = PoolSlots(call[p])
  BY <1>2, <1>3 DEF Agrees
<1>5. slots[p].queue = IF call[p]["raydium"] = "queued" THEN <<"raydium">> ELSE <<>>
  BY <1>4 DEF PoolSlots
<1>6. w \notin WokenBy(slots[p])
  BY <1>5 DEF WokenBy
<1>7. call' = [call EXCEPT ![p] = [u \in Venues |-> IF u = v THEN "done"
                                                   ELSE IF u \in WokenBy(slots[p]) THEN "woken" ELSE @[u]]]
  BY DEF PoolEnds
<1>. QED
  BY <1>6, <1>7 DEF Inv, Shape, Types

LEMMA WalkSparesUpstream ==
  ASSUME NEW p \in Procs, Inv, Walk(p)
  PROVE  WalkSpares(p)
<1>. USE DEF request, observed, WalkSpares, Calls
<1>1. call \in [Procs -> [Venues -> Marks]]
  BY DEF Inv, Shape, Types
<1>. USE VenueNames
<1>2. \A answer : EventOf(answer) \in EventKinds
  BY DEF EventOf, EventKinds
<1>3. "ok" \in EventKinds
  BY DEF EventKinds
<1>4. CASE Begin(p) \/ SkipIntent(p) \/ AnswerFromCache(p) \/ HashFromCache(p)
  BY <1>4 DEF Begin, SkipIntent, AnswerFromCache, HashFromCache
<1>5. CASE Answer(p)
  BY <1>5 DEF Answer
<1>6. CASE AskJupiter(p)
  BY <1>1, <1>6 DEF AskJupiter
<1>7. CASE PassOverJupiter(p)
  <2>1. UNCHANGED <<tokens, idle, level, calm, backoff>> /\ AskPools(p, slots[p])
    BY <1>7 DEF PassOverJupiter
  <2>. QED
    BY <2>1, AskedPools
<1>8. CASE AcquireHttpToken(p)
  BY <1>1, <1>8 DEF AcquireHttpToken
<1>9. CASE JupiterAnswers(p)
  BY <1>1, <1>3, <1>9 DEF JupiterAnswers, Resolve
<1>10. CASE JupiterFallsBack(p)
  BY <1>1, <1>10 DEF JupiterFallsBack
<1>11. ASSUME NEW e, JupiterTriesAgain(p, e)
       PROVE  WalkSpares(p)
  BY <1>1, <1>11 DEF JupiterTriesAgain
<1>12. ASSUME NEW e, JupiterFails(p, e)
       PROVE  WalkSpares(p)
  <2>1. /\ UNCHANGED <<tokens, idle, level>> /\ AskPools(p, Leave(slots[p]))
        /\ RecordAdapterEvent(p, Jupiter, EventOf(e))
    BY <1>12 DEF JupiterFails
  <2>. QED
    BY <1>2, <2>1, AskedPools
<1>13. ASSUME NEW v \in Venues, GoesOn(p, v) \/ PoolTriesAgain(p, v)
       PROVE  WalkSpares(p)
  BY <1>1, <1>13 DEF GoesOn, PoolTriesAgain
<1>14. ASSUME NEW v \in Pools, NEW q, NEW e \in EventKinds, PoolEnds(p, v, q, e)
       PROVE  WalkSpares(p)
  <2>1. UNCHANGED <<tokens, idle, level>> /\ RecordAdapterEvent(p, v, e)
    BY <1>14 DEF PoolEnds
  <2>. QED
    BY <1>14, <2>1, WokenBefore
<1>15. CASE Choose(p) \/ GiveUpIntent(p)
  BY <1>15 DEF Choose, GiveUpIntent, Resolve
<1>16. ASSUME NEW v, PoolAnswers(p, v)
       PROVE  WalkSpares(p)
  BY <1>3, <1>14, <1>16 DEF PoolAnswers
<1>17. ASSUME NEW v, NEW e, PoolFails(p, v, e)
       PROVE  WalkSpares(p)
  <2>1. v \in Pools
    BY <1>17 DEF PoolFails, PoolEnds
  <2>. QED
    BY <1>2, <1>14, <1>17, <2>1 DEF PoolFails
<1>. QED
  BY <1>4, <1>5, <1>6, <1>7, <1>8, <1>9, <1>10, <1>11, <1>12, <1>13, <1>15, <1>16, <1>17 DEF Walk

LEMMA WalkKeepsSpares ==
  ASSUME NEW p \in Procs, Inv, Spares, Walk(p)
  PROVE  Spares'
<1>. DEFINE top == HttpBurst * setup.period
<1>1. setup.period \in Nat /\ top \in Nat /\ HttpBurst \in Nat /\ Cooldown \in Nat
  BY PeriodIsNat, LimitsAssumption
<1>2. setup' = setup /\ WalkSpares(p)
  BY WalkKeepsCalls, WalkSparesUpstream DEF WalkFrame, Inv
<1>3. CASE Answer(p)
  <2>1. /\ backoff' = [backoff EXCEPT ![p] = [v \in Venues |-> 0]]
        /\ tokens' = [tokens EXCEPT ![p] = HttpBurst]
        /\ idle' = [idle EXCEPT ![p] = 0]
        /\ calm' = [calm EXCEPT ![p] = [v \in Venues |-> Cooldown]]
        /\ level' = [level EXCEPT ![p] = top]
    BY <1>3 DEF Answer, Fresh
  <2>. HIDE DEF top
  <2>2. top >= top
    BY <1>1
  <2>3. Paces'
    BY <1>1, <1>2, <2>1, <2>2 DEF Spares, Paces, Paced, top
  <2>4. Cools'
    BY <1>1, <2>1 DEF Spares, Cools
  <2>. QED
    BY <2>1, <2>3, <2>4 DEF Spares
<1>4. ASSUME UNCHANGED <<tokens, idle, level>>
      PROVE  Paces' /\ DOMAIN level' = Procs /\ DOMAIN tokens' = Procs /\ DOMAIN idle' = Procs
  BY <1>2, <1>4 DEF Spares, Paces, Paced
<1>5. ASSUME UNCHANGED <<calm, backoff>> PROVE Cools'
  BY <1>5 DEF Spares, Cools
<1>7. ASSUME AcquireHttpToken(p)
      PROVE  Paces' /\ DOMAIN level' = Procs /\ DOMAIN tokens' = Procs /\ DOMAIN idle' = Procs
  <2>1. PICK b : /\ b = Refilled(p) /\ b.tokens > 0
                 /\ tokens' = [tokens EXCEPT ![p] = b.tokens - 1]
                 /\ idle' = [idle EXCEPT ![p] = b.idle]
                 /\ level' = [level EXCEPT ![p] = @ - setup.period]
    BY <1>7 DEF AcquireHttpToken
  <2>2. DOMAIN level' = Procs /\ DOMAIN tokens' = Procs /\ DOMAIN idle' = Procs
    BY <2>1 DEF Spares
  <2>3. ASSUME Paced
        PROVE  /\ b.tokens - 1 \in 0 .. HttpBurst /\ b.idle \in Nat
               /\ level[p] - setup.period + setup.period - 1 >= (b.tokens - 1) * setup.period + b.idle
    <3>1. setup.period \in Nat \ {0}
      BY <1>1, <2>3 DEF Paced
    <3>2. /\ level[p] \in Int /\ tokens[p] \in 0 .. HttpBurst /\ idle[p] \in Nat
          /\ \/ level[p] + setup.period - 1 >= tokens[p] * setup.period + idle[p]
             \/ level[p] >= HttpBurst * setup.period
      BY <2>3 DEF Spares, Paces
    <3>3. /\ b.tokens = AtMost(tokens[p] + (idle[p] \div setup.period), HttpBurst)
          /\ b.idle = IF idle[p] \div setup.period >= 1 THEN 0 ELSE idle[p]
      <4>. DEFINE gain == idle[p] \div setup.period
      <4>1. gain \in Nat
        BY <3>1, <3>2
      <4>2. b = IF gain >= 1 THEN [tokens |-> AtMost(tokens[p] + gain, HttpBurst), idle |-> 0]
                ELSE [tokens |-> tokens[p], idle |-> idle[p]]
        BY <2>1 DEF Refilled
      <4>. HIDE DEF gain
      <4>3. /\ b.tokens = AtMost(tokens[p] + gain, HttpBurst)
            /\ b.idle = IF gain >= 1 THEN 0 ELSE idle[p]
        BY <1>1, <3>2, <4>1, <4>2 DEF AtMost
      <4>. QED
        BY <4>3 DEF gain
    <3>. QED
      BY <1>1, <2>1, <3>1, <3>2, <3>3, FetchPaces
  <2>4. Paces'
    <3>. SUFFICES ASSUME Paced, NEW q \in Procs
                  PROVE  /\ level'[q] \in Int /\ tokens'[q] \in 0 .. HttpBurst /\ idle'[q] \in Nat
                         /\ \/ level'[q] + setup.period - 1 >= tokens'[q] * setup.period + idle'[q]
                            \/ level'[q] >= top
      BY <1>2 DEF Paces, Paced
    <3>1. /\ level[q] \in Int /\ tokens[q] \in 0 .. HttpBurst /\ idle[q] \in Nat
          /\ \/ level[q] + setup.period - 1 >= tokens[q] * setup.period + idle[q]
             \/ level[q] >= top
      BY DEF Spares, Paces
    <3>2. CASE q = p
      <4>1. level'[q] = level[q] - setup.period /\ tokens'[q] = b.tokens - 1 /\ idle'[q] = b.idle
        BY <2>1, <3>2 DEF Spares
      <4>2. level'[q] \in Int
        BY <1>1, <3>1, <4>1
      <4>. HIDE DEF top
      <4>. QED
        BY <2>3, <3>2, <4>1, <4>2
    <3>3. CASE q # p
      <4>1. level'[q] = level[q] /\ tokens'[q] = tokens[q] /\ idle'[q] = idle[q]
        BY <2>1, <3>3 DEF Spares
      <4>. HIDE DEF top
      <4>. QED
        BY <3>1, <4>1
    <3>. QED
      BY <3>2, <3>3
  <2>. QED
    BY <2>2, <2>4
<1>6. ASSUME NEW v \in Venues, NEW e \in EventKinds, RecordAdapterEvent(p, v, e)
      PROVE  Cools'
  BY <1>1, <1>6 DEF RecordAdapterEvent, Trips, Spares, Cools
<1>. QED
  BY <1>2, <1>3, <1>4, <1>5, <1>6, <1>7 DEF WalkSpares, Spares

LEMMA SparesStays == Inv /\ Spares /\ [Next]_vars => Spares'
<1>. SUFFICES ASSUME Inv, Spares, [Next]_vars PROVE Spares'
  OBVIOUS
<1>1. CASE UNCHANGED <<setup, tokens, idle, level, calm, backoff>>
  BY <1>1 DEF Spares, Paces, Paced, Cools
<1>2. ASSUME NEW p \in Procs, Phone(p) PROVE Spares'
  BY <1>1, <1>2 DEF Phone, AskRpc, RpcGoesOn, RpcAnswers, RpcFails, request, observed
<1>. QED
  BY <1>1, <1>2, WalkKeepsSpares, TickKeepsSpares, WalkOrPhone DEF Next, vars, request, observed

\* A request has no more calls running than it has slots for.
LEMMA SlotsSpared == Inv => \A p \in Procs : InSlots(p)
<1>. SUFFICES ASSUME Inv, NEW p \in Procs, Job(p).kind = "resolve_v0"
              PROVE  Cardinality({v \in Venues : call[p][v] \in {"token", "open"}}) <= QuoteConcurrency
  BY DEF InSlots
<1>. DEFINE running == {v \in Venues : call[p][v] \in {"token", "open"}}
<1>1. Agrees(Job(p).kind, pc[p], call[p], slots[p])
  BY DEF Inv, Shape, CallsOK
<1>2. \A x : IsFiniteSet({x}) /\ Cardinality({x}) = 1
  BY FS_Singleton
<1>3. IsFiniteSet({}) /\ Cardinality({}) = 0
  BY FS_EmptySet
<1>4. Cardinality({"meteora", "raydium"}) = 2
  <2>1. {"meteora", "raydium"} = {"meteora"} \cup {"raydium"} /\ "raydium" \notin {"meteora"}
    OBVIOUS
  <2>2. IsFiniteSet({"meteora"}) /\ Cardinality({"meteora"}) = 1
    BY <1>2
  <2>3. Cardinality({"meteora"} \cup {"raydium"}) = Cardinality({"meteora"}) + 1
    BY <2>1, <2>2, FS_AddElement
  <2>. QED
    BY <2>1, <2>2, <2>3
<1>5. \/ running = {} \/ \E x : running = {x}
      \/ running = {"meteora", "raydium"} /\ QuoteConcurrency >= 2
  <2>1. CASE pc[p] = "jupiter"
    <3>1. /\ call[p]["jupiter"] \in {"token", "open"}
          /\ call[p]["meteora"] = "done" /\ call[p]["raydium"] = "done"
      BY <1>1, <2>1, VenueNames DEF Agrees
    <3>2. running = {"jupiter"}
      BY <3>1, VenueNames
    <3>. QED
      BY <3>2
  <2>2. CASE pc[p] = "pools"
    <3>1. /\ call[p]["jupiter"] = "done" /\ call[p]["meteora"] \in {"open", "done"}
          /\ call[p]["raydium"] \in {"open", "done", "queued", "woken"}
          /\ call[p]["meteora"] = "open" /\ call[p]["raydium"] = "open" => QuoteConcurrency >= 2
      BY <1>1, <2>2, VenueNames DEF Agrees
    <3>2. CASE call[p]["meteora"] = "open" /\ call[p]["raydium"] = "open"
      <4>1. running = {"meteora", "raydium"}
        BY <3>1, <3>2, VenueNames
      <4>. QED
        BY <3>1, <3>2, <4>1
    <3>3. CASE call[p]["meteora"] = "open" /\ call[p]["raydium"] # "open"
      <4>1. running = {"meteora"}
        BY <3>1, <3>3, VenueNames
      <4>. QED
        BY <4>1
    <3>4. CASE call[p]["meteora"] # "open" /\ call[p]["raydium"] = "open"
      <4>1. running = {"raydium"}
        BY <3>1, <3>4, VenueNames
      <4>. QED
        BY <4>1
    <3>5. CASE call[p]["meteora"] # "open" /\ call[p]["raydium"] # "open"
      <4>1. running = {}
        BY <3>1, <3>5, VenueNames
      <4>. QED
        BY <4>1
    <3>. QED
      BY <3>2, <3>3, <3>4, <3>5
  <2>3. CASE pc[p] \notin {"jupiter", "pools"}
    <3>1. \A v \in Venues : call[p][v] = "done"
      BY <1>1, <2>3 DEF Agrees
    <3>2. running = {}
      BY <3>1
    <3>. QED
      BY <3>2
  <2>. QED
    BY <2>1, <2>2, <2>3
<1>. HIDE DEF running
<1>6. Cardinality(running) <= QuoteConcurrency
  <2>1. QuoteConcurrency \in Nat /\ QuoteConcurrency >= 1
    BY LimitsAssumption
  <2>2. Cardinality(running) = 0 \/ Cardinality(running) = 1 \/ (Cardinality(running) = 2 /\ QuoteConcurrency >= 2)
    BY <1>2, <1>3, <1>4, <1>5
  <2>. QED
    BY <2>1, <2>2
<1>. QED
  BY <1>6 DEF running

\* What a request owes its bucket is less than a token.
LEMMA PaceSpared == Inv /\ Spares => \A p \in Procs : InPace(p)
<1>. SUFFICES ASSUME Inv, Spares, NEW p \in Procs, Paced PROVE level[p] > 0 - setup.period
  BY DEF InPace
<1>. DEFINE held == tokens[p] * setup.period
            top == HttpBurst * setup.period
<1>1. setup.period \in Nat /\ setup.period > 0 /\ top \in Nat
  BY PeriodIsNat DEF Paced
<1>2. /\ level[p] \in Int /\ tokens[p] \in Nat /\ idle[p] \in Nat
      /\ level[p] + setup.period - 1 >= held + idle[p] \/ level[p] >= top
  BY LimitsAssumption DEF Spares, Paces
<1>3. held \in Nat
  BY <1>1, <1>2
<1>. HIDE DEF held, top
<1>. QED
  BY <1>1, <1>2, <1>3

Spared == \A p \in Procs : InPace(p) /\ InSlots(p)

\* A request never fetches faster than its bucket allows, by more than part of a token; one of
\* resolve_v0 has no more calls running than its quote slots, and leaves a venue alone for the
\* whole cool-down after a 429 or a timeout - however many intents it resolves.
THEOREM SparesTheorem == Spec => SparesUpstream
<1>1. ASSUME Inv, Spares, Spared', [Next]_vars, NEW p \in Procs
      PROVE  InPace(p)' /\ InSlots(p)' /\ InPatience(p)
  <2>1. InPace(p)' /\ InSlots(p)'
    BY <1>1 DEF Spared
  <2>3. InPatience(p)
    <3>. SUFFICES ASSUME Job(p).kind = "resolve_v0", NEW v \in Venues, Calls(p, v)
                  PROVE  calm[p][v] >= Cooldown
      BY DEF InPatience
    <3>1. call' # call
      BY DEF Calls
    <3>2. ~Tick /\ ~UNCHANGED vars /\ \A q \in Procs : ~Phone(q)
      BY <3>1 DEF Tick, vars, Phone, AskRpc, RpcGoesOn, RpcAnswers, RpcFails
    <3>3. PICK q \in Procs : Walk(q)
      BY <1>1, <3>2, WalkOrPhone DEF Next
    <3>4. q = p
      BY <1>1, <3>3, WalkKeepsCalls DEF WalkFrame, Inv, Calls
    <3>5. ~InBackoff(p, v)
      BY <1>1, <3>3, <3>4, WalkSparesUpstream DEF WalkSpares
    <3>6. calm[p][v] \in Nat /\ backoff[p][v] \in Nat /\ calm[p][v] + backoff[p][v] >= Cooldown
      BY <1>1 DEF Spares, Cools
    <3>. QED
      BY <3>5, <3>6, LimitsAssumption DEF InBackoff
  <2>. QED
    BY <2>1, <2>3
<1>2. Inv /\ Spares /\ Spared' /\ [Next]_vars =>
        [\A p \in Procs : InPace(p)' /\ InSlots(p)' /\ InPatience(p)]_vars
  BY <1>1
<1>3. Spec => []Spares
  BY InvAlways, SparesStarts, SparesStays, PTL DEF Spec
<1>4. Inv /\ Spares => Spared
  BY PaceSpared, SlotsSpared DEF Spared
<1>. QED
  BY <1>2, <1>3, <1>4, InvAlways, PTL DEF Spec, SparesUpstream
==============================================================================
