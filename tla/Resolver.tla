------------------------------ MODULE Resolver ------------------------------
(***************************************************************************)
(* The daemon's upstream side: requests that resolve intents into swaps by  *)
(* asking trading venues (POST /v1/workflows/resolve_v0 and the resolving   *)
(* half of run_v0), and requests that need a recent blockhash.              *)
(*                                                                         *)
(* Shared by all requests: the resolve cache, the blockhash cache and the   *)
(* RPC limiter.  Everything else (the rate bucket, the venues' statistics,  *)
(* their back-off, the quote slots) is declared inside the request handler: *)
(* each request has its own.                                                *)
(*                                                                         *)
(* A clock value in the code is an age here: the ticks since it was read,   *)
(* kept up to the largest value the code compares it with.                  *)
(***************************************************************************)
EXTENDS Quotes, Limiter

CONSTANTS
  Procs,            \* requests in flight
  Setups,           \* the situations a behaviour may start in
  JupiterRetries, AdapterRetries,   \* further attempts after a failed one
  Ttl,              \* ticks a resolution stays cached
  Cooldown,         \* ticks a venue is left alone after a 429 or a timeout
  QuoteConcurrency, \* calls to venues one request makes at a time
  HttpBurst,        \* capacity of a request's rate bucket
  RpcConcurrency, HashTtl

ASSUME LimitsAssumption ==
  /\ RpcConcurrency \in Nat \ {0} /\ QuoteConcurrency \in Nat \ {0}
  /\ Ttl \in Nat /\ Cooldown \in Nat /\ HashTtl \in Nat /\ HttpBurst \in Nat \ {0}

ASSUME SetupsAssumption ==
  /\ IsFiniteSet(Procs)
  /\ \A s \in Setups : \A p \in Procs :
       LET intents == s.work[p].intents
       IN  Len(intents) \in Nat /\ DOMAIN intents = 1 .. Len(intents)
  /\ \A s \in Setups : s.period \in Nat /\ \A v \in Pools : \A q \in s.offers[v] : EffectiveOut(q) \in Nat

VARIABLES
  setup,          \* the situation: each request's job, the pace of the bucket, whether there
                  \* is a key file, what the pools may offer and how upstream may fail
  resolveCache,   \* per cache key the last resolution, or None
  pc, nth,        \* each request's control point and the intent it is at
  call, tries,    \* per request and venue: how the call stands, failed attempts
  fallback,       \* whether Jupiter is asked at its public address
  offer,          \* per request and pool: its quote for the intent at hand, or None
  stats, backoff, \* per request and venue: remembered events, ticks of back-off left
  slots,          \* each request's quote slots
  tokens, idle,   \* each request's rate bucket and the ticks since its refill
  resolved,       \* per request the actions it resolved
  hash, asked,    \* the blockhash cache's age; per request, the age of its clock reading
  rpc,            \* the RPC limiter
  made, calm, level   \* observed only: see Observations

request == <<nth, fallback, offer, stats, slots, tokens, resolved>>
observed == <<made, calm, level>>
vars == <<setup, resolveCache, pc, call, tries, backoff, idle, hash, asked, rpc, request, observed>>

AtMost(n, bound) == IF n > bound THEN bound ELSE n
Job(p) == setup.work[p]
IntentOf(p) == Job(p).intents[nth[p]]
Caching(p) == Job(p).kind = "resolve_v0" /\ Ttl > 0
Paced == setup.period > 0       \* HTTP_RPS, as ticks per token; 0 disables the bucket

(* An intent's cache key names what is swapped and how, never who asked.    *)
KeyWithoutSlippage(it) == <<it.chain, it.type, it.pair>>     \* mutant
CacheKey(it) == <<it.chain, it.type, it.pair, it.slippage>>
Swap(it) == <<it.pair, it.slippage>>
Intents == UNION {UNION {{s.work[p].intents[i] : i \in DOMAIN s.work[p].intents}
                         : p \in {q \in Procs : s.work[q].kind \in {"resolve_v0", "run_v0"}}} : s \in Setups}
Keys == {CacheKey(it) : it \in Intents}
Swaps == {Swap(it) : it \in Intents}

InBackoff(p, v) == Cooldown > 0 /\ backoff[p][v] > 0

Init ==
  /\ setup \in Setups
  /\ resolveCache = [k \in Keys |-> None]
  /\ pc = [p \in Procs |-> "new"]
  /\ nth = [p \in Procs |-> 1]
  /\ call = [p \in Procs |-> [v \in Venues |-> "done"]]
  /\ tries = [p \in Procs |-> [v \in Venues |-> 0]]
  /\ fallback = [p \in Procs |-> FALSE]
  /\ offer = [p \in Procs |-> [v \in Pools |-> None]]
  /\ stats = [p \in Procs |-> [v \in Venues |-> <<>>]]
  /\ backoff = [p \in Procs |-> [v \in Venues |-> 0]]
  /\ slots = [p \in Procs |-> NewLimiter]
  /\ tokens = [p \in Procs |-> HttpBurst]
  /\ idle = [p \in Procs |-> 0]
  /\ resolved = [p \in Procs |-> <<>>]
  /\ hash = None
  /\ asked = [p \in Procs |-> 0]
  /\ rpc = NewLimiter
  /\ made = [s \in Swaps |-> [v \in Venues |-> Ttl]]
  /\ calm = [p \in Procs |-> [v \in Venues |-> Cooldown]]
  /\ level = [p \in Procs |-> HttpBurst * setup.period]
------------------------------------------------------------------------------
(* Helpers: what the end of a call changes.                                 *)

(* recordAdapterEvent: remember the event, and back off after a 429 or a    *)
(* timeout.                                                                 *)
Trips(kind) == Cooldown > 0 /\ kind \in {"429", "timeout"}
RecordAdapterEvent(p, v, kind) ==
  /\ stats' = [stats EXCEPT ![p][v] = Remember(@, kind)]
  /\ backoff' = [backoff EXCEPT ![p][v] = IF Trips(kind) THEN Cooldown ELSE @]
  /\ calm' = [calm EXCEPT ![p][v] = IF kind \in {"429", "timeout"} THEN 0 ELSE @]

(* What an error is to the statistics.                                      *)
EventOf(answer) == IF answer \in EventKinds THEN answer ELSE "fail"

Action(it, v, cached) ==
  [id |-> it.id, dependsOn |-> it.dependsOn, swap |-> Swap(it), adapter |-> v, cached |-> cached]

(* The request resolved its intent with venue v, and goes to the next one.  *)
Resolve(p, v) ==
  LET it == IntentOf(p)
      act == Action(it, v, FALSE)
  IN  /\ resolved' = [resolved EXCEPT ![p] = Append(@, act)]
      /\ resolveCache' = IF Caching(p)
                         THEN [resolveCache EXCEPT ![CacheKey(it)] = [age |-> 0, act |-> act]]
                         ELSE resolveCache
      /\ made' = IF Caching(p) THEN [made EXCEPT ![Swap(it)][v] = 0] ELSE made
      /\ nth' = [nth EXCEPT ![p] = @ + 1]

(* What a handler keeps for one intent only.                                *)
Forget(p) ==
  /\ tries' = [tries EXCEPT ![p] = [v \in Venues |-> 0]]
  /\ fallback' = [fallback EXCEPT ![p] = FALSE]
  /\ offer' = [offer EXCEPT ![p] = [v \in Pools |-> None]]

(* Jupiter gave nothing: both pools are asked at once.  resolve_v0 leaves   *)
(* alone a pool in back-off and takes a quote slot for the other, Meteora   *)
(* first; run_v0 does neither.                                              *)
AskPools(p, quoteSlots) ==
  LET direct == Job(p).kind = "run_v0"
      asks == IF direct THEN Pools ELSE {v \in Pools : ~InBackoff(p, v)}
      enter(l, v) == IF v \in asks /\ ~direct THEN Enter(l, QuoteConcurrency, v) ELSE l
      entered == enter(enter(quoteSlots, "meteora"), "raydium")
      waits(v) == \E i \in DOMAIN entered.queue : entered.queue[i] = v
  IN  /\ pc' = [pc EXCEPT ![p] = "pools"]
      /\ slots' = [slots EXCEPT ![p] = entered]
      /\ call' = [call EXCEPT ![p] = [v \in Venues |-> IF v \notin asks THEN "done"
                                                       ELSE IF waits(v) THEN "queued" ELSE "open"]]
      /\ Forget(p)

(* A call to Jupiter is about to fetch: it needs a token if there is a pace. *)
ToFetch == IF Paced THEN "token" ELSE "open"
------------------------------------------------------------------------------
(* Resolving, intent by intent.                                             *)

(* What a handler declares for itself, as it is when the request arrives    *)
(* and when nothing is left of it.                                          *)
Fresh(p) ==
  /\ stats' = [stats EXCEPT ![p] = [v \in Venues |-> <<>>]]
  /\ backoff' = [backoff EXCEPT ![p] = [v \in Venues |-> 0]]
  /\ tokens' = [tokens EXCEPT ![p] = HttpBurst]
  /\ idle' = [idle EXCEPT ![p] = 0]
  /\ calm' = [calm EXCEPT ![p] = [v \in Venues |-> Cooldown]]
  /\ level' = [level EXCEPT ![p] = HttpBurst * setup.period]

Begin(p) ==
  /\ pc[p] = "new" /\ Job(p).kind \in {"resolve_v0", "run_v0"}
  /\ pc' = [pc EXCEPT ![p] = "next"]
  /\ UNCHANGED <<setup, resolveCache, call, tries, backoff, idle, hash, asked, rpc, request, observed>>

Answer(p) ==
  /\ pc[p] = "next" /\ nth[p] > Len(Job(p).intents)
  /\ pc' = [pc EXCEPT ![p] = "answered"]
  /\ Fresh(p)
  /\ UNCHANGED <<setup, resolveCache, call, tries, nth, fallback, offer, slots, resolved, hash, asked, rpc, made>>

AtIntent(p) == pc[p] = "next" /\ nth[p] <= Len(Job(p).intents)
Supported(it) == it.chain = "solana" /\ it.type = "swap_exact_in"
Cached(p) == IF Caching(p) THEN resolveCache[CacheKey(IntentOf(p))] ELSE None
HitAtTheEdge(p) == Cached(p) # None /\ Cached(p).age <= Ttl     \* mutant
Hit(p) == Cached(p) # None /\ Cached(p).age < Ttl

(* The intent cannot be resolved, or there is no key to quote for: only an  *)
(* error is answered for it.                                                *)
SkipIntent(p) ==
  /\ AtIntent(p)
  /\ Supported(IntentOf(p)) => ~Hit(p) /\ ~setup.keypair
  /\ nth' = [nth EXCEPT ![p] = @ + 1]
  /\ UNCHANGED <<setup, resolveCache, pc, call, tries, fallback, offer, stats, backoff, slots, tokens, idle, resolved, hash, asked, rpc, observed>>

(* A cached resolution is handed out under this intent's id; everything     *)
(* else, dependsOn included, is that of the request that made it.           *)
HandedOut(act, id) ==
  [id |-> id, dependsOn |-> act.dependsOn, swap |-> act.swap, adapter |-> act.adapter, cached |-> TRUE]
AnswerFromCache(p) ==
  /\ AtIntent(p) /\ Supported(IntentOf(p)) /\ Hit(p)
  /\ resolved' = [resolved EXCEPT ![p] = Append(@, HandedOut(Cached(p).act, IntentOf(p).id))]
  /\ nth' = [nth EXCEPT ![p] = @ + 1]
  /\ UNCHANGED <<setup, resolveCache, pc, call, tries, fallback, offer, stats, backoff, slots, tokens, idle, hash, asked, rpc, observed>>

(* No answer cached: Jupiter first.  A request has one call out at a time   *)
(* here, so its quote slot is free.                                         *)
ToResolve(p) == AtIntent(p) /\ Supported(IntentOf(p)) /\ ~Hit(p) /\ setup.keypair
AskJupiter(p) ==
  /\ ToResolve(p) /\ ~InBackoff(p, Jupiter)
  /\ pc' = [pc EXCEPT ![p] = "jupiter"]
  /\ slots' = [slots EXCEPT ![p] = Enter(@, QuoteConcurrency, Jupiter)]
  /\ call' = [call EXCEPT ![p][Jupiter] = ToFetch]
  /\ UNCHANGED <<setup, resolveCache, nth, tries, fallback, offer, stats, backoff, tokens, idle, resolved, hash, asked, rpc, observed>>

PassOverJupiter(p) ==
  /\ ToResolve(p) /\ InBackoff(p, Jupiter)
  /\ AskPools(p, slots[p])
  /\ UNCHANGED <<setup, resolveCache, nth, stats, backoff, tokens, idle, resolved, hash, asked, rpc, observed>>

(* The bucket gains a token per period that passed, and a remainder of less *)
(* than a token is dropped when it gains any.                               *)
RefilledAgain(p) ==     \* mutant: the time of the refill is not recorded
  LET gain == idle[p] \div setup.period
  IN  [tokens |-> AtMost(tokens[p] + gain, HttpBurst), idle |-> idle[p]]
Refilled(p) ==
  LET gain == idle[p] \div setup.period
  IN  IF gain >= 1 THEN [tokens |-> AtMost(tokens[p] + gain, HttpBurst), idle |-> 0]
      ELSE [tokens |-> tokens[p], idle |-> idle[p]]

AcquireHttpToken(p) ==
  /\ call[p][Jupiter] = "token"
  /\ LET b == Refilled(p)
     IN  /\ b.tokens > 0
         /\ tokens' = [tokens EXCEPT ![p] = b.tokens - 1]
         /\ idle' = [idle EXCEPT ![p] = b.idle]
  /\ call' = [call EXCEPT ![p][Jupiter] = "open"]
  /\ level' = [level EXCEPT ![p] = @ - setup.period]
  /\ UNCHANGED <<setup, resolveCache, pc, nth, tries, fallback, offer, stats, backoff, slots, resolved, hash, asked, rpc, made, calm>>

JupiterAnswers(p) ==
  /\ call[p][Jupiter] = "open"
  /\ call' = [call EXCEPT ![p][Jupiter] = "done"]
  /\ RecordAdapterEvent(p, Jupiter, "ok")
  /\ slots' = [slots EXCEPT ![p] = Leave(@)]
  /\ Resolve(p, Jupiter)
  /\ pc' = [pc EXCEPT ![p] = "next"]
  /\ Forget(p)
  /\ UNCHANGED <<setup, tokens, idle, hash, asked, rpc, level>>

(* fetchJsonWithRetry: a timeout, a 429 or a server error is tried again.   *)
Retryable == {"429", "timeout", "5xx"}
JupiterTriesAgain(p, answer) ==
  /\ call[p][Jupiter] = "open"
  /\ answer \in Retryable /\ tries[p][Jupiter] < JupiterRetries
  /\ call' = [call EXCEPT ![p][Jupiter] = ToFetch]
  /\ tries' = [tries EXCEPT ![p][Jupiter] = @ + 1]
  /\ UNCHANGED <<setup, resolveCache, pc, backoff, idle, hash, asked, rpc, request, observed>>

(* The configured address refused the key: once more at the public one.     *)
JupiterFallsBack(p) ==
  /\ call[p][Jupiter] = "open" /\ "401" \in setup.failures /\ ~fallback[p]
  /\ fallback' = [fallback EXCEPT ![p] = TRUE]
  /\ call' = [call EXCEPT ![p][Jupiter] = ToFetch]
  /\ tries' = [tries EXCEPT ![p][Jupiter] = 0]
  /\ UNCHANGED <<setup, resolveCache, pc, nth, offer, stats, backoff, slots, tokens, idle, resolved, hash, asked, rpc, observed>>

JupiterFails(p, answer) ==
  /\ call[p][Jupiter] = "open"
  /\ answer \in Retryable => tries[p][Jupiter] = JupiterRetries
  /\ answer = "401" => fallback[p]
  /\ RecordAdapterEvent(p, Jupiter, EventOf(answer))
  /\ AskPools(p, Leave(slots[p]))
  /\ UNCHANGED <<setup, resolveCache, nth, tokens, idle, resolved, hash, asked, rpc, made, level>>

GoesOn(p, v) ==
  /\ call[p][v] = "woken"
  /\ call' = [call EXCEPT ![p][v] = "open"]
  /\ slots' = [slots EXCEPT ![p] = Resume(@)]
  /\ UNCHANGED <<setup, resolveCache, pc, nth, tries, fallback, offer, stats, backoff, tokens, idle, resolved, hash, asked, rpc, observed>>

(* withRetry: only a 429 is tried again.                                    *)
PoolTriesAgain(p, v) ==
  /\ v \in Pools /\ call[p][v] = "open" /\ tries[p][v] < AdapterRetries
  /\ tries' = [tries EXCEPT ![p][v] = @ + 1]
  /\ UNCHANGED <<setup, resolveCache, pc, call, backoff, idle, hash, asked, rpc, request, observed>>

(* A pool's call ends with a quote or an event that says why not; its slot  *)
(* goes to the other pool if that one waits.                                *)
PoolEnds(p, v, quote, event) ==
  /\ v \in Pools /\ call[p][v] = "open"
  /\ event = "429" => tries[p][v] = AdapterRetries
  /\ RecordAdapterEvent(p, v, event)
  /\ offer' = [offer EXCEPT ![p][v] = quote]
  /\ LET direct == Job(p).kind = "run_v0"
         woken == IF direct THEN {} ELSE WokenBy(slots[p])
     IN  /\ slots' = IF direct THEN slots ELSE [slots EXCEPT ![p] = Leave(@)]
         /\ call' = [call EXCEPT ![p] = [w \in Venues |-> IF w = v THEN "done"
                                                          ELSE IF w \in woken THEN "woken" ELSE @[w]]]
  /\ UNCHANGED <<setup, resolveCache, pc, nth, tries, fallback, tokens, idle, resolved, hash, asked, rpc, made, level>>

PoolAnswers(p, v) == v \in Pools /\ \E q \in setup.offers[v] : PoolEnds(p, v, q, "ok")
PoolFails(p, v, answer) == PoolEnds(p, v, None, EventOf(answer))

(* Both pools are done: the better offer is taken; without one the intent   *)
(* is left without an action.                                               *)
PoolsDone(p) == pc[p] = "pools" /\ \A v \in Pools : call[p][v] = "done"
NoOffer(p) == \A v \in Pools : offer[p][v] = None

Choose(p) ==
  /\ PoolsDone(p) /\ ~NoOffer(p)
  /\ Resolve(p, BestPool(offer[p], stats[p]))
  /\ pc' = [pc EXCEPT ![p] = "next"]
  /\ Forget(p)
  /\ UNCHANGED <<setup, call, stats, backoff, slots, tokens, idle, hash, asked, rpc, calm, level>>

GiveUpIntent(p) ==
  /\ PoolsDone(p) /\ NoOffer(p)
  /\ nth' = [nth EXCEPT ![p] = @ + 1]
  /\ pc' = [pc EXCEPT ![p] = "next"]
  /\ Forget(p)
  /\ UNCHANGED <<setup, resolveCache, call, stats, backoff, slots, tokens, idle, resolved, hash, asked, rpc, observed>>
------------------------------------------------------------------------------
(* getLatestBlockhashCached.                                                *)

HashHit == hash # None /\ hash < HashTtl

(* The clock is read before the limiter is asked.                           *)
HashFromCache(p) ==
  /\ pc[p] = "new" /\ Job(p).kind = "refresh" /\ HashHit
  /\ pc' = [pc EXCEPT ![p] = "answered"]
  /\ UNCHANGED <<setup, resolveCache, call, tries, backoff, idle, hash, asked, rpc, request, observed>>

AskRpc(p) ==
  /\ pc[p] = "new" /\ Job(p).kind = "refresh" /\ ~HashHit
  /\ asked' = [asked EXCEPT ![p] = 0]
  /\ rpc' = Enter(rpc, RpcConcurrency, p)
  /\ pc' = [pc EXCEPT ![p] = IF Full(rpc, RpcConcurrency) THEN "queued" ELSE "rpc"]
  /\ UNCHANGED <<setup, resolveCache, call, tries, backoff, idle, hash, request, observed>>

RpcGoesOn(p) ==
  /\ pc[p] = "woken"
  /\ rpc' = Resume(rpc)
  /\ pc' = [pc EXCEPT ![p] = "rpc"]
  /\ UNCHANGED <<setup, resolveCache, call, tries, backoff, idle, hash, asked, request, observed>>

(* A call ends and its slot wakes the next caller.                          *)
RpcLeaves(p, end) ==
  /\ rpc' = Leave(rpc)
  /\ pc' = [q \in Procs |-> IF q = p THEN end ELSE IF q \in WokenBy(rpc) THEN "woken" ELSE pc[q]]

(* The cached blockhash is as old as its caller's reading of the clock.     *)
RpcAnswers(p) ==
  /\ pc[p] = "rpc"
  /\ RpcLeaves(p, "answered")
  /\ hash' = asked[p]
  /\ UNCHANGED <<setup, resolveCache, call, tries, backoff, idle, asked, request, observed>>

RpcFails(p) ==
  /\ pc[p] = "rpc"
  /\ RpcLeaves(p, "failed")
  /\ UNCHANGED <<setup, resolveCache, call, tries, backoff, idle, hash, asked, request, observed>>
------------------------------------------------------------------------------
Resolving(p) == pc[p] \in {"next", "jupiter", "pools"}
Waiting(p) == pc[p] \in {"queued", "woken", "rpc"}

(* Time: every age grows and every back-off runs down by a tick.            *)
Tick ==
  /\ resolveCache' = [k \in Keys |-> IF resolveCache[k] = None THEN None
                                     ELSE [resolveCache[k] EXCEPT !.age = AtMost(@ + 1, Ttl)]]
  /\ backoff' = [p \in Procs |-> [v \in Venues |-> IF backoff[p][v] > 0 THEN backoff[p][v] - 1 ELSE 0]]
  /\ idle' = [p \in Procs |-> IF Resolving(p) THEN AtMost(idle[p] + 1, HttpBurst * setup.period) ELSE 0]
  /\ hash' = IF hash = None THEN None ELSE AtMost(hash + 1, HashTtl)
  /\ asked' = [p \in Procs |-> IF Waiting(p) THEN AtMost(asked[p] + 1, HashTtl) ELSE 0]
  /\ made' = [s \in Swaps |-> [v \in Venues |-> AtMost(made[s][v] + 1, Ttl)]]
  /\ calm' = [p \in Procs |-> [v \in Venues |-> AtMost(calm[p][v] + 1, Cooldown)]]
  /\ level' = [p \in Procs |-> AtMost(level[p] + 1, HttpBurst * setup.period)]
  /\ UNCHANGED <<setup, pc, call, tries, rpc, request>>

Step(p) ==
  \/ Begin(p) \/ Answer(p) \/ SkipIntent(p) \/ AnswerFromCache(p)
  \/ AskJupiter(p) \/ PassOverJupiter(p) \/ AcquireHttpToken(p)
  \/ JupiterAnswers(p) \/ JupiterFallsBack(p)
  \/ \E e \in setup.failures : JupiterTriesAgain(p, e) \/ JupiterFails(p, e)
  \/ \E v \in Venues : \/ GoesOn(p, v) \/ PoolTriesAgain(p, v) \/ PoolAnswers(p, v)
                       \/ \E e \in setup.failures : PoolFails(p, v, e)
  \/ Choose(p) \/ GiveUpIntent(p)
  \/ HashFromCache(p) \/ AskRpc(p) \/ RpcGoesOn(p) \/ RpcAnswers(p) \/ RpcFails(p)

Next == Tick \/ \E p \in Procs : Step(p)

Spec == Init /\ [][Next]_vars

(* Handlers go on, upstream calls end (fetches are aborted after a time),   *)
(* and time passes.                                                         *)
FairSpec == Spec /\ WF_vars(Tick) /\ \A p \in Procs : WF_vars(Step(p))
------------------------------------------------------------------------------
(* Observations: made[s][v] is the ticks since some request that caches     *)
(* resolved swap s at venue v; calm[p][v] those since p last saw venue v    *)
(* end in a 429 or a timeout; level[p] an ideal bucket for p's fetches,     *)
(* which gains one unit per tick and pays a period per fetch.               *)

(* The action carries out the intent: its swap under its id, and with its   *)
(* dependencies unless the action was cached.                               *)
CarriesOut(act, it) ==
  /\ act.id = it.id /\ act.swap = Swap(it)
  /\ ~act.cached => act.dependsOn = it.dependsOn

(* The actions are for intents in their order, at most one for each (at     *)
(* says for which), and carry them out.                                     *)
CarryOut(actions, at, intents) ==
  /\ \A i, j \in DOMAIN actions : i < j => at[i] < at[j]
  /\ \A i \in DOMAIN actions : at[i] \in DOMAIN intents /\ CarriesOut(actions[i], intents[at[i]])

(* What a request has resolved are actions for intents it has passed, in    *)
(* their order and at most one for each, and each carries out the intent it *)
(* is for - also when it was cached for another request.                    *)
AnswersTheIntent ==
  \A p \in Procs : \E at \in [DOMAIN resolved[p] -> 1 .. nth[p] - 1] :
    CarryOut(resolved[p], at, Job(p).intents)

Took(p) == Len(resolved'[p]) > Len(resolved[p])
Taken(p) == resolved'[p][Len(resolved'[p])]

(* An action that comes from the cache names a venue at which a request     *)
(* resolved the same swap less than the time to live ago.                   *)
CacheIsRecent ==
  [][\A p \in Procs : Took(p) /\ Taken(p).cached => made[Taken(p).swap][Taken(p).adapter] < Ttl]_vars

(* When the pools are compared, an offer that promises more is passed over  *)
(* only for a venue that failed less lately: rounding costs at most one     *)
(* base unit.                                                               *)
NoBetterOfferLost ==
  [][\A p \in Procs : Took(p) /\ Taken(p).adapter \in Pools /\ ~Taken(p).cached =>
       LET v == Taken(p).adapter
       IN  \A w \in Pools :
             offer[p][w] # None /\ EffectiveOut(offer[p][w]) > EffectiveOut(offer[p][v]) + 1
               => PenaltyBps(stats[p][w]) > PenaltyBps(stats[p][v])]_vars

(* A request spares upstream.  It never fetches faster than its bucket      *)
(* allows, by more than part of a token; in resolve_v0 it has no more calls *)
(* running than its quote slots, and calls no venue that answered it with a *)
(* 429 or a timeout less than the cool-down ago.                            *)
InPace(p) == Paced => level[p] > 0 - setup.period
InSlots(p) == Job(p).kind = "resolve_v0" =>
  Cardinality({v \in Venues : call[p][v] \in {"token", "open"}}) <= QuoteConcurrency
Calls(p, v) == call[p][v] = "done" /\ call'[p][v] # "done"
InPatience(p) == Job(p).kind = "resolve_v0" => \A v \in Venues : Calls(p, v) => calm[p][v] >= Cooldown
SparesUpstream == [][\A p \in Procs : InPace(p)' /\ InSlots(p)' /\ InPatience(p)]_vars

(* Nobody queues for the RPC while it has a slot to give.                   *)
NobodyQueuesForNothing == Busy(rpc, RpcConcurrency)

(* Every request is answered, or fails with the RPC.                        *)
AllAreServed ==
  \A p \in Procs : <>(pc[p] \in {"answered", "failed"} \/ Job(p).kind = "none")
==============================================================================
