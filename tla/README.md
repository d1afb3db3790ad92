# Verification of the w3rt runtime

TLA+ models of web3AIRuntime, checked with TLC on small instances and, where the prover
reaches, proved with TLAPS for every instance.  The repository is a TypeScript monorepo that
lets an agent prepare, simulate, judge by a policy, and broadcast blockchain transactions; its
centre is an HTTP daemon (`packages/runtime/src/daemon.ts`).  Line numbers below are those of
that file unless another is named.

## The system and its parts

| part | state it keeps | operations | what is hard, and what makes it correct | module |
|---|---|---|---|---|
| daemon: prepare and execute (1188-1477, 3176-3470) | `prepared` (memory), `executed` (memory and `executed.json`), `policy` (memory and `policy.yaml`), the blockhash cache | prepare, execute (three handlers with one body), cleanup timer, policy apply/reset, boot | Handlers interleave at every `await`; RPC answers are late, lost or out of order; the process dies between a broadcast and its record. What is remembered must be on the chain, what is done must stay done, the gate must hold when the artifact is sent, every call must be answered. | DaemonExec |
| daemon: workflow runs (2311-2993, 3475-3611) | `runs/<id>/status.json`, `plan.json` | run_v0, confirm_v0, retry_v0 | Two handlers read, change and write one status file around their awaits. A step shown as executed must be, and steps are offered in the order of their dependencies. | WorkflowRun |
| plan ordering (104-142) and plan/compile (2997-3175) | `prepared`, results of the request | topoOrderActions, build, judge and store each action | Ids and dependencies may repeat, be missing or name themselves. Every plan is ordered or refused for a real cycle, and nothing is prepared that rests on something denied. | PlanOrder, PlanCompile |
| daemon: resolver, quotes, back-off (1834-2477) | resolve cache (shared); bucket, statistics, back-off, slots (of a request) | resolve_v0, the resolving half of run_v0 | Answers in any order, retries, time-outs, refusals, cached answers. Every answer is for its intent, the better offer wins, upstream is spared. | Resolver, Quotes |
| daemon: limiter (320-343) | active, queue | run | A wake-up races a new caller for the last slot; nobody may wait beside a free one. | Limiter, Resolver |
| daemon: Meteora monitor (791-1019) | catalogue, history per pool | monitor/top, monitor/telegram, timer | Refreshes overlap and end in any order; fees of a window come from the history. | Monitor |
| policy engine and rules (`packages/policy`) | none | decide, evaluateRules | First match wins: the order of the gates is the semantics; rules are parsed while they are evaluated. | PolicyGates, PolicyRules, PolicyEngine |
| workflow runner (`runtime/src/run.ts`, `runner.ts`, `tools/solana.ts`, `packages/workflow`, `rpcFailover.ts`) | `policy_broadcast_history.json`, `rpc_state.json`, the context of a run | run a workflow through the gate, rotate endpoints | Concurrent runs rewrite the files on which limits rest; values in the context outlive the action that put them there. | Runner |
| OCaml scheduler (`ocaml-scheduler`) | none | validate, topo_sort, insertion of balance steps | Repeated dependencies; an inserted step may close a cycle. | Scheduler |
| scripts (`w3rt_plan_run.mjs`, `w3rt_swap_safe.mjs`) | outputs of a plan, `swap-quotes.json` | ready loop; quote, execute a quote | One variable for the last quote; the quote file is read, and written after the awaits. | PlanRunner |
| MCP server (`packages/host-mcp`) | quotes in memory | swap quote, swap execute | A quote is looked up, and taken out three awaits later. | McpHost |
| chain drivers, adapters | none | build, simulate, decode | Outcomes only: inputs of the models. | |
| trace store, replay, pi extension, command line, demos | append-only files | log, read, translate calls | No state a property depends on. | |

Clients (the MCP and pi hosts, the scripts, curl) call the daemon over HTTP.  A workflow run
calls the same code as prepare and execute: it puts artifacts into the same `prepared` map,
and confirm_v0 repeats the body of execute.  The policy engine is called at prepare (its
answer is only reported) and again at execute (its answer is the gate), and by the workflow
runner before a tool that broadcasts.  The chain is reached through the RPC node of the
cluster configured at that moment.

`PROJECT.json` lists the components, the hazards at their lines, the runs, the
correspondence of every definition with its lines (`map`), and the findings.

## The modules

How they are put together:

```
BroadcastLedger <=(refines)= DaemonExec        PolicyRules <- PolicyGates <- PolicyEngine
       ^ composed with WorkflowRun                                 ^-------- Runner
PlanOrder <- PlanCompile   (PlanOrder's order satisfies WorkflowRun's PlanAssumption)
Quotes, Limiter <- Resolver
Scheduler <- PlanRunner, McpHost, Monitor <- MCClients
```

### BroadcastLedger: what the execute path promises

Identifiers are `new`, `open` or `closed`, in this order and once; callers try open
identifiers, several at a time; only a caller that is trying puts signatures on the chain.
No clocks, maps, files or policies.  It deliberately does *not* promise one broadcast per
identifier: see `OneShot` below.

### DaemonExec: prepare, execute, and everything that runs in between

| model | code |
|---|---|
| `prepared`, `item` | the keys of the map, and the stored artifacts (kind, cluster, simulation, deadline); an artifact is immutable for the model |
| `executed`, `file` | the map and `executed.json`, which is written in place and may be left old or cut off (`Corrupt`) |
| `policy`, `policyFile` | the loaded engine and `policy.yaml` (absent, readable or not) |
| `cache` | `blockhashCache`: a blockhash and the time before its fetch |
| `req[r]` | one suspended handler: where it waits, for what, with which blockhash or signature |
| `landed`, `told` | what the cluster accepted and what clients were answered |
| `now`, `net` | the clock, in slots, and the cluster the configuration names |

A handler runs without interruption from one `await` to the next, so each such stretch is
one action.  Its program counters are the awaits: `fetching` (getLatestBlockhash),
`building` (buildTx and simulation), `sending` and `landed` (sendTransaction before and after
the cluster has accepted), `settling` (the race of confirmTransaction with its timeout).  The
test of `executed` and `prepared`, the deadline, the policy and, if the cache is fresh, the
signature all happen in `ExecuteAccepted`.  With a fresh cache the code still yields to the
microtask queue; no other handler can run there, because handlers are resumed by I/O.

Abstractions, and why they lose nothing: a transfer's look-ups of token accounts only delay
the fetch of its blockhash; `plan/compile` is several prepares in a row; `trace.emit` before
`executed.set` may throw, which is `SendAnswerLost`, and after it, which is the last disjunct
of `Record`; GET artifacts drops an expired artifact (`RefuseExpired`); a body of policy/apply that
cannot be written is an `EditPolicyFile`; a policy.yaml that parses to something without the expected fields makes `decide` throw,
which refuses like a policy that blocks everything.  `Decide` is an arbitrary function from policy, cluster, kind of
transaction and simulation result to a decision.  ed25519 is deterministic: one message with one blockhash has one signature.
Left out are the metrics, memory records, artifact hashes and traces, which no handler reads.

### WorkflowRun: one run and its status file

Composes the run with the ledger: `Ledger == INSTANCE BroadcastLedger WITH status <-
artifact`, and every action that prepares, tries, lands, drops or ends an attempt conjoins
the ledger's step.  This is sound because `DaemonExec` implements the ledger
(`ImplementsLedger`), with `Expire` for clocks and timers and `Restart` for crashes.  On top:
`run` (the loop of run_v0 and its results), `file` (status.json, `None` when it is missing or
unreadable, which `loadRunStatus` does not distinguish), `plan` (is plan.json readable),
`call` (confirm_v0, actions/execute and retry_v0 in flight), `executed`, `told`.

`writeRunStatus` reads, merges and writes in one piece; what goes wrong is between the pieces:
`ConfirmRecord` merges into whatever the file says when sendTransaction has returned.
`RetryFinish` keeps the fields it does not set, the signature among them.  With `Torn`, a
write may fail or be cut off, and the trace may not be writable.  A step whose dependencies failed, that is above the cap, or that is for a chain without a driver (`Refused`) leaves no trace in
status.json but stays in plan.json.  Dependencies on ids outside the plan are ignored by the
code and absent from `DependsOn`.  A call that names both a step and a preparedId behaves as
`ConfirmKnown` or as route "id".  Nobody knows the runId, a random UUID, before run_v0 has
answered or died.

`PlanAssumption` states what topoOrderActions delivers: every step once, dependencies first.
`PlanOrder` shows that it does.

### PlanOrder: topoOrderActions

Kahn's loop (104-142).  A behaviour is one call; a step is one turn of a loop: of the seeding of the queue
(`Seed`), of the queue (`Take`) or of the edges out of the id just taken (`Follow`).  The plan is what
normalizeActions lets through: ids may repeat (the last action of an id counts, the
dependencies of all of them do), dependencies may repeat, be missing, or name the action itself.  An
edge is a place in the plan, so repeated dependencies are distinct edges, as they are in
`indeg` and `out`.  The loops over the plan that fill these maps have no effect in
between and are part of `Init`.

### PlanCompile: plan/compile

Extends PlanOrder with the loop over the ordered ids (2997-3175): an action whose dependency
has failed in this request is skipped (`Skip`), one that cannot be built or
simulated is reported (`NotBuilt`), and the others are stored and judged (`Prepare`: denied artifacts
are stored as well); a driver or trace call that throws ends the request and
leaves what was stored (`Throws`).  Its behaviours are behaviours of PlanOrder's `Spec`.

### PolicyRules, PolicyGates, PolicyEngine: the policy

`PolicyRules` is `packages/policy/src/rules.ts`: tokens, grammar and comparison of a rule's
condition, where the parser is a function from a method and a position to a value and the next
position, as in the code, which evaluates while it parses.  `PolicyGates` is `decide`
(`engine.ts`): the gates in their order, and first match wins.  Characters, messages
and the `enabled` flag's defaults are left out; numbers are small integers, and `None` is `undefined`.  `PolicyEngine` lets one
field of the configuration be tightened (a stricter policy) or one look-up of
the context fail per step, and holds the reference: an expression tree, the condition that is
written for it, and its meaning.

### Limiter, Quotes, Resolver: the daemon's upstream side

`Limiter` is `createLimiter` as a record with operators: a task that ends wakes the head of the queue,
and the woken caller counts itself in only when its turn comes.  `Quotes` weighs offers
(the effective amount, the penalty for recent failures in basis points, the comparison).  `Resolver` runs requests
over them: per intent the cache, Jupiter with its retries and its public fall-back, then both pools
at once through the request's quote slots, then the choice.  `resolve_v0` and the
quoting of `run_v0` differ (`kind`), as the code does: the latter has no cache, back-off or slots for the pools.
Requests for a blockhash go through the shared RPC limiter.

Clock values are ages, counted up to the largest value they are compared with, so that the
model has finitely many states without a bound on time.  `made`, `calm` and `level` are
observers: no action reads them.

### Runner: the workflow runner, in both flavours

A process runs the stages of a workflow: `RunStage` (conditions, approval), `Begin` and the
actions that end a tool (`Quoted`, `BuiltSwap`, `BuiltTransfer`, `BuiltByAdapter`, `Simulated`,
`Confirmed`, `Throws`), and for a tool that broadcasts `Gate` (what the policy is asked),
`Policy`, `Accept` and `Answers` (the prompt), `SendOk` and `SendFails`.  `run.ts` and
`runner.ts` with its engine differ in what they give the policy, in when the
history is loaded and saved, in approvals and conditions; the model has one action with the difference
as a disjunct where the two share control flow.  The policy is `Decide` of PolicyGates, the very
operator that PolicyEngine checks.  Both files are truncated and then written, and
a process may be killed between the two (`Corrupt`), or between the broadcast and the save.

Sums are in dollars (USDC and USDT), in SOL, or in a coin run.ts cannot value; `AmountUsd` and `AmountSol` are what
the gate is told of them, from the quote in the context and from the summary of a transfer.  Whether and which slippage is known is
left open (`Policy`).  The gate reads the endpoint before its await (`said`), and the send looks it up again (`endpoint`).

### Scheduler and PlanRunner: compiled plans

`Scheduler` is `validate`, `topo_sort` and `compile` of the OCaml scheduler: operators on a workflow.
`PlanRunner` runs plans: the loop over ready steps, and each safe-swap process with its reads and writes of
the quote file, its expiry, and kills at any point.  Quote ids are the millisecond; two of
them may be equal.

### McpHost: the two-step swap of the MCP server

`AskQuote` holds the limits of config.yaml as it is then; the router of `solana_swap_exact_in` tries Jupiter and
falls back to Meteora (`RouteBuilds`) if the client said yes or left `allowFallback` out, or if `W3RT_ALLOW_JUPITER_FALLBACK` allows it for all (`MayFallBack`); `AskExecute` looks the quote up, and simulation, broadcast
and confirmation each end at an await, after which the quote is deleted by its id.  The
operator edits config.yaml; the process may be restarted.

### Monitor: the Meteora monitor

Requests and timers refresh the catalogue: `Fetch` reads the clock, `Serve` is the moment the indexer
looks at its own state, `Arrive` the synchronous update of catalogue and history, `Show` the
answer.  Between `Serve` and `Arrive` answers overtake one another.  A page may leave the fees of a pool out, which counts as
zero, or have something for them that is no number (`NaN`): such a pool is listed (`silent`) and keeps its history, but gets no snapshot (`Taken`).
`past`, `raced` and `gaps` are observers; `odd` counts the pages of this kind for the bound `MaxOdd`.

### The MC modules and the Proofs modules

The finite instances for TLC, and the theorems with their proofs.  SwapProofs proves about PlanRunner, its scheduler, and
McpHost, the three places where a quote and its execution are two steps; PlanProofs about PlanOrder and PlanCompile; each of the
others about the module it is named for.  `MCClients` holds three programs
that share no state - the plan runner, the MCP server, the monitor - and each behaviour is
one of one of them (`part`): their state spaces add up and do not multiply.

### Mutants

Beside an action or operator stands, where a property needs it, the form a plausible bug would give it
(`RecordEarly`, `RestartForgets`, `RefilledAgain`, ...).  No behaviour uses them: each shows,
put in its place, that a property notices the bug.  `PROJECT.json` pairs them.

## The runs

| run | question | bounds |
|---|---|---|
| exec_safety | Is what the daemon remembers, saves and answers on the chain; do done ids stay done; are blockhashes fresh; does the gate of the policy on disk hold; is the ledger implemented? | two handlers, one id, two clusters, one policy, three clock values, one restart |
| exec_live | Is every call answered and every artifact dropped, whatever the operator does to policy and cluster? | one handler, two clusters, one policy, one restart, three clock values |
| exec_oneshot | violation: two broadcasts of one preparedId | two handlers, one id, no restart |
| exec_failopen | violation: a failed simulation is broadcast without a policy | one handler |
| run_safety | Is status.json true, do its signatures stay, are steps offered in order? | two steps, two clients, two ids, torn writes, one restart |
| run_retryrace | violation: a retry during a confirmation makes the step executable twice | two clients, three ids, no restart |
| plan_order | Is every plan ordered in full, dependencies first, or refused for real cycles; does plan/compile prepare only what rests on allowed artifacts? | plans of up to three actions with up to two dependencies each, and every outcome of building and judging |
| policy | Can a stricter policy permit more, a failed look-up help; which gates does a confirmation not waive; do rules mean what they say? | up to two gates set, limits of 1 with contexts on both sides, conditions of depth two |
| runner | Do the broadcast history, cooldown and rate, simulation and the confirmation of large sums hold across runs? | two processes, seven combinations of workflow, coins, flavour and policy, a history of two, a minute of two ticks, three clock values, two endpoints |
| runner_stale | violation: a transaction passes the simulation gate on another's simulation | one process |
| resolver | Are answers for their intents and recent, does the better offer win, is upstream spared, is everybody served? | three requests in six situations, at most three intents, retries 2 and 1, times of two ticks, one slot |
| clients | Do compiled plans run through and send each quote once; does the MCP server send what it showed; does the monitor report the window? | some 480 workflows, two plan processes, two ticks; three MCP calls, three configurations, two requests, one restart; one pool, two viewers, one timer, five clock values, one page without a number |

Why the bounds suffice.  The races of the daemon are between two handlers, or between a handler
and a timer, a restart or the operator; ids do not share state except through the cache, so
one id with two handlers shows what can happen to an id, and `Kinds` need only be one because the gate looks at it through `Decide` alone.
Three clock values let an artifact (`Ttl` = 1) be prepared, be executed in time, and expire
while a handler is suspended, and let a cached blockhash (`HashTtl` = 1) be fresh and stale.  In
WorkflowRun two ids are a step and its retry, three add the dependent step.
Three actions of a plan are enough for an id to be given twice, to depend on itself, on a missing id and
twice on another, and for a cycle with an id behind it.  The policy looks at each limit once:
values below, at and above suffice, and a gate is hidden by one other gate.  In Runner a
history of two is full with the second broadcast, a rate of two per minute is hit by the
third, and the two processes may overlap or follow one another.  In Resolver one slot makes every second call queue; two ticks of a cool-down or a
cache have an inside and an edge; three intents let a venue's failures at the first
weigh in at the third.  In Monitor a catalogue good for one tick, a distance of
one, a window of two and a history of three let snapshots be too close, be in the window, and leave the window before they leave the history; two
viewers and a timer overlap in every order, and one page without a number is enough for a pool to fall silent.  PlanRunner's workflows are all ways a balance, a quote and an execution
may depend on one another, and what the scheduler treats apart.

`MaxTime`, `MaxClock` and `MaxTicks` stop a clock, `MaxBoots`, `MaxRestarts` and a situation's `maxCrashes` bound
the restarts and kills, `MaxFee` the fees, `MaxOdd` the pages in which some pool has no number; a prepare whose deadline lies beyond `MaxTime` is not started.

Deadlock is checked for DaemonExec and Resolver, which never stop.  It is not for WorkflowRun: a run that has ended, with all
its ids used up and no restart left, really stops; nor for PlanOrder, Policy, Runner and
Clients, where calls return and processes end.

Symmetry is used for handlers, clients, ids, blockhashes, processes and viewers in runs that check safety only.  The run clients
has a view, `ClientsView`, for the monitor: of `past` it keeps the entries a window can begin with, of an answer that was given whether it
is news, and once `raced` holds, after which `FeesOfTheWindow` asks nothing, it keeps of fees only which pools have a number, because `HistoryIsSpaced`
speaks of times.  What is left out decides no guard but those of `Earn` and `BotAnswers`, which touch neither times nor pools, so
states that agree in the view satisfy the same properties and have the same future in it.

### Fairness

`exec_live`: weak fairness of the continuation of each suspended handler: Node's event loop resumes it, an
HTTP request to the node answers or fails, and confirmTransaction is raced against
a timeout (1459-1464).  Weak fairness of the cleanup timer and of the clock.  None for clients, the
operator or crashes.  `SettleUntimed` shows that the timeout is needed.

`resolver`: weak fairness of every request's next step, because Node resumes handlers and every
fetch is aborted after a time, and of time, which refills the bucket.  Nothing makes the rate bucket or
the limiter fair: `AllAreServed` follows from the order of their queues.

## What is proved

DaemonExecProofs, for any number of handlers, ids, clusters, policies and restarts, and any decision function:

- `TypesAndRequests`: `TypeOK` and `RequestsOK`.  Together they are inductive.  `RequestsOK` is the
  strengthening: what a handler that is suspended may rely on, whatever ran meanwhile (its id was handed
  out, its signature is of this id, and after `landed` it is on the chain).
- `AnswersTheorem` (`AnswersAreOnChain`) rests on it: `Record` copies a signature of which
  `RequestsOK` says that it landed; `landed` only grows.
- `DiskTheorem` (`DiskBehindMemory`): boot loads the file, and only `Record` writes it, from memory.
- `CacheTheorem` and `SignedFreshTheorem`: the clock is read before the await, so whatever
  order answers come in, the stamp is not later than the blockhash.
- `RetiredTheorem` (`RetiredForever`), an action property: a frame lemma says for each action
  that it leaves an id that is retired alone.
- `LedgerTheorem` (`ImplementsLedger`): refinement.  Initial states map to initial states; each
  step maps to Open, Try, Land, Retire (with the ids that a tick of the clock, an answer, or a
  crash closes) or stutters.
- `QuietGateTheorem` (`QuietGate`): its invariant adds that the loaded policy is the one on
  disk, the cluster is that of every handler, and every handler past the gate was not blocked.

WorkflowRunProofs, for every plan that satisfies `PlanAssumption`, any number of clients and ids:

- `StatusTheorem` (`TypeOK`, `StatusIsTrue`).  The inductive invariant `Inv` adds what calls in
  flight know of their artifact, that an artifact was made for a step from the time it is opened, and that the executed map is on the chain.
- `OffersTheorem` (`OffersInOrder`): adds that a step without a result lies ahead in the order,
  so that `PlanAssumption` gives every dependency its result before the step.
- `SignaturesTheorem` (`SignaturesAreKept`), an action property, from `Inv`.

PlanProofs, for plans of every size:

- `OrderTheorem` (`DependenciesFirst`), `CompleteTheorem`, `CyclesTheorem` and from the two `RefusalTheorem`
  (`OrdersOrReports`), `TypeTheorem`.  The inductive invariant `Inv` says what the loops keep
  count of: `indeg` is the number of edges not yet met (`Counts`), and, of the ids the seeding has
  visited, exactly those at zero are in the queue or ordered (`Freed`), each in one place (`Once`).
- `AssumptionTheorem`: the order of an accepted plan satisfies `PlanAssumption` of WorkflowRun.

PlanProofs, for every outcome of building and judging in plan/compile:

- `ImplementsOrder`: plan/compile's behaviours are behaviours of PlanOrder, so its invariant may be used.
- `RestsTheorem` (`RestsOnAllowed`).  The invariant adds to PlanOrder's how far the loop is and that
  results are those of the ids before it (`Loop`).  A dependency stands before its dependent in the order, so its
  result is there when the dependent is looked at: this is where `DependenciesFirst` is needed.
- `CompileOrderTheorem`: `DependenciesFirst` holds in plan/compile.

PolicyProofs, for every configuration and every context, from `PolicyAssumption`:

- `ConfirmTheorem` (`ConfirmWaives`) and `UnknownTheorem` (`UnknownNeverHelps`): case analyses over the order
  of the gates.
- `StricterTheorem` (`StricterNeverPermits`): `GatesStayClosed` shows that a gate which stopped or asked still does,
  whatever field is made stricter, and `RuleBehind` that a rule put behind the others is asked only when none of them fires.
- `RulesTheorem` (`RulesMeanWhatTheySay`), for any set of comparisons and flags (`Leaves`) and any `Depth` of nesting.  The parser comes
  to an end (`ParserReads`): every method but the two that read a rest reads a token (`MethodMoves`), so its
  methods can be tabulated from the end of the tokens backwards (`OnePosition`, `BehindTheEnd`).  `AsComparison`, `AsNot`, `AsAnd` and `AsOr` say
  what a method makes of tokens wherever they stand, as long as no token follows that binds tighter; `NotOf`, `AndOf`, `OrOf` and `InParens` build
  them up as the author's expression is built, level by level (`AllRight`).  A chain of `and` or `or` reads the same however it was grouped.

ResolverProofs, for any number of requests, intents, venues' answers and slots, from `LimitsAssumption`
and `SetupsAssumption`:

- `LineTheorem` (`NobodyQueuesForNothing`) and `AnswersTheorem` (`AnswersTheIntent`), from the inductive invariant
  `Inv`: `Shape` is the kind of each variable; `Line` that the RPC limiter's `woken` counts the callers with a wake-up and that, if
  somebody waits, as many are in or woken as the limit allows; `Record` that every cached action is stored
  under the key of its own swap, and that what a request resolved belongs to intents it has passed, in their order and at most one action each.
- `RecentTheorem` (`CacheIsRecent`), an action property.  `Dated`: whoever stored an action resolved its swap no
  longer ago than the entry is old, which survives that another request resolves the same swap later.
- `OfferTheorem` (`NoBetterOfferLost`), an action property.  `Comparable`: offers weighed against each other have
  numbers to compare; `MoreIsBetter` and `PenaltyBounds` say what the rounding of the penalty in basis points can hide.
- `SparesTheorem` (`SparesUpstream`), an action property.  `Spares` is `Paces` (the bucket's `tokens` and the time since its
  last refill bound the observed `level`: a fetch takes a token that time had earned) and `Cools` (what is observed of a
  venue's calm is never more than the back-off knows); slots are counted by the calls that hold one.

MonitorProofs, for any number of pools, requests and timers, from `MonitorAssumption`:

- `HistoryTheorem` (`HistoryIsSpaced`).  A refresh carries a clock reading that may be older than the history's last
  snapshot; the invariant is that readings lie in the past and histories are spaced, and an old
  reading adds nothing because its distance from the last snapshot is negative, thus "too soon".
- `FeesTheorem` (`FeesOfTheWindow`), an action property.  `FeesInv`: what the indexer told never falls (`Grown`), every
  snapshot and every number under way was true at a moment between its clock reading and now unless it was left out (`Seen`), and, while
  refreshes have not raced, they end in the order they began (`Orderly`), so that the fees of snapshots rise; a pool that is not silent has
  a snapshot about as young as the catalogue, so an answer in time finds one in the window.

RunnerProofs, for any number of processes, any workflows and policies, from `StartsAssumption`
and `NumbersAssumption`:

- `HistoryTheorem` (`HistoryIsOrdered`), `SimulationTheorem` (`SimulatedIfFresh`) and `AmountsTheorem`
  (`AmountsConfirmed`), from the inductive invariant `Inv`.  The file is written from what a process
  remembers, so the invariant orders every process's own history, and says that it holds fewer entries than there were
  broadcasts while one is under way (`Remembers`).  A fresh context's simulation is that of its
  transaction (`Simulates`), and past the gate the policy's demands were met on the values the send will
  use, the user's answer in between included (`Asked`, `Agreed`).  For the network the send will use, `Routed` adds
  that while no other process is alive nothing moves the endpoint between the gate and the send.
- `CooldownTheorem` (`OwnCooldown`), with `Cool`: a process's own history ends no earlier than its last
  broadcast, the gate reads that end, and while the send is under way no broadcast of its own can come in between.
- `LimitsTheorem` (`LimitsWhenAlone`), with `Solo`: while runs follow one another and the file survives, the history of the
  run under way (or the file between runs) is the end of the list of all broadcasts, and what is missing was cut off by the
  cap, which holds more entries than the rate allows in a minute.
- `MovesOnTheorem` (`MovesOn`), with `Stands`: the index in the file, or the rotation that is being written, points away from the
  endpoint that failed last.

SwapProofs, for any number of MCP calls and plan runs and for every workflow, from `LimitsAssumption`, `OrderAssumption` and
`WorkflowsAssumption`:

- `SwapsTheorem` (`SwapsAsShown`), from `HostInv`: a quote was within limits and on a route that its client or the environment
  allowed when it was made (`Proper`), and one that is not in doubt (no execution of it overlapped another or broke off) is executed by one call at a time and is in the store or has been handed over, not both (`Once`).
- `BracketTheorem` (`SwapsAreBracketed`), from `PlanInv`: what a run has done is closed under dependencies, and
  `PlanFacts` says what the compiled dependencies are.
- `SentTheorem` (`SentOnce`) and `OwnQuoteTheorem` (`ExecutesItsQuote`: the last quote of its own run), from `QuoteInv`: a quote that was sent is in no file and in no copy
  any process holds, except with the process that deletes it, as long as nothing broke and no two processes shared the file.
- `RefusedTheorem` (`CyclesAreRefused`), for workflows of any length.  The scheduler's rounds only grow and so stand still after as
  many rounds as there are actions (`Stalls`).  What came out then has no descending chain (`NoDescent`), and what did not
  come out contains, among the ids with the fewest ids below them, one that lies below itself (`StuckIsCyclic`).
- `CarriedTheorem` (`StuckOnlyByOwnBalance`).  `PlansCarry`: a run has every step of its plan on its list or among those done.  A run that is stuck
  would hold ids of which each waits for another (`NobodyWaits`): not below balance_before, hence not below an execution, hence nowhere.

The recursion in both, and in the parser of rules, is that of a function: its table is shown to exist by induction over the
numbers, which `StepByStep` states for a set of numbers, because a theorem with an operator parameter cannot be instantiated.

The assumptions are the named `ASSUME`s of the modules: the constants are of their kind,
`None` and `Corrupt` are not values, whether a transaction was simulated is known to its caller, workflows are arrays, a bucket holds at least a token, and the plan is ordered.  TLC evaluates them in every run.

Only model-checked: the three liveness properties, because liveness under fairness is beyond this prover.

## What the code does not keep

Shown by runs that find a violation:

- `OneShot`: "one-shot use by default" (3466).  `executed` is read before the awaits and written after them.
- `FailsClosed`: "fail-closed policies on mainnet" (README.md:20).  No policy engine means allow.
- `SameAnswer` with two clients: "If already executed for this run+step, return
  idempotently" (2789).  The status update looks the step up by a preparedId that a retry has replaced.
- `SimulatedBeforeSent`: "policy should require simResult.ok == true artifact" (docs/policy.md:31).  `ctx.simulation` is that of
  the last simulation of the run, not of this transaction.

Met while modelling; the models do what the code does, and the properties above leave these cases out
where they say so:

- Policy: the question about a large amount (engine.ts:110-130) comes before the demand for a simulated slippage (:135;
  types.ts:30 "require a simulation-derived slippage estimate"), and every question about a limit before the rules (:165): the user's yes to
  the one waives the others, rules that block among them.  `ConfirmWaives` says what is left.
- Execute path: an artifact simulated on one cluster is judged by that simulation and sent on the cluster configured today, and under
  today's policy; `QuietGate` leaves such changes out.  retry_v0 does not
  apply the cap of 100 USDC (2491).
- plan/compile: a driver call that throws leaves the artifacts made so far in the prepared map;
  denied artifacts are stored too, and execute decides about them anew.  Artifacts of every chain are stored as chain "solana".
- Resolver: the token bucket is commented "Global", but it, the back-off, the statistics and the quote
  slots belong to one request.  run_v0 asks pools without back-off or slots.  A cached
  action carries the `dependsOn` of the request that made it.  Intents that could not be resolved are dropped,
  so what depends on them runs.  A bucket that was full drops a remainder late, which may grant part of a
  token more.  A newcomer that overtakes a woken caller lets one call more than `max` run.
- Runner: `runner.ts` gives the policy no amounts (docs/policy.md:33-35); requireApproval, maxDailyVolumeUsd,
  requireConfirmation and testnet.enabled are never read (docs/mvp-solana.md:16).  Cooldown and rate are lost when runs overlap or the
  answer of a broadcast is lost.  A rate above the 1000 entries the file keeps is never reached.  A fail-over to a URL without "mainnet" in it switches the mainnet gates off.
  The gate judges the network of the endpoint it reads (runner.ts:431), the send looks the endpoint up again (tools/solana.ts:705): if another
  process rotates in between, a transaction the gate took for one of a test network goes to mainnet without a simulation.  `SimulatedIfFresh` excludes it.
  run.ts knows the amount of USDC, USDT and SOL (run.ts:1033-1081): any sum of another coin is sent unasked.
  Two processes that fail on one endpoint rotate twice (`MovesOn` excludes overlapping runs).  Extra signers left in the context make a
  later send throw.  A quote of an earlier action hides a transfer's dollars.  run.ts executes the actions of
  approval stages with `required: false`, engine.ts does not; run.ts knows no `!=` in `when`; without policy.yaml it
  runs without a gate.  Stages that wait for approval end without onStageEnd.
- Scheduler and plan runner: a dependency written twice is refused as a cycle.  A balance_before of one's own
  that depends on a quote, or a balance_after of one's own that an execution waits for, compiles to a plan that never goes
  on: compile.ml:44-91 lets them wait for each other, and nothing validates the plan.  (The proof of `StuckOnlyByOwnBalance` found the second.)  A step without quoteId takes the last quote of
  the run, whatever it depends on (w3rt_plan_run.mjs:175).  Quote ids collide within a millisecond.  Two processes on the quote file lose quotes or bring
  used ones back, and a kill between the send and the write leaves a quote that can be
  executed again (skills/w3rt-swap-safe/SKILL.md:52); `SentOnce` excludes these.  A confirmation with `ok: false` counts as a step done.  `verify` fails for every
  artifact of a plan compiled without --policy, because swap.json always carries a policyHash (main.ml:167-178, w3rt_swap_safe.mjs:298).
- MCP server: allowFallback is true unless given (mcp-server.ts:361), where its schema says "Default false
  (conservative)" (:188): a client that leaves it out is given Meteora when Jupiter fails.  Two executions of a quote that overlap
  hand it over twice (:441-494); `SwapsAsShown` excludes them.  Limits are not looked at again when a quote is executed; the caps in USDC and USDT look at the
  symbol (:344-355).  The Solana configuration is read once, the wallet and the policy at every call.  meteora_top_pools reads
  `data.result` where the daemon answers `pools`, and asks for windows (24h, 1h) that the daemon takes for 15 minutes.
- Meteora monitor: when refreshes overlap, a snapshot may hold fees older or newer than its time, and fees of a window may
  come out negative.  If no snapshot lies in the window, the whole history counts (893): a pool the indexer
  goes on listing without a number for its fees keeps its history without new snapshots (855), and is soon shown with fees of before
  the window.  Fees that are left out count as zero (852), which may make the difference negative.  An answer of the indexer that is not a list wipes all history.  The telegram
  endpoint shows a half that failed as empty, with ok: true.

## Plan

In the order of the first plan: BroadcastLedger, DaemonExec, WorkflowRun and PlanOrder with their proofs
came first; then the policy, the resolver with the limiter, the runner with
the workflow engine and the fail-over, plan/compile, the scheduler with the plan runner, the MCP server and the monitor.

Then the proofs: of every safety and action property that the passing runs check.

Left: the remaining flavours of
run.ts (replay and dry-run).

## Not modelled

- Chain drivers, adapters, tools of other chains: pure I/O.  Their outcomes are inputs of the models.
- Trace store, query and replay: append-only files that nothing modelled reads.  That an append may throw is modelled
  where it cuts a handler short.
- pi extension, command line, API server, chat command line, demos: clients of what is modelled, without state of their own.
- spec.ts (defaults and validation of policy.yaml), templates and YAML of workflows, profiles, memory records, artifact
  hashes: text in, text out.
- Endpoints of the daemon that only read or answer with text (metrics, traces, balances, strategies, policy/from_text), and the commands verify, diff and explain of the scheduler.
- In the runner: replay, dry-run and EVM tools of run.ts.
- Floating-point numbers: amounts, slippages and scores are small integers, with the code's rounding where it matters (Quotes).
