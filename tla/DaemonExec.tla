----------------------------- MODULE DaemonExec -----------------------------
(***************************************************************************)
(* The broadcast path of the w3rt daemon (packages/runtime/src/daemon.ts). *)
(*                                                                         *)
(* A client prepares a transaction, gets a preparedId, and later asks the  *)
(* daemon to execute it.  Three handlers execute: transfer/execute,        *)
(* actions/execute and workflows/confirm_v0; they share one body, whose    *)
(* synchronous stretches are the actions below and whose awaits are the    *)
(* program counters a request can rest at, with every other handler, the   *)
(* cleanup timer, the operator and a crash free to run in between:         *)
(*                                                                         *)
(*   idle -> fetching -> sending -> landed -> (settling) -> idle           *)
(*                                                                         *)
(* Time is counted in slots, and the cluster's newest blockhash is named   *)
(* after the slot that made it.                                            *)
(***************************************************************************)
EXTENDS Integers, FiniteSets

CONSTANTS
  Reqs,          \* request slots: how many handlers can be suspended at once
  Ids,           \* the UUIDs randomUUID may return
  Kinds,         \* what the policy sees of a transaction: action and programs
  Networks,      \* the clusters resolveSolanaRpc may point at
  Policies,      \* the policy configurations an operator may load
  Decide,        \* what PolicyEngine.decide answers to a broadcast in each context
  Moves,         \* which of these the operator does: "apply", "edit", "switch"
  Ttl,           \* ttlMs: how long a prepared artifact stays executable
  HashTtl,       \* BLOCKHASH_TTL_MS
  HashLife,      \* how long the cluster accepts a blockhash
  MaxTime,       \* bound: the clock stops here
  MaxBoots,      \* bound: how many times the process restarts
  None, Corrupt  \* no value; an unreadable file

Decisions == {"allow", "warn", "confirm", "block"}
Contexts  == Policies \X Networks \X Kinds \X BOOLEAN

ASSUME TimesAssumption == Ttl \in Nat \ {0} /\ HashTtl \in Nat /\ HashLife \in Nat
ASSUME BoundsAssumption == MaxTime \in Nat /\ MaxBoots \in Nat
ASSUME DecideAssumption == Decide \in [Contexts -> Decisions]
VARIABLES
  now,         \* Date.now()
  net,         \* the cluster the operator's Solana configuration points at
  policy,      \* the loaded engine, or None
  policyFile,  \* policy.yaml: a configuration, None (absent) or Corrupt
  item,        \* the artifact stored under an id when it was handed out
  prepared,    \* the keys of the prepared map
  executed,    \* the executed map: id -> signature
  file,        \* executed.json: a saved executed map, or Corrupt
  cache,       \* blockhashCache, or None while it is empty
  req,         \* the requests
  told,        \* the signatures the daemon has returned to clients
  landed,      \* the signatures the clusters have accepted
  boots        \* how often the process has started

vars == <<now, net, policy, policyFile, item, prepared, executed, file, cache,
          req, told, landed, boots>>

-----------------------------------------------------------------------------
Times == 0 .. MaxTime

Hash == [net: Networks, slot: Times]

\* ed25519 is deterministic: one message and one blockhash, one signature.
Signature == [id: Ids, hash: Hash]

Item == [kind: Kinds, net: Networks, simOk: BOOLEAN, expiresAt: Times]

\* None and Corrupt stand for the absence of a value.
ASSUME NoneAssumption ==
  /\ None \notin Ids \cup Kinds \cup Networks \cup Policies \cup Item \cup Signature
  /\ None \notin [value: Hash, ts: Times]
  /\ Corrupt \notin Policies \cup {None} \cup [Ids -> Signature \cup {None}]

Pcs == {"idle", "fetching", "building", "sending", "landed", "settling"}

Request == [pc: Pcs, op: {"prepare", "execute"}, kind: Kinds \cup {None},
            id: Ids \cup {None}, net: Networks \cup {None}, asked: Times,
            wait: BOOLEAN, sig: Signature \cup {None}]

\* A slot whose handler has called sendJson (or that was never used).
Idle == [pc |-> "idle", op |-> "execute", kind |-> None, id |-> None, net |-> None,
         asked |-> 0, wait |-> FALSE, sig |-> None]

NoneExecuted == [id \in Ids |-> None]

Sign(id, hash) == [id |-> id, hash |-> hash]

\* item.expiresAt <= Date.now()
Expired(id) == item[id].expiresAt <= now

\* Mutant of CacheFresh: off by one.
CacheFreshLong == cache # None /\ now - cache.ts <= HashTtl

\* The first test of getLatestBlockhashCached.
CacheFresh == cache # None /\ now - cache.ts < HashTtl

-----------------------------------------------------------------------------
Init ==
  /\ now = 0 /\ boots = 1
  /\ net \in Networks
  /\ policyFile \in Policies \cup {None, Corrupt}
  /\ policy = IF policyFile = Corrupt THEN None ELSE policyFile
  /\ item = [id \in Ids |-> None]
  /\ prepared = {}
  /\ executed = NoneExecuted /\ file = NoneExecuted
  /\ cache = None
  /\ req = [r \in Reqs |-> Idle]
  /\ told = {} /\ landed = {}

daemonVars == <<policy, policyFile, item, prepared, executed, file>>
worldVars  == <<now, net, landed, boots>>

\* sendJson: the slot is free for the client's next call.
Answer(r) == req' = [req EXCEPT ![r] = Idle]

-----------------------------------------------------------------------------
(* Prepare: transfer/prepare and actions/prepare.  Only the transfer handler *)
(* asks for a blockhash; both build and simulate before they store.          *)

PrepareBegin(r, kind, transfer) ==
  /\ req[r].pc = "idle"
  /\ req' = [req EXCEPT ![r] =
       [Idle EXCEPT
          !.op = "prepare", !.pc = IF transfer /\ ~CacheFresh THEN "fetching" ELSE "building",
          !.kind = kind, !.net = net,
          !.asked = IF transfer /\ ~CacheFresh THEN now ELSE 0]]
  /\ UNCHANGED <<daemonVars, worldVars, cache, told>>

\* The synchronous end of a prepare: the policy's decision (for sideEffect "none")
\* is reported to the client and kept nowhere; the artifact is stored under a fresh
\* id whatever the decision.
PrepareFinish(r, id, simOk) ==
  LET q == req[r]
  IN  /\ q.pc = "building"
      /\ item[id] = None
      /\ now + Ttl <= MaxTime
      /\ item' = [item EXCEPT ![id] =
           [kind |-> q.kind, net |-> q.net, simOk |-> simOk, expiresAt |-> now + Ttl]]
      /\ prepared' = prepared \cup {id}
      /\ Answer(r)
      /\ UNCHANGED <<policy, policyFile, executed, file, cache, told, worldVars>>

\* buildTx or the simulation throws: the outer catch answers 500.
PrepareError(r) ==
  /\ req[r].pc = "building"
  /\ Answer(r)
  /\ UNCHANGED <<daemonVars, worldVars, cache, told>>

-----------------------------------------------------------------------------
(* Execute: everything up to the first await runs in one piece.  A refused    *)
(* call changes nothing.                                                     *)

AnswerAtOnce(r) ==
  /\ req[r].pc = "idle"
  /\ Answer(r)
  /\ UNCHANGED <<policy, policyFile, item, executed, file, cache, worldVars>>

Refuse(r) == AnswerAtOnce(r) /\ UNCHANGED <<prepared, told>>

\* CONFIRM_REQUIRED: the body lacks confirm: true.
ExecuteUnconfirmed(r) == Refuse(r)

ExecuteRepeated(r, id) ==
  /\ executed[id] # None
  /\ AnswerAtOnce(r)
  /\ told' = told \cup {[asked |-> id, sig |-> executed[id]]}
  /\ UNCHANGED prepared

ExecuteUnknown(r, id) ==
  /\ executed[id] = None /\ id \notin prepared
  /\ Refuse(r)

\* GET /v1/artifacts refuses an expired id in the same way, executed or not.
RefuseExpired(r, id) ==
  /\ id \in prepared /\ Expired(id)
  /\ AnswerAtOnce(r)
  /\ prepared' = prepared \ {id}
  /\ UNCHANGED told

Executable(id) == executed[id] = None /\ id \in prepared /\ ~Expired(id)

ExecuteNoKeypair(r, id) ==
  /\ Executable(id)
  /\ Refuse(r)

\* Mutant of Verdict: the simulation of the artifact is not handed to the policy.
VerdictUnsimulated(id) ==
  IF policy = None THEN "allow" ELSE Decide[<<policy, net, item[id].kind, TRUE>>]

\* The gate of the broadcast: the policy loaded now, the cluster configured now,
\* the simulation stored at prepare time.
\* Without a policy everything is allowed.
Verdict(id) ==
  IF policy = None THEN "allow" ELSE Decide[<<policy, net, item[id].kind, item[id].simOk>>]

ExecuteBlocked(r, id) ==
  /\ Executable(id) /\ Verdict(id) = "block"
  /\ Refuse(r)

\* Mutant of ExecuteAccepted: the deadline is left to the cleanup timer.
ExecuteAcceptedLate(r, id, wait) ==
  /\ req[r].pc = "idle"
  /\ executed[id] = None /\ id \in prepared /\ Verdict(id) # "block"
  /\ req' = [req EXCEPT ![r] =
       [Idle EXCEPT !.pc = "fetching", !.id = id, !.net = net, !.wait = wait, !.asked = now]]
  /\ UNCHANGED <<daemonVars, worldVars, cache, told>>

\* The gate is passed.  A fresh cached blockhash goes straight into the message,
\* which is signed and handed to sendTransaction; otherwise the handler awaits
\* getLatestBlockhash.
ExecuteAccepted(r, id, wait) ==
  /\ req[r].pc = "idle"
  /\ Executable(id) /\ Verdict(id) # "block"
  /\ req' = [req EXCEPT ![r] =
       [Idle EXCEPT
          !.pc = IF CacheFresh THEN "sending" ELSE "fetching",
          !.id = id, !.net = net, !.wait = wait,
          !.asked = IF CacheFresh THEN 0 ELSE now,
          !.sig = IF CacheFresh THEN Sign(id, cache.value) ELSE None]]
  /\ UNCHANGED <<daemonVars, worldVars, cache, told>>

-----------------------------------------------------------------------------
(* The answers of the RPC node.                                              *)

\* Mutant of BlockhashAnswer: the cache is stamped when the answer is in.
BlockhashAnswerStampedLate(r, slot) ==
  LET q == req[r]
      hash == [net |-> q.net, slot |-> slot]
  IN  /\ q.pc = "fetching"
      /\ slot \in q.asked .. now
      /\ cache' = [value |-> hash, ts |-> now]
      /\ req' = [req EXCEPT ![r] =
           IF q.op = "prepare"
             THEN [q EXCEPT !.pc = "building", !.asked = 0]
             ELSE [q EXCEPT !.pc = "sending", !.asked = 0, !.sig = Sign(q.id, hash)]]
      /\ UNCHANGED <<daemonVars, worldVars, told>>

\* The node read its newest blockhash at some moment of the call; the cache is
\* stamped with the moment the call was made.
BlockhashAnswer(r, slot) ==
  LET q == req[r]
      hash == [net |-> q.net, slot |-> slot]
  IN  /\ q.pc = "fetching"
      /\ slot \in q.asked .. now
      /\ cache' = [value |-> hash, ts |-> q.asked]
      /\ req' = [req EXCEPT ![r] =
           IF q.op = "prepare"
             THEN [q EXCEPT !.pc = "building", !.asked = 0]
             ELSE [q EXCEPT !.pc = "sending", !.asked = 0, !.sig = Sign(q.id, hash)]]
      /\ UNCHANGED <<daemonVars, worldVars, told>>

BlockhashError(r) ==
  /\ req[r].pc = "fetching"
  /\ Answer(r)
  /\ UNCHANGED <<daemonVars, worldVars, cache, told>>

\* The cluster accepts the transaction: it knows the blockhash, and a signature
\* it has seen before changes nothing.
Land(r) ==
  LET q == req[r]
  IN  /\ q.pc = "sending"
      /\ q.sig.hash.net = q.net
      /\ now - q.sig.hash.slot <= HashLife
      /\ landed' = landed \cup {q.sig}
      /\ req' = [req EXCEPT ![r].pc = "landed"]
      /\ UNCHANGED <<daemonVars, now, net, boots, cache, told>>

\* Preflight or the connection fails before anything is accepted.
SendRejected(r) ==
  /\ req[r].pc = "sending"
  /\ Answer(r)
  /\ UNCHANGED <<daemonVars, worldVars, cache, told>>

\* The transaction was accepted and the answer of the node is lost.
SendAnswerLost(r) ==
  /\ req[r].pc = "landed"
  /\ Answer(r)
  /\ UNCHANGED <<daemonVars, worldVars, cache, told>>

\* Mutant of Record: executed.set runs before sendTransaction has returned.
RecordEarly(r) ==
  LET q == req[r]
  IN  /\ q.pc \in {"sending", "landed"}
      /\ executed' = [executed EXCEPT ![q.id] = q.sig] /\ file' = executed'
      /\ Answer(r)
      /\ told' = told \cup {[asked |-> q.id, sig |-> q.sig]}
      /\ prepared' = prepared \ {q.id}
      /\ UNCHANGED <<policy, policyFile, item, cache, worldVars>>

\* Mutant of Record: a transfer that waits records its signature when it is confirmed.
RecordAfterConfirm(r) ==
  LET q == req[r]
  IN  /\ q.pc = "landed" /\ q.wait
      /\ req' = [req EXCEPT ![r].pc = "settling"]
      /\ UNCHANGED <<daemonVars, worldVars, cache, told>>

\* sendTransaction returned: executed.set, persistExecuted (best-effort: a failed
\* write leaves the old file, or a truncated one), then prepared.delete, which
\* only a transfer that waits for its confirmation postpones.  Around the delete
\* the trace is written: if that throws, the client is told nothing.
Record(r) ==
  LET q == req[r]
  IN  /\ q.pc = "landed"
      /\ executed' = [executed EXCEPT ![q.id] = q.sig]
      /\ file' \in {executed', file, Corrupt}
      /\ IF q.wait
           THEN /\ req' = [req EXCEPT ![r].pc = "settling"]
                /\ UNCHANGED <<prepared, told>>
           ELSE /\ Answer(r)
                /\ \/ /\ told' = told \cup {[asked |-> q.id, sig |-> q.sig]}
                      /\ prepared' = prepared \ {q.id}
                   \/ prepared' \in {prepared, prepared \ {q.id}} /\ UNCHANGED told
      /\ UNCHANGED <<policy, policyFile, item, cache, worldVars>>

\* Mutant of Settle: no timeout, and no confirmation once the blockhash is old.
SettleUntimed(r) ==
  /\ req[r].pc = "settling" /\ now <= req[r].sig.hash.slot
  /\ prepared' = prepared \ {req[r].id}
  /\ Answer(r)
  /\ told' = told \cup {[asked |-> req[r].id, sig |-> req[r].sig]}
  /\ UNCHANGED <<policy, policyFile, item, executed, file, cache, worldVars>>

\* confirmTransaction answers, fails, or loses the race against its timeout.
Settle(r) ==
  /\ req[r].pc = "settling"
  /\ prepared' = prepared \ {req[r].id}
  /\ Answer(r)
  /\ told' = told \cup {[asked |-> req[r].id, sig |-> req[r].sig]}
  /\ UNCHANGED <<policy, policyFile, item, executed, file, cache, worldVars>>

-----------------------------------------------------------------------------
(* The timer, the operator, the clock and the process.                       *)

\* Mutant of Cleanup: only what was executed is swept.
CleanupExecuted ==
  /\ \E id \in prepared : Expired(id) /\ executed[id] # None
  /\ prepared' = {id \in prepared : ~(Expired(id) /\ executed[id] # None)}
  /\ UNCHANGED <<policy, policyFile, item, executed, file, cache, req, told, worldVars>>

Cleanup ==
  /\ \E id \in prepared : Expired(id)
  /\ prepared' = {id \in prepared : ~Expired(id)}
  /\ UNCHANGED <<policy, policyFile, item, executed, file, cache, req, told, worldVars>>

\* policy/apply and policy/reset: write policy.yaml, then load it.
ApplyPolicy(p) ==
  /\ policyFile' = p /\ policy' = p
  /\ UNCHANGED <<item, prepared, executed, file, cache, req, told, worldVars>>

\* The operator edits policy.yaml by hand, or policy/apply fails in the middle of
\* its write; the daemon notices at its next boot.
EditPolicyFile(f) ==
  /\ policyFile' = f
  /\ UNCHANGED <<policy, item, prepared, executed, file, cache, req, told, worldVars>>

\* `solana config set` between two requests.
SwitchNetwork(n) ==
  /\ n # net /\ net' = n
  /\ UNCHANGED <<daemonVars, now, landed, boots, cache, req, told>>

Tick ==
  /\ now < MaxTime /\ now' = now + 1
  /\ UNCHANGED <<daemonVars, net, landed, boots, cache, req, told>>

\* Mutants of Restart: prepared artifacts survive it; executed.json is not loaded;
\* an unreadable executed.json is taken as it is.
RestartKeepsPrepared ==
  /\ boots < MaxBoots /\ boots' = boots + 1
  /\ policy' = IF policyFile = Corrupt THEN None ELSE policyFile
  /\ cache' = None
  /\ executed' = IF file = Corrupt THEN NoneExecuted ELSE file
  /\ req' = [r \in Reqs |-> Idle]
  /\ UNCHANGED <<policyFile, item, prepared, file, now, net, told, landed>>

RestartForgets ==
  /\ boots < MaxBoots /\ boots' = boots + 1
  /\ policy' = IF policyFile = Corrupt THEN None ELSE policyFile
  /\ prepared' = {} /\ cache' = None /\ executed' = NoneExecuted
  /\ req' = [r \in Reqs |-> Idle]
  /\ UNCHANGED <<policyFile, item, file, now, net, told, landed>>

\* The process dies and starts again.  Whatever was suspended is gone, a kill in
\* the middle of persistExecuted leaves a truncated executed.json, and an
\* unreadable one counts as empty.
Restart ==
  /\ boots < MaxBoots /\ boots' = boots + 1
  /\ policy' = IF policyFile = Corrupt THEN None ELSE policyFile
  /\ prepared' = {} /\ cache' = None
  /\ \/ file' = file
     \/ (\E r \in Reqs : req[r].pc = "landed") /\ file' = Corrupt
  /\ executed' = IF file' = Corrupt THEN NoneExecuted ELSE file'
  /\ req' = [r \in Reqs |-> Idle]
  /\ UNCHANGED <<policyFile, item, now, net, told, landed>>

-----------------------------------------------------------------------------
Prepare(r) ==
  \/ \E kind \in Kinds, transfer \in BOOLEAN : PrepareBegin(r, kind, transfer)
  \/ \E id \in Ids, simOk \in BOOLEAN : PrepareFinish(r, id, simOk)
  \/ PrepareError(r)

Execute(r) ==
  \/ ExecuteUnconfirmed(r)
  \/ \E id \in Ids : \/ ExecuteRepeated(r, id)
                     \/ ExecuteUnknown(r, id)
                     \/ RefuseExpired(r, id)
                     \/ ExecuteNoKeypair(r, id)
                     \/ ExecuteBlocked(r, id)
                     \/ \E wait \in BOOLEAN : ExecuteAccepted(r, id, wait)

Blockhash(r) == BlockhashError(r) \/ \E slot \in 0 .. now : BlockhashAnswer(r, slot)
Send(r)      == Land(r) \/ SendRejected(r)
SendEnds(r)  == Record(r) \/ SendAnswerLost(r)

Operator ==
  \/ "apply" \in Moves /\ \E p \in Policies : ApplyPolicy(p)
  \/ "edit" \in Moves /\ \E f \in Policies \cup {None, Corrupt} : EditPolicyFile(f)
  \/ "switch" \in Moves /\ \E n \in Networks : SwitchNetwork(n)

Next ==
  \/ \E r \in Reqs : \/ Prepare(r) \/ Execute(r) \/ Blockhash(r)
                     \/ Send(r) \/ SendEnds(r) \/ Settle(r)
  \/ Cleanup \/ Operator \/ Tick \/ Restart

Spec == Init /\ [][Next]_vars

\* Node's event loop runs every continuation; an RPC call over HTTP ends in an
\* answer or an error; confirmTransaction races a timeout; the cleanup timer and
\* the clock do not stop.
Fairness ==
  /\ \A r \in Reqs :
       /\ WF_vars(Blockhash(r))
       /\ WF_vars(PrepareError(r) \/ \E id \in Ids, ok \in BOOLEAN : PrepareFinish(r, id, ok))
       /\ WF_vars(Send(r)) /\ WF_vars(SendEnds(r)) /\ WF_vars(Settle(r))
  /\ WF_vars(Cleanup) /\ WF_vars(Tick)

FairSpec == Spec /\ Fairness
-----------------------------------------------------------------------------
(* Properties.                                                               *)

TypeOK ==
  /\ now \in Times /\ boots \in Nat
  /\ net \in Networks
  /\ policy \in Policies \cup {None}
  /\ policyFile \in Policies \cup {None, Corrupt}
  /\ item \in [Ids -> Item \cup {None}]
  /\ prepared \subseteq {id \in Ids : item[id] # None}
  /\ executed \in [Ids -> Signature \cup {None}]
  /\ file \in [Ids -> Signature \cup {None}] \cup {Corrupt}
  /\ cache \in [value: Hash, ts: Times] \cup {None}
  /\ req \in [Reqs -> Request]
  /\ told \subseteq [asked: Ids, sig: Signature]
  /\ landed \subseteq Signature

\* What a suspended handler relies on when it resumes, whatever ran meanwhile: its
\* id was handed out, it carries a signature of that id from signing on, and once
\* sendTransaction has returned the signature is on the chain.
RequestOK(r) ==
  LET q == req[r] IN
  /\ q.pc = "idle" => q = Idle
  /\ q.pc = "building" => q.op = "prepare"
  /\ q.pc \in {"fetching", "building"} => q.sig = None /\ q.asked <= now
  /\ q.op = "prepare" => q.pc \in {"fetching", "building"} /\ q.kind \in Kinds
  /\ q.op = "execute" /\ q.pc # "idle" => q.id \in Ids /\ item[q.id] # None
  /\ q.pc # "idle" => q.net \in Networks
  /\ q.pc \in {"sending", "landed", "settling"} => q.sig \in Signature /\ q.sig.id = q.id
  /\ q.pc \in {"landed", "settling"} => q.sig \in landed
  /\ q.pc = "settling" => executed[q.id] # None

RequestsOK == \A r \in Reqs : RequestOK(r)

OnChain(sigs) == \A id \in Ids : sigs[id] # None => sigs[id] \in landed /\ sigs[id].id = id

\* A signature the daemon remembers, has saved, or has told a client is a
\* transaction of that preparedId which the cluster did accept: executed.set
\* comes after sendTransaction, and a restart brings back nothing else.
AnswersAreOnChain ==
  /\ OnChain(executed)
  /\ file # Corrupt => OnChain(file)
  /\ \A answer \in told : answer.sig \in landed /\ answer.sig.id = answer.asked

\* executed.json never knows an execution the running process has forgotten:
\* boot loads the file before anything may overwrite it.
DiskBehindMemory ==
  file # Corrupt => \A id \in Ids : file[id] # None => executed[id] # None

\* The time stamp of the blockhash cache is never later than the blockhash, so
\* an entry that looks fresh is fresh, also when fetches overlap and answer out
\* of order (getLatestBlockhashCached reads the clock before its await).
CacheStampIsEarly ==
  cache # None => cache.ts <= cache.value.slot /\ cache.value.slot <= now

\* The handler in slot r has passed the gate and may still broadcast, or already
\* has, and the daemon does not remember it yet.
Executing(r) == req[r].op = "execute" /\ req[r].pc \in {"fetching", "sending", "landed"}

InFlight(id) == \E r \in Reqs : Executing(r) /\ req[r].id = id

\* Handed out once, no longer executable, and nobody is executing it.
Retired(id) == item[id] # None /\ ~Executable(id) /\ ~InFlight(id)

LandedOf(id) == {sig \in landed : sig.id = id}

StaysRetired ==
  \A id \in Ids : Retired(id) => Retired(id)' /\ LandedOf(id)' = LandedOf(id)

\* The idempotency the daemon does give: once a preparedId was executed, has
\* expired, or was lost in a restart, and no handler is in the middle of it, no
\* later call, retry, crash or unreadable executed.json puts another
\* transaction of it on the chain.
RetiredForever == [][StaysRetired]_vars

SignsFresh ==
  \A r \in Reqs : req[r].sig = None /\ req'[r].pc = "sending" =>
    LET slot == req'[r].sig.hash.slot
    IN  IF req[r].pc = "fetching" THEN slot >= req[r].asked ELSE now - slot < HashTtl

\* A transaction is signed with a blockhash that is younger than the time to
\* live of the cache, unless its own fetch of it took longer.
SignedFresh == [][SignsFresh]_vars

\* While the operator leaves the policy and the cluster alone, nothing lands that
\* the policy on disk would block: the artifact may have been prepared under any
\* decision, wait across other calls, and be executed after restarts.
QuietGate ==
  Moves = {} /\ policyFile \in Policies =>
    \A sig \in landed :
      Decide[<<policyFile, sig.hash.net, item[sig.id].kind, item[sig.id].simOk>>] # "block"

\* Every call of a client is answered: no handler stays suspended.
EveryCallAnswered == \A r \in Reqs : req[r].pc # "idle" ~> req[r].pc = "idle"

\* No artifact stays in memory: executing it, its deadline or a restart drops it.
PreparedIsDropped == \A id \in Ids : id \in prepared ~> id \notin prepared

\* The promise of BroadcastLedger, kept by this specification.
Ledger == INSTANCE BroadcastLedger WITH
  Callers <- Reqs,
  Hashes  <- Hash,
  status  <- [id \in Ids |-> IF item[id] = None THEN "new"
                             ELSE IF Executable(id) THEN "open" ELSE "closed"],
  trying  <- [r \in Reqs |-> IF Executing(r) THEN req[r].id ELSE None]

\* The execute path implements the ledger: an id is opened once, closed once, and
\* tried only while it is open.
ImplementsLedger == Ledger!Spec

-----------------------------------------------------------------------------
(* What the repository says and the code does not do.                        *)

\* "one-shot use by default" (daemon.ts, actions/execute): a preparedId is
\* executed at most once.
OneShot == \A id \in Ids : Cardinality(LandedOf(id)) <= 1

\* "Safe defaults: fail-closed policies on mainnet" (README.md): without a loaded
\* policy nothing whose simulation failed lands on mainnet.
FailsClosed ==
  \A sig \in landed : sig.hash.net = "mainnet" => item[sig.id].simOk
=============================================================================
