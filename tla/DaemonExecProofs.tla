-------------------------- MODULE DaemonExecProofs --------------------------
(* Theorems about DaemonExec, for every value of its constants. *)
EXTENDS DaemonExec, TLAPS

USE TimesAssumption, BoundsAssumption, DecideAssumption, NoneAssumption

-----------------------------------------------------------------------------
LEMMA IdleIsRequest == Idle \in Request
  BY DEF Idle, Request, Pcs, Times

LEMMA ZeroIsTime == 0 \in Times
  BY DEF Times

LEMMA AdvancedRequest ==
  ASSUME NEW q \in Request
  PROVE  /\ [q EXCEPT !.pc = "building", !.asked = 0] \in Request
         /\ [q EXCEPT !.pc = "landed"] \in Request
         /\ [q EXCEPT !.pc = "settling"] \in Request
  BY ZeroIsTime DEF Request, Pcs

LEMMA SignedRequest ==
  ASSUME NEW q \in Request, NEW sig \in Signature
  PROVE  [q EXCEPT !.pc = "sending", !.asked = 0, !.sig = sig] \in Request
  BY ZeroIsTime DEF Request, Pcs

\* The calls of execute other than a call without confirm: true.
ExecuteCase(r, id, wait) ==
  \/ ExecuteRepeated(r, id) \/ ExecuteUnknown(r, id)
  \/ RefuseExpired(r, id) \/ ExecuteNoKeypair(r, id)
  \/ ExecuteBlocked(r, id) \/ ExecuteAccepted(r, id, wait)

LEMMA ExecuteCases ==
  ASSUME NEW r \in Reqs, Execute(r)
  PROVE  ExecuteUnconfirmed(r) \/ \E id \in Ids, wait \in BOOLEAN : ExecuteCase(r, id, wait)
<1>1. TRUE \in BOOLEAN
  OBVIOUS
<1>. QED BY <1>1, Zenon DEF Execute, ExecuteCase

\* One lemma per group of actions: the types are kept.
LEMMA PrepareTypes ==
  ASSUME TypeOK, RequestsOK, NEW r \in Reqs, Prepare(r) PROVE TypeOK'
<1> USE DEF TypeOK, daemonVars, worldVars
<1>1. ASSUME NEW kind \in Kinds, NEW transfer \in BOOLEAN, PrepareBegin(r, kind, transfer)
      PROVE TypeOK'
  BY <1>1, IdleIsRequest DEF PrepareBegin, Idle, Request, Pcs
<1>2. ASSUME NEW id \in Ids, NEW simOk \in BOOLEAN, PrepareFinish(r, id, simOk)
      PROVE TypeOK'
  <2>1. req' \in [Reqs -> Request]
    BY <1>2, IdleIsRequest DEF PrepareFinish, Answer
  <2>2. now + Ttl \in Times
    BY <1>2 DEF PrepareFinish, Times
  <2>3. req[r].kind \in Kinds /\ req[r].net \in Networks
    BY <1>2 DEF PrepareFinish, RequestsOK, RequestOK
  <2>4. item' \in [Ids -> Item \cup {None}] /\ item'[id] # None
    BY <1>2, <2>2, <2>3 DEF PrepareFinish, Item
  <2>5. prepared' \subseteq {i \in Ids : item'[i] # None}
    BY <1>2, <2>4 DEF PrepareFinish
  <2>. QED BY <1>2, <2>1, <2>4, <2>5 DEF PrepareFinish
<1>3. ASSUME PrepareError(r) PROVE TypeOK'
  BY <1>3, IdleIsRequest DEF PrepareError, Answer
<1>. QED BY <1>1, <1>2, <1>3 DEF Prepare

LEMMA ExecuteTypes ==
  ASSUME TypeOK, RequestsOK, NEW r \in Reqs, Execute(r) PROVE TypeOK'
<1> USE DEF TypeOK, daemonVars, worldVars
<1>1. CASE ExecuteUnconfirmed(r)
  BY <1>1, IdleIsRequest DEF ExecuteUnconfirmed, Refuse, AnswerAtOnce, Answer
<1> SUFFICES ASSUME NEW id \in Ids, NEW wait \in BOOLEAN, ExecuteCase(r, id, wait)
             PROVE  TypeOK'
  BY <1>1, ExecuteCases
<1> USE DEF ExecuteCase
<1>2. CASE ExecuteRepeated(r, id)
  <2>1. [asked |-> id, sig |-> executed[id]] \in [asked: Ids, sig: Signature]
    BY <1>2 DEF ExecuteRepeated
  <2>. QED BY <1>2, <2>1, IdleIsRequest DEF ExecuteRepeated, AnswerAtOnce, Answer
<1>3. CASE ExecuteUnknown(r, id) \/ ExecuteNoKeypair(r, id) \/ ExecuteBlocked(r, id)
  BY <1>3, IdleIsRequest
  DEF ExecuteUnknown, ExecuteNoKeypair, ExecuteBlocked, Refuse, AnswerAtOnce, Answer
<1>4. CASE RefuseExpired(r, id)
  BY <1>4, IdleIsRequest DEF RefuseExpired, AnswerAtOnce, Answer
<1>5. CASE ExecuteAccepted(r, id, wait)
  <2>1. CacheFresh => Sign(id, cache.value) \in Signature
    BY DEF CacheFresh, Sign, Signature
  <2>. DEFINE q == [Idle EXCEPT
                      !.pc = IF CacheFresh THEN "sending" ELSE "fetching",
                      !.id = id, !.net = net, !.wait = wait,
                      !.asked = IF CacheFresh THEN 0 ELSE now,
                      !.sig = IF CacheFresh THEN Sign(id, cache.value) ELSE None]
  <2>2. q \in Request
    <3>1. now \in Times /\ net \in Networks /\ 0 \in Times
      BY ZeroIsTime
    <3>2. CASE CacheFresh
      BY <2>1, <3>1, <3>2 DEF Idle, Request, Pcs
    <3>3. CASE ~CacheFresh
      BY <3>1, <3>3 DEF Idle, Request, Pcs
    <3>. QED BY <3>2, <3>3
  <2>3. req' = [req EXCEPT ![r] = q] /\ UNCHANGED <<daemonVars, worldVars, cache, told>>
    BY <1>5 DEF ExecuteAccepted
  <2>. HIDE DEF q
  <2>. QED BY <2>2, <2>3
<1>. QED BY <1>2, <1>3, <1>4, <1>5

LEMMA AwaitTypes ==
  ASSUME TypeOK, RequestsOK, NEW r \in Reqs,
         Blockhash(r) \/ Send(r) \/ SendEnds(r) \/ Settle(r)
  PROVE  TypeOK'
<1> USE DEF TypeOK, daemonVars, worldVars
<1>1. ASSUME NEW slot \in 0 .. now, BlockhashAnswer(r, slot) PROVE TypeOK'
  <2>1. [net |-> req[r].net, slot |-> slot] \in Hash
    BY <1>1 DEF BlockhashAnswer, RequestsOK, RequestOK, Hash, Times
  <2>2. cache' \in [value: Hash, ts: Times]
    BY <1>1, <2>1 DEF BlockhashAnswer, Request
  <2>3. CASE req[r].op = "prepare"
    BY <1>1, <2>2, <2>3, AdvancedRequest DEF BlockhashAnswer
  <2>4. CASE req[r].op # "prepare"
    <3>1. req[r].op = "execute" /\ req[r].pc = "fetching"
      BY <1>1, <2>4 DEF BlockhashAnswer, Request
    <3>2. Sign(req[r].id, [net |-> req[r].net, slot |-> slot]) \in Signature
      BY <2>1, <3>1 DEF RequestsOK, RequestOK, Sign, Signature
    <3>3. [req[r] EXCEPT !.pc = "sending", !.asked = 0,
             !.sig = Sign(req[r].id, [net |-> req[r].net, slot |-> slot])] \in Request
      BY <3>2, SignedRequest
    <3>. QED BY <1>1, <2>2, <2>4, <3>3 DEF BlockhashAnswer
  <2>. QED BY <2>3, <2>4
<1>2. CASE BlockhashError(r) \/ SendRejected(r) \/ SendAnswerLost(r)
  BY <1>2, IdleIsRequest DEF BlockhashError, SendRejected, SendAnswerLost, Answer
<1>3. CASE Land(r)
  <2>1. req[r].sig \in Signature
    BY <1>3 DEF Land, RequestsOK, RequestOK
  <2>2. [req[r] EXCEPT !.pc = "landed"] \in Request
    BY DEF Request, Pcs
  <2>. QED BY <1>3, <2>1, <2>2 DEF Land
<1>4. CASE Record(r)
  <2>1. req[r].sig \in Signature /\ req[r].id \in Ids
    BY <1>4 DEF Record, RequestsOK, RequestOK, Request
  <2>2. [req[r] EXCEPT !.pc = "settling"] \in Request
    BY DEF Request, Pcs
  <2>3. req' \in [Reqs -> Request]
    BY <1>4, <2>2, IdleIsRequest DEF Record, Answer
  <2>4. executed' \in [Ids -> Signature \cup {None}]
    BY <1>4, <2>1 DEF Record
  <2>5. told' \subseteq [asked: Ids, sig: Signature]
    BY <1>4, <2>1 DEF Record
  <2>. QED BY <1>4, <2>3, <2>4, <2>5 DEF Record
<1>5. CASE Settle(r)
  <2>1. req[r].sig \in Signature /\ req[r].id \in Ids
    BY <1>5 DEF Settle, RequestsOK, RequestOK, Request
  <2>. QED BY <1>5, <2>1, IdleIsRequest DEF Settle, Answer
<1>. QED BY <1>1, <1>2, <1>3, <1>4, <1>5 DEF Blockhash, Send, SendEnds

LEMMA WorldTypes ==
  ASSUME TypeOK, Cleanup \/ Operator \/ Tick \/ Restart PROVE TypeOK'
<1> USE DEF TypeOK, daemonVars, worldVars
<1>1. CASE Cleanup
  BY <1>1 DEF Cleanup
<1>2. CASE Operator
  BY <1>2 DEF Operator, ApplyPolicy, EditPolicyFile, SwitchNetwork
<1>3. CASE Tick
  BY <1>3 DEF Tick, Times
<1>4. CASE Restart
  <2>1. executed' \in [Ids -> Signature \cup {None}]
    BY <1>4 DEF Restart, NoneExecuted
  <2>. QED BY <1>4, <2>1, IdleIsRequest DEF Restart
<1>. QED BY <1>1, <1>2, <1>3, <1>4

-----------------------------------------------------------------------------
(* What suspended handlers rely on survives every step of the others.         *)

\* The state a suspended handler looks at only grows while the process lives.
Grows ==
  /\ now <= now' /\ landed \subseteq landed'
  /\ \A id \in Ids : /\ item[id] # None => item'[id] # None
                     /\ executed[id] # None => executed'[id] # None

\* One step of the handler in slot r.
Handler(r) == \/ Prepare(r) \/ Execute(r) \/ Blockhash(r)
              \/ Send(r) \/ SendEnds(r) \/ Settle(r)

LEMMA UntouchedRequest ==
  ASSUME TypeOK, NEW x \in Reqs, RequestOK(x), Grows, req'[x] = req[x], now' \in Times
  PROVE  RequestOK(x)'
  BY DEF TypeOK, RequestOK, Grows, Request, Times

\* A handler that answers leaves a slot that relies on nothing.
LEMMA AnsweredRequest ==
  ASSUME TypeOK, NEW r \in Reqs, Answer(r)
  PROVE  RequestOK(r)' /\ \A x \in Reqs \ {r} : req'[x] = req[x]
<1>1. req'[r] = Idle /\ \A x \in Reqs \ {r} : req'[x] = req[x]
  BY DEF Answer, TypeOK
<1>2. RequestOK(r)'
  BY <1>1 DEF RequestOK, Idle
<1>. QED BY <1>1, <1>2

LEMMA PrepareRequests ==
  ASSUME TypeOK, RequestsOK, NEW r \in Reqs, Prepare(r)
  PROVE  Grows /\ RequestOK(r)' /\ \A x \in Reqs \ {r} : req'[x] = req[x]
<1> USE DEF TypeOK, daemonVars, worldVars
<1>1. ASSUME NEW kind \in Kinds, NEW transfer \in BOOLEAN, PrepareBegin(r, kind, transfer)
      PROVE Grows /\ RequestOK(r)' /\ \A x \in Reqs \ {r} : req'[x] = req[x]
  BY <1>1 DEF PrepareBegin, Idle, RequestOK, Grows, Times
<1>2. ASSUME NEW id \in Ids, NEW simOk \in BOOLEAN, PrepareFinish(r, id, simOk)
      PROVE Grows /\ RequestOK(r)' /\ \A x \in Reqs \ {r} : req'[x] = req[x]
  BY <1>2 DEF PrepareFinish, Answer, Idle, RequestOK, Grows, Times
<1>3. ASSUME PrepareError(r)
      PROVE Grows /\ RequestOK(r)' /\ \A x \in Reqs \ {r} : req'[x] = req[x]
  BY <1>3 DEF PrepareError, Answer, Idle, RequestOK, Grows, Times
<1>. QED BY <1>1, <1>2, <1>3 DEF Prepare

LEMMA ExecuteRequests ==
  ASSUME TypeOK, RequestsOK, NEW r \in Reqs, Execute(r)
  PROVE  Grows /\ RequestOK(r)' /\ \A x \in Reqs \ {r} : req'[x] = req[x]
<1> USE DEF TypeOK, daemonVars, worldVars
<1>1. CASE ExecuteUnconfirmed(r)
  BY <1>1 DEF ExecuteUnconfirmed, Refuse, AnswerAtOnce, Answer, Idle, RequestOK, Grows, Times
<1> SUFFICES ASSUME NEW id \in Ids, NEW wait \in BOOLEAN, ExecuteCase(r, id, wait)
             PROVE  Grows /\ RequestOK(r)' /\ \A x \in Reqs \ {r} : req'[x] = req[x]
  BY <1>1, ExecuteCases
<1>2. CASE ExecuteAccepted(r, id, wait)
  <2>1. CacheFresh => Sign(id, cache.value) \in Signature /\ Sign(id, cache.value).id = id
    BY DEF CacheFresh, Sign, Signature
  <2>. QED BY <1>2, <2>1 DEF ExecuteAccepted, Executable, Idle, RequestOK, Grows, Times
<1>3. CASE ~ExecuteAccepted(r, id, wait)
  <2>1. AnswerAtOnce(r)
    BY <1>3 DEF ExecuteCase, ExecuteRepeated, ExecuteUnknown, RefuseExpired,
       ExecuteNoKeypair, ExecuteBlocked, Refuse
  <2>2. Grows
    BY <2>1 DEF AnswerAtOnce, Grows, Times
  <2>. QED BY <2>1, <2>2, AnsweredRequest DEF AnswerAtOnce
<1>. QED BY <1>2, <1>3

LEMMA AwaitRequests ==
  ASSUME TypeOK, RequestsOK, NEW r \in Reqs,
         Blockhash(r) \/ Send(r) \/ SendEnds(r) \/ Settle(r)
  PROVE  Grows /\ RequestOK(r)' /\ \A x \in Reqs \ {r} : req'[x] = req[x]
<1> USE DEF TypeOK, daemonVars, worldVars
<1>1. ASSUME NEW slot \in 0 .. now, BlockhashAnswer(r, slot)
      PROVE Grows /\ RequestOK(r)' /\ \A x \in Reqs \ {r} : req'[x] = req[x]
  <2>1. [net |-> req[r].net, slot |-> slot] \in Hash
    BY <1>1 DEF BlockhashAnswer, RequestsOK, RequestOK, Hash, Times
  <2>2. CASE req[r].op = "prepare"
    BY <1>1, <2>2 DEF BlockhashAnswer, RequestsOK, RequestOK, Grows, Times, Request
  <2>3. CASE req[r].op # "prepare"
    <3>1. req[r].op = "execute" /\ req[r].pc = "fetching" /\ req[r].id \in Ids
      BY <1>1, <2>3 DEF BlockhashAnswer, Request, RequestsOK, RequestOK
    <3>2. Sign(req[r].id, [net |-> req[r].net, slot |-> slot]) \in Signature
      BY <2>1, <3>1 DEF Sign, Signature
    <3>3. Sign(req[r].id, [net |-> req[r].net, slot |-> slot]).id = req[r].id
      BY DEF Sign
    <3>. QED BY <1>1, <2>3, <3>1, <3>2, <3>3 DEF BlockhashAnswer, RequestsOK, RequestOK, Grows, Times, Request
  <2>. QED BY <2>2, <2>3
<1>2. CASE BlockhashError(r) \/ SendRejected(r) \/ SendAnswerLost(r)
  <2>1. Answer(r) /\ Grows
    BY <1>2 DEF BlockhashError, SendRejected, SendAnswerLost, Grows, Times
  <2>. QED BY <2>1, AnsweredRequest
<1>3. CASE Land(r)
  BY <1>3 DEF Land, RequestsOK, RequestOK, Grows, Times, Request
<1>4. CASE Record(r)
  <2>1. req[r].id \in Ids /\ req[r].sig \in Signature
    BY <1>4 DEF Record, RequestsOK, RequestOK, Request
  <2>2. executed'[req[r].id] # None
    BY <1>4, <2>1 DEF Record
  <2>3. Grows
    BY <1>4, <2>1 DEF Record, Grows, Times
  <2>4. CASE req[r].wait
    BY <1>4, <2>1, <2>2, <2>3, <2>4 DEF Record, RequestsOK, RequestOK, Request
  <2>5. CASE ~req[r].wait
    <3>1. Answer(r)
      BY <1>4, <2>5 DEF Record
    <3>. QED BY <2>3, <3>1, AnsweredRequest
  <2>. QED BY <2>4, <2>5
<1>5. CASE Settle(r)
  BY <1>5 DEF Settle, Answer, Idle, RequestOK, Grows, Times
<1>. QED BY <1>1, <1>2, <1>3, <1>4, <1>5 DEF Blockhash, Send, SendEnds

LEMMA WorldRequests ==
  ASSUME TypeOK, RequestsOK, Cleanup \/ Operator \/ Tick PROVE Grows /\ req' = req
<1> USE DEF TypeOK, daemonVars, worldVars, Grows, Times
<1>1. CASE Cleanup
  BY <1>1 DEF Cleanup
<1>2. CASE Operator
  BY <1>2 DEF Operator, ApplyPolicy, EditPolicyFile, SwitchNetwork
<1>3. CASE Tick
  BY <1>3 DEF Tick
<1>. QED BY <1>1, <1>2, <1>3

LEMMA RestartRequests ==
  ASSUME Restart PROVE \A r \in Reqs : RequestOK(r)'
  BY DEF Restart, Idle, RequestOK

-----------------------------------------------------------------------------
\* Every variable keeps its type and every suspended handler finds what it relies
\* on, in every reachable state.
THEOREM TypesAndRequests == Spec => [](TypeOK /\ RequestsOK)
<1>1. Init => TypeOK /\ RequestsOK
  BY IdleIsRequest DEF Init, TypeOK, RequestsOK, RequestOK, Idle, NoneExecuted, Times
<1>2. TypeOK /\ RequestsOK /\ [Next]_vars => TypeOK' /\ RequestsOK'
  <2> SUFFICES ASSUME TypeOK, RequestsOK, [Next]_vars PROVE TypeOK' /\ RequestsOK'
    OBVIOUS
  <2>1. ASSUME NEW r \in Reqs, Handler(r) PROVE TypeOK' /\ RequestsOK'
    <3>1. TypeOK'
      BY <2>1, PrepareTypes, ExecuteTypes, AwaitTypes DEF Handler
    <3>2. Grows /\ RequestOK(r)' /\ \A x \in Reqs \ {r} : req'[x] = req[x]
      BY <2>1, PrepareRequests, ExecuteRequests, AwaitRequests DEF Handler
    <3>3. ASSUME NEW x \in Reqs \ {r} PROVE RequestOK(x)'
      BY <3>1, <3>2, UntouchedRequest DEF RequestsOK, TypeOK
    <3>. QED BY <3>1, <3>2, <3>3 DEF RequestsOK
  <2>2. CASE Cleanup \/ Operator \/ Tick
    <3>1. TypeOK'
      BY <2>2, WorldTypes
    <3>2. Grows /\ req' = req
      BY <2>2, WorldRequests
    <3>. QED BY <3>1, <3>2, UntouchedRequest DEF RequestsOK, TypeOK
  <2>3. CASE Restart
    BY <2>3, WorldTypes, RestartRequests DEF RequestsOK
  <2>4. CASE UNCHANGED vars
    BY <2>4 DEF vars, TypeOK, RequestsOK, RequestOK
  <2>. QED BY <2>1, <2>2, <2>3, <2>4 DEF Next, Handler
<1>. QED BY <1>1, <1>2, PTL DEF Spec

-----------------------------------------------------------------------------
(* What the daemon remembers, has saved and has told is on the chain.         *)

LEMMA AnswersStay ==
  ASSUME AnswersAreOnChain, executed' = executed, file' = file, told' = told,
         landed \subseteq landed'
  PROVE  AnswersAreOnChain'
  BY DEF AnswersAreOnChain, OnChain

LEMMA AnswersStep ==
  ASSUME TypeOK, RequestsOK, AnswersAreOnChain, [Next]_vars
  PROVE  AnswersAreOnChain'
<1> USE DEF daemonVars, worldVars
<1>1. ASSUME NEW r \in Reqs, Prepare(r) PROVE AnswersAreOnChain'
  BY <1>1, AnswersStay DEF Prepare, PrepareBegin, PrepareFinish, PrepareError
<1>2. ASSUME NEW r \in Reqs, Execute(r) PROVE AnswersAreOnChain'
  <2>1. CASE ExecuteUnconfirmed(r)
    BY <2>1, AnswersStay DEF ExecuteUnconfirmed, Refuse, AnswerAtOnce
  <2> SUFFICES ASSUME NEW id \in Ids, NEW wait \in BOOLEAN, ExecuteCase(r, id, wait)
               PROVE  AnswersAreOnChain'
    BY <1>2, <2>1, ExecuteCases
  <2>2. CASE ExecuteRepeated(r, id)
    BY <2>2 DEF ExecuteRepeated, AnswerAtOnce, AnswersAreOnChain, OnChain
  <2>3. CASE ~ExecuteRepeated(r, id)
    BY <2>3, AnswersStay DEF ExecuteCase, ExecuteUnknown, RefuseExpired, ExecuteNoKeypair,
       ExecuteBlocked, ExecuteAccepted, Refuse, AnswerAtOnce
  <2>. QED BY <2>2, <2>3
<1>3. ASSUME NEW r \in Reqs, Blockhash(r) \/ Send(r) \/ SendAnswerLost(r)
      PROVE AnswersAreOnChain'
  BY <1>3, AnswersStay DEF Blockhash, BlockhashAnswer, BlockhashError, Send, Land,
     SendRejected, SendAnswerLost
<1>4. ASSUME NEW r \in Reqs, Record(r) PROVE AnswersAreOnChain'
  <2>1. req[r].id \in Ids /\ req[r].sig \in landed /\ req[r].sig.id = req[r].id
    BY <1>4 DEF Record, RequestsOK, RequestOK, TypeOK, Request
  <2>2. OnChain(executed)' /\ landed' = landed
    BY <1>4, <2>1 DEF Record, AnswersAreOnChain, OnChain, TypeOK
  <2>3. file' # Corrupt => OnChain(file)'
    BY <1>4, <2>2 DEF Record, AnswersAreOnChain, OnChain
  <2>4. \A answer \in told' : answer.sig \in landed' /\ answer.sig.id = answer.asked
    BY <1>4, <2>1 DEF Record, AnswersAreOnChain
  <2>. QED BY <2>2, <2>3, <2>4 DEF AnswersAreOnChain
<1>5. ASSUME NEW r \in Reqs, Settle(r) PROVE AnswersAreOnChain'
  <2>1. req[r].sig \in landed /\ req[r].sig.id = req[r].id
    BY <1>5 DEF Settle, RequestsOK, RequestOK, TypeOK, Request
  <2>. QED BY <1>5, <2>1 DEF Settle, AnswersAreOnChain, OnChain
<1>6. CASE Cleanup \/ Operator \/ Tick
  BY <1>6, AnswersStay DEF Cleanup, Operator, ApplyPolicy, EditPolicyFile, SwitchNetwork, Tick
<1>7. CASE Restart
  <2>1. OnChain(NoneExecuted)
    BY DEF OnChain, NoneExecuted
  <2>2. told' = told /\ landed' = landed
    BY <1>7 DEF Restart
  <2>3. CASE file' = Corrupt
    BY <1>7, <2>1, <2>2, <2>3 DEF Restart, AnswersAreOnChain, OnChain
  <2>4. CASE file' # Corrupt
    BY <1>7, <2>2, <2>4 DEF Restart, AnswersAreOnChain, OnChain
  <2>. QED BY <2>3, <2>4
<1>8. CASE UNCHANGED vars
  BY <1>8, AnswersStay DEF vars
<1>. QED BY <1>1, <1>2, <1>3, <1>4, <1>5, <1>6, <1>7, <1>8 DEF Next, SendEnds

\* A signature the daemon remembers, has saved or has returned is a transaction of
\* that preparedId which a cluster has accepted.
THEOREM AnswersTheorem == Spec => []AnswersAreOnChain
<1>1. Init => AnswersAreOnChain
  BY DEF Init, AnswersAreOnChain, OnChain, NoneExecuted
<1>2. TypeOK /\ RequestsOK /\ AnswersAreOnChain /\ [Next]_vars => AnswersAreOnChain'
  BY AnswersStep
<1>. QED BY <1>1, <1>2, TypesAndRequests, PTL DEF Spec

-----------------------------------------------------------------------------
(* executed.json is never ahead of the map.                                   *)

LEMMA DiskStep ==
  ASSUME TypeOK, RequestsOK, DiskBehindMemory, [Next]_vars
  PROVE  DiskBehindMemory'
<1> USE DEF daemonVars, worldVars
<1>1. ASSUME NEW r \in Reqs, Prepare(r) \/ Blockhash(r) \/ Send(r) \/ SendAnswerLost(r) \/ Settle(r)
      PROVE executed' = executed /\ file' = file
  BY <1>1 DEF Prepare, PrepareBegin, PrepareFinish, PrepareError, Blockhash, BlockhashAnswer,
     BlockhashError, Send, Land, SendRejected, SendAnswerLost, Settle
<1>2. ASSUME NEW r \in Reqs, Execute(r) PROVE executed' = executed /\ file' = file
  BY <1>2, ExecuteCases DEF ExecuteUnconfirmed, ExecuteCase, ExecuteRepeated, ExecuteUnknown,
     RefuseExpired, ExecuteNoKeypair, ExecuteBlocked, ExecuteAccepted, Refuse, AnswerAtOnce
<1>3. CASE Cleanup \/ Operator \/ Tick \/ UNCHANGED vars
  BY <1>3 DEF Cleanup, Operator, ApplyPolicy, EditPolicyFile, SwitchNetwork, Tick, vars,
     DiskBehindMemory
<1>4. ASSUME NEW r \in Reqs, Record(r) PROVE DiskBehindMemory'
  <2>1. req[r].id \in Ids /\ req[r].sig # None
    BY <1>4 DEF Record, RequestsOK, RequestOK, TypeOK, Request
  <2>2. \A id \in Ids : executed[id] # None => executed'[id] # None
    BY <1>4, <2>1 DEF Record, TypeOK
  <2>. QED BY <1>4, <2>2 DEF Record, DiskBehindMemory
<1>5. CASE Restart
  BY <1>5 DEF Restart, DiskBehindMemory
<1>. QED BY <1>1, <1>2, <1>3, <1>4, <1>5 DEF Next, SendEnds, DiskBehindMemory

\* What executed.json remembers, the running process remembers.
THEOREM DiskTheorem == Spec => []DiskBehindMemory
<1>1. Init => DiskBehindMemory
  BY DEF Init, DiskBehindMemory, NoneExecuted
<1>2. TypeOK /\ RequestsOK /\ DiskBehindMemory /\ [Next]_vars => DiskBehindMemory'
  BY DiskStep
<1>. QED BY <1>1, <1>2, TypesAndRequests, PTL DEF Spec

-----------------------------------------------------------------------------
(* The blockhash cache.                                                       *)

\* Only an answer of getLatestBlockhash fills the cache.
LEMMA CacheFrame ==
  ASSUME [Next]_vars, ~Restart, \A r \in Reqs : \A slot \in 0 .. now : ~BlockhashAnswer(r, slot)
  PROVE  cache' = cache
<1> USE DEF daemonVars, worldVars
<1>1. ASSUME NEW r \in Reqs, Execute(r) PROVE cache' = cache
  BY <1>1, ExecuteCases DEF ExecuteUnconfirmed, ExecuteCase, ExecuteRepeated, ExecuteUnknown,
     RefuseExpired, ExecuteNoKeypair, ExecuteBlocked, ExecuteAccepted, Refuse, AnswerAtOnce
<1>2. ASSUME NEW r \in Reqs, \/ Prepare(r) \/ Blockhash(r) \/ Send(r) \/ SendEnds(r) \/ Settle(r)
      PROVE cache' = cache
  BY <1>2 DEF Prepare, PrepareBegin, PrepareFinish, PrepareError, Blockhash, BlockhashError,
     Send, Land, SendRejected, SendEnds, SendAnswerLost, Record, Settle
<1>3. CASE Cleanup \/ Operator \/ Tick \/ UNCHANGED vars
  BY <1>3 DEF Cleanup, Operator, ApplyPolicy, EditPolicyFile, SwitchNetwork, Tick, vars
<1>. QED BY <1>1, <1>2, <1>3 DEF Next

\* The clock does not go back.
LEMMA ClockFrame ==
  ASSUME TypeOK, RequestsOK, [Next]_vars PROVE now <= now' /\ now' \in Times
<1>1. ASSUME NEW r \in Reqs, Handler(r) PROVE now <= now' /\ now' \in Times
  BY <1>1, PrepareRequests, ExecuteRequests, AwaitRequests, PrepareTypes, ExecuteTypes,
     AwaitTypes DEF Handler, Grows, TypeOK
<1>2. CASE Cleanup \/ Operator \/ Tick
  BY <1>2, WorldRequests, WorldTypes DEF Grows, TypeOK
<1>3. CASE Restart \/ UNCHANGED vars
  BY <1>3 DEF Restart, vars, TypeOK, Times
<1>. QED BY <1>1, <1>2, <1>3 DEF Next, Handler

\* The stamp of the blockhash cache is never later than the blockhash.
THEOREM CacheTheorem == Spec => []CacheStampIsEarly
<1>1. Init => CacheStampIsEarly
  BY DEF Init, CacheStampIsEarly
<1>2. TypeOK /\ RequestsOK /\ CacheStampIsEarly /\ [Next]_vars => CacheStampIsEarly'
  <2> SUFFICES ASSUME TypeOK, RequestsOK, CacheStampIsEarly, [Next]_vars
               PROVE  CacheStampIsEarly'
    OBVIOUS
  <2>1. CASE Restart
    BY <2>1 DEF Restart, CacheStampIsEarly
  <2>2. ASSUME NEW r \in Reqs, NEW slot \in 0 .. now, BlockhashAnswer(r, slot)
        PROVE CacheStampIsEarly'
    BY <2>2 DEF BlockhashAnswer, CacheStampIsEarly, worldVars
  <2>3. CASE cache' = cache
    BY <2>3, ClockFrame DEF CacheStampIsEarly, TypeOK, Times, Hash
  <2>. QED BY <2>1, <2>2, <2>3, CacheFrame
<1>. QED BY <1>1, <1>2, TypesAndRequests, PTL DEF Spec

\* Which steps sign: an accepted execute with a fresh cache, or the answer of the
\* fetch it waited for.
LEMMA SigningSteps ==
  ASSUME TypeOK, RequestsOK, [Next]_vars,
         NEW r \in Reqs, req[r].sig = None, req'[r].pc = "sending"
  PROVE  \/ \E id \in Ids, wait \in BOOLEAN : ExecuteAccepted(r, id, wait) /\ CacheFresh
         \/ \E slot \in 0 .. now : BlockhashAnswer(r, slot)
<1> USE DEF TypeOK
<1>1. req[r].pc # "sending"
  BY DEF RequestsOK, RequestOK
<1>2. req'[r] # req[r]
  BY <1>1
<1>3. Idle.pc # "sending"
  BY DEF Idle
<1>4. ASSUME NEW x \in Reqs, Handler(x) PROVE x = r
  <2>1. \A y \in Reqs \ {x} : req'[y] = req[y]
    BY <1>4, PrepareRequests, ExecuteRequests, AwaitRequests DEF Handler
  <2>. QED BY <1>2, <2>1
<1>5. ASSUME Prepare(r) \/ BlockhashError(r) \/ Send(r) \/ SendEnds(r) \/ Settle(r) PROVE FALSE
  <2>1. ~Answer(r)
    BY <1>3 DEF Answer
  <2>2. ASSUME NEW kind \in Kinds, NEW transfer \in BOOLEAN, PrepareBegin(r, kind, transfer)
        PROVE FALSE
    BY <2>2 DEF PrepareBegin, Idle
  <2>3. ASSUME Land(r) \/ Record(r) PROVE FALSE
    <3>1. req'[r].pc \in {"landed", "settling"}
      BY <2>1, <2>3 DEF Land, Record, Request
    <3>. QED BY <3>1
  <2>. QED BY <1>5, <2>1, <2>2, <2>3 DEF Prepare, PrepareFinish, PrepareError,
           BlockhashError, Send, SendRejected, SendEnds, SendAnswerLost, Settle
<1>6. ASSUME Execute(r) PROVE \E id \in Ids, wait \in BOOLEAN : ExecuteAccepted(r, id, wait) /\ CacheFresh
  <2>1. ~ExecuteUnconfirmed(r)
    BY <1>3 DEF ExecuteUnconfirmed, Refuse, AnswerAtOnce, Answer
  <2>2. PICK id \in Ids, wait \in BOOLEAN : ExecuteCase(r, id, wait)
    BY <1>6, <2>1, ExecuteCases
  <2>3. ExecuteAccepted(r, id, wait)
    BY <1>3, <2>2 DEF ExecuteCase, ExecuteRepeated, ExecuteUnknown, RefuseExpired,
       ExecuteNoKeypair, ExecuteBlocked, Refuse, AnswerAtOnce, Answer
  <2>4. CacheFresh
    BY <2>3 DEF ExecuteAccepted, Idle
  <2>. QED BY <2>3, <2>4
<1>7. ASSUME Cleanup \/ Operator \/ Tick \/ UNCHANGED vars PROVE FALSE
  BY <1>2, <1>7 DEF Cleanup, Operator, ApplyPolicy, EditPolicyFile, SwitchNetwork, Tick, vars
<1>8. ~Restart
  BY <1>3 DEF Restart
<1>. QED BY <1>4, <1>5, <1>6, <1>7, <1>8 DEF Next, Handler, Blockhash

\* Whatever is signed is signed with a blockhash younger than the time to live of
\* the cache, or younger than the fetch that was made for it.
THEOREM SignedFreshTheorem == Spec => SignedFresh
<1>1. TypeOK /\ RequestsOK /\ CacheStampIsEarly /\ [Next]_vars => [SignsFresh]_vars
  <2> DEFINE slotOf(r) == req'[r].sig.hash.slot
  <2> SUFFICES ASSUME TypeOK, RequestsOK, CacheStampIsEarly, [Next]_vars,
                      NEW r \in Reqs, req[r].sig = None, req'[r].pc = "sending"
               PROVE  IF req[r].pc = "fetching" THEN slotOf(r) >= req[r].asked
                                                ELSE now - slotOf(r) < HashTtl
    BY DEF SignsFresh
  <2>1. ASSUME NEW id \in Ids, NEW wait \in BOOLEAN, ExecuteAccepted(r, id, wait), CacheFresh
        PROVE req[r].pc # "fetching" /\ now - slotOf(r) < HashTtl
    <3>1. slotOf(r) = cache.value.slot
      BY <2>1 DEF ExecuteAccepted, Sign, TypeOK, Idle
    <3>. QED BY <2>1, <3>1 DEF CacheFresh, CacheStampIsEarly, TypeOK, Times, Hash, ExecuteAccepted
  <2>2. ASSUME NEW slot \in 0 .. now, BlockhashAnswer(r, slot)
        PROVE req[r].pc = "fetching" /\ slotOf(r) >= req[r].asked
    <3>1. req[r].op = "execute"
      BY <2>2 DEF BlockhashAnswer, TypeOK, Request
    <3>2. slotOf(r) = slot
      BY <2>2, <3>1 DEF BlockhashAnswer, TypeOK, Request, Sign
    <3>. QED BY <2>2, <3>2 DEF BlockhashAnswer, TypeOK, Request, Times
  <2>. QED BY <2>1, <2>2, SigningSteps
<1>. QED BY <1>1, TypesAndRequests, CacheTheorem, PTL DEF Spec, SignedFresh

-----------------------------------------------------------------------------
(* A retired id stays retired.                                                *)

\* What one step may do to an id that was handed out: it becomes executable never,
\* is taken up by a handler only while it is executable, and gets a signature on
\* the chain only from a handler that is in the middle of it.
IdFrame(id) ==
  /\ item'[id] # None
  /\ Executable(id)' => Executable(id)
  /\ \A r \in Reqs : Executing(r)' /\ req'[r].id = id =>
       Executable(id) \/ (Executing(r) /\ req[r].id = id)
  /\ LandedOf(id)' # LandedOf(id) => InFlight(id)

LEMMA IdleNotExecuting ==
  ASSUME NEW r \in Reqs, req'[r] = Idle PROVE ~Executing(r)'
  BY DEF Executing, Idle

\* A handler that answers, stores nothing under the id and sends nothing.
LEMMA QuietStep ==
  ASSUME TypeOK, NEW id \in Ids, item[id] # None, NEW r \in Reqs, Answer(r),
         item'[id] = item[id], now' = now, landed' = landed,
         executed' = executed, id \in prepared' => id \in prepared
  PROVE  IdFrame(id)
<1>1. req'[r] = Idle /\ \A x \in Reqs \ {r} : req'[x] = req[x]
  BY DEF Answer, TypeOK
<1>2. \A x \in Reqs : Executing(x)' => Executing(x) /\ req'[x] = req[x]
  BY <1>1, IdleNotExecuting DEF Executing
<1>. QED BY <1>2 DEF IdFrame, Executable, Expired, LandedOf

LEMMA HandlerIdFrame ==
  ASSUME TypeOK, RequestsOK, NEW id \in Ids, item[id] # None, NEW r \in Reqs, Handler(r)
  PROVE  IdFrame(id)
<1> USE DEF daemonVars, worldVars
<1>1. ASSUME NEW kind \in Kinds, NEW transfer \in BOOLEAN, PrepareBegin(r, kind, transfer)
      PROVE IdFrame(id)
  <2>1. ~Executing(r)' /\ \A x \in Reqs \ {r} : req'[x] = req[x]
    BY <1>1 DEF PrepareBegin, TypeOK, Idle, Executing
  <2>2. \A x \in Reqs : Executing(x)' => Executing(x) /\ req'[x] = req[x]
    BY <2>1 DEF Executing
  <2>. QED BY <1>1, <2>2 DEF PrepareBegin, IdFrame, Executable, Expired, LandedOf
<1>2. ASSUME NEW fresh \in Ids, NEW simOk \in BOOLEAN, PrepareFinish(r, fresh, simOk)
      PROVE IdFrame(id)
  <2>1. fresh # id
    BY <1>2 DEF PrepareFinish
  <2>2. item'[id] = item[id] /\ (id \in prepared' => id \in prepared)
    BY <1>2, <2>1 DEF PrepareFinish, TypeOK
  <2>. QED BY <1>2, <2>2, QuietStep DEF PrepareFinish
<1>3. ASSUME PrepareError(r) \/ BlockhashError(r) \/ SendRejected(r) \/ SendAnswerLost(r)
             \/ Settle(r)
      PROVE IdFrame(id)
  BY <1>3, QuietStep DEF PrepareError, BlockhashError, SendRejected, SendAnswerLost, Settle
<1>4. ASSUME NEW i \in Ids, NEW wait \in BOOLEAN, ExecuteAccepted(r, i, wait)
      PROVE IdFrame(id)
  <2>1. req'[r].id = i /\ Executable(i) /\ \A x \in Reqs \ {r} : req'[x] = req[x]
    BY <1>4 DEF ExecuteAccepted, TypeOK, Idle
  <2>2. \A x \in Reqs : Executing(x)' /\ req'[x].id = id =>
          Executable(id) \/ (Executing(x) /\ req[x].id = id)
    BY <2>1 DEF Executing
  <2>. QED BY <1>4, <2>2 DEF ExecuteAccepted, IdFrame, Executable, Expired, LandedOf
<1>5. ASSUME Execute(r), \A i \in Ids, wait \in BOOLEAN : ~ExecuteAccepted(r, i, wait)
      PROVE IdFrame(id)
  BY <1>5, ExecuteCases, QuietStep DEF ExecuteCase, ExecuteUnconfirmed, ExecuteRepeated,
     ExecuteUnknown, RefuseExpired, ExecuteNoKeypair, ExecuteBlocked, Refuse, AnswerAtOnce
<1>6. ASSUME NEW slot \in 0 .. now, BlockhashAnswer(r, slot) PROVE IdFrame(id)
  <2>1. \A x \in Reqs : Executing(x)' => Executing(x) /\ req'[x].id = req[x].id
    BY <1>6 DEF BlockhashAnswer, TypeOK, Request, Executing
  <2>. QED BY <1>6, <2>1 DEF BlockhashAnswer, IdFrame, Executable, Expired, LandedOf
<1>7. ASSUME Land(r) PROVE IdFrame(id)
  <2>1. \A x \in Reqs : Executing(x)' => Executing(x) /\ req'[x].id = req[x].id
    BY <1>7 DEF Land, TypeOK, Request, Executing, RequestsOK, RequestOK
  <2>2. Executing(r) /\ req[r].sig.id = req[r].id
    BY <1>7 DEF Land, TypeOK, Request, Executing, RequestsOK, RequestOK
  <2>3. LandedOf(id)' # LandedOf(id) => req[r].id = id
    BY <1>7, <2>2 DEF Land, LandedOf
  <2>. QED BY <1>7, <2>1, <2>2, <2>3 DEF Land, IdFrame, Executable, Expired, InFlight
<1>8. ASSUME Record(r) PROVE IdFrame(id)
  <2>1. \A x \in Reqs : Executing(x)' => Executing(x) /\ req'[x] = req[x]
    BY <1>8 DEF Record, Answer, Idle, TypeOK, Request, Executing
  <2>2. executed[id] # None => executed'[id] # None
    BY <1>8, AwaitRequests DEF SendEnds, Grows
  <2>. QED BY <1>8, <2>1, <2>2 DEF Record, IdFrame, Executable, Expired, LandedOf
<1>. QED BY <1>1, <1>2, <1>3, <1>4, <1>5, <1>6, <1>7, <1>8
         DEF Handler, Prepare, Blockhash, Send, SendEnds

LEMMA WorldIdFrame ==
  ASSUME TypeOK, RequestsOK, NEW id \in Ids, item[id] # None,
         Cleanup \/ Operator \/ Tick \/ Restart \/ UNCHANGED vars
  PROVE  IdFrame(id)
<1> USE DEF daemonVars, worldVars, IdFrame, Executable, Expired, LandedOf, Executing
<1>1. CASE Cleanup
  BY <1>1 DEF Cleanup
<1>2. CASE Operator
  BY <1>2 DEF Operator, ApplyPolicy, EditPolicyFile, SwitchNetwork
<1>3. CASE Tick
  <2>1. item[id].expiresAt \in Times
    BY DEF TypeOK, Item
  <2>. QED BY <1>3, <2>1 DEF Tick, TypeOK, Times
<1>4. CASE Restart
  BY <1>4 DEF Restart, Idle
<1>5. CASE UNCHANGED vars
  BY <1>5 DEF vars
<1>. QED BY <1>1, <1>2, <1>3, <1>4, <1>5

\* Once a preparedId was executed, has expired or was lost in a restart, and no
\* handler is in the middle of it, no transaction of it reaches the chain again.
THEOREM RetiredTheorem == Spec => RetiredForever
<1>1. TypeOK /\ RequestsOK /\ [Next]_vars => StaysRetired
  <2> SUFFICES ASSUME TypeOK, RequestsOK, [Next]_vars, NEW id \in Ids, Retired(id)
               PROVE  Retired(id)' /\ LandedOf(id)' = LandedOf(id)
    BY DEF StaysRetired
  <2>1. IdFrame(id)
    BY HandlerIdFrame, WorldIdFrame DEF Retired, Next, Handler
  <2>. QED BY <2>1 DEF IdFrame, Retired, InFlight
<1>. QED BY <1>1, TypesAndRequests, PTL DEF Spec, RetiredForever

-----------------------------------------------------------------------------
(* The execute path implements the ledger.                                    *)

Status == [id \in Ids |-> IF item[id] = None THEN "new"
                         ELSE IF Executable(id) THEN "open" ELSE "closed"]

Trying == [r \in Reqs |-> IF Executing(r) THEN req[r].id ELSE None]

\* Every step is a step of the ledger: an id is opened, taken up, landed, or a set
\* of handlers gives up while a set of ids closes.
LedgerMove ==
  \/ \E id \in Ids : /\ Status[id] = "new" /\ Status' = [Status EXCEPT ![id] = "open"]
                     /\ UNCHANGED <<Trying, landed>>
  \/ \E r \in Reqs, id \in Ids :
       /\ Trying[r] = None /\ Status[id] = "open"
       /\ Trying' = [Trying EXCEPT ![r] = id] /\ UNCHANGED <<Status, landed>>
  \/ \E r \in Reqs, hash \in Hash :
       /\ Trying[r] # None /\ landed' = landed \cup {[id |-> Trying[r], hash |-> hash]}
       /\ UNCHANGED <<Status, Trying>>
  \/ \E callers \in SUBSET Reqs, ids \in SUBSET Ids :
       /\ \A id \in ids : Status[id] = "open"
       /\ Status' = [id \in Ids |-> IF id \in ids THEN "closed" ELSE Status[id]]
       /\ Trying' = [r \in Reqs |-> IF r \in callers THEN None ELSE Trying[r]]
       /\ UNCHANGED landed

\* A step in which some handlers stop and no id opens is a Retire of the ledger.
LEMMA RetireMove ==
  ASSUME landed' = landed,
         \A id \in Ids : (item'[id] = None <=> item[id] = None) /\
                         (Executable(id)' /\ item'[id] # None => Executable(id)),
         \A r \in Reqs : Executing(r)' => Executing(r) /\ req'[r].id = req[r].id
  PROVE  LedgerMove
<1> DEFINE callers == {r \in Reqs : ~Executing(r)'}
           ids == {id \in Ids : Status[id] = "open" /\ Status'[id] # "open"}
<1>1. Status' = [id \in Ids |-> IF id \in ids THEN "closed" ELSE Status[id]]
  BY DEF Status
<1>2. Trying' = [r \in Reqs |-> IF r \in callers THEN None ELSE Trying[r]]
  BY DEF Trying
<1>3. callers \in SUBSET Reqs /\ ids \in SUBSET Ids /\ \A id \in ids : Status[id] = "open"
  OBVIOUS
<1>. QED BY <1>1, <1>2, <1>3 DEF LedgerMove

\* Only transactions of ids that were handed out are on the chain.
LandedKnown == \A sig \in landed : item[sig.id] # None

LEMMA LandedKnownStep ==
  ASSUME TypeOK, RequestsOK, LandedKnown, [Next]_vars PROVE LandedKnown'
<1> SUFFICES ASSUME NEW sig \in landed' PROVE item'[sig.id] # None
  BY DEF LandedKnown
<1>1. CASE sig \in landed
  <2>1. item[sig.id] # None /\ sig.id \in Ids
    BY <1>1 DEF LandedKnown, TypeOK, Signature
  <2>. QED BY <2>1, HandlerIdFrame, WorldIdFrame DEF IdFrame, Next, Handler
<1>2. CASE sig \notin landed
  <2>1. PICK r \in Reqs : Land(r)
    <3>1. ASSUME NEW r \in Reqs, Handler(r), ~Land(r) PROVE landed' = landed
      BY <3>1, ExecuteCases DEF Handler, Prepare, PrepareBegin, PrepareFinish, PrepareError,
         ExecuteUnconfirmed, ExecuteCase, ExecuteRepeated, ExecuteUnknown, RefuseExpired,
         ExecuteNoKeypair, ExecuteBlocked, ExecuteAccepted, Refuse, AnswerAtOnce, Blockhash,
         BlockhashAnswer, BlockhashError, Send, SendRejected, SendEnds, SendAnswerLost, Record,
         Settle, worldVars
    <3>2. ASSUME Cleanup \/ Operator \/ Tick \/ Restart \/ UNCHANGED vars PROVE landed' = landed
      BY <3>2 DEF Cleanup, Operator, ApplyPolicy, EditPolicyFile, SwitchNetwork, Tick, Restart,
         vars, worldVars
    <3>. QED BY <1>2, <3>1, <3>2 DEF Next, Handler
  <2>. QED BY <1>2, <2>1 DEF Land, daemonVars, RequestsOK, RequestOK, TypeOK, Request
<1>. QED BY <1>1, <1>2

LEMMA HandlerMove ==
  ASSUME TypeOK, RequestsOK, AnswersAreOnChain, LandedKnown, NEW r \in Reqs, Handler(r)
  PROVE  LedgerMove
<1> USE DEF daemonVars, worldVars
<1>1. ASSUME NEW id \in Ids, NEW simOk \in BOOLEAN, PrepareFinish(r, id, simOk) PROVE LedgerMove
  <2>1. executed[id] = None
    BY <1>1 DEF PrepareFinish, AnswersAreOnChain, OnChain, LandedKnown, TypeOK
  <2>2. now + Ttl \in Times /\ ~(now + Ttl <= now)
    BY <1>1 DEF PrepareFinish, TypeOK, Times
  <2>3. item'[id].expiresAt = now + Ttl /\ \A i \in Ids \ {id} : item'[i] = item[i]
    BY <1>1 DEF PrepareFinish, TypeOK
  <2>4. item'[id] # None
    BY <1>1, PrepareTypes DEF Prepare, PrepareFinish, TypeOK
  <2>5. Executable(id)' /\ \A i \in Ids \ {id} : Executable(i)' <=> Executable(i)
    BY <1>1, <2>1, <2>2, <2>3 DEF PrepareFinish, Executable, Expired
  <2>6. Status[id] = "new" /\ Status' = [Status EXCEPT ![id] = "open"]
    BY <1>1, <2>3, <2>4, <2>5 DEF PrepareFinish, Status
  <2>7. ~Executing(r) /\ ~Executing(r)' /\ \A x \in Reqs \ {r} : req'[x] = req[x]
    BY <1>1 DEF PrepareFinish, Answer, Idle, TypeOK, Executing
  <2>8. Trying' = Trying
    BY <2>7 DEF Trying, Executing
  <2>. QED BY <1>1, <2>6, <2>8 DEF PrepareFinish, LedgerMove
<1>2. ASSUME NEW id \in Ids, NEW wait \in BOOLEAN, ExecuteAccepted(r, id, wait) PROVE LedgerMove
  <2>1. item[id] # None
    BY <1>2 DEF ExecuteAccepted, Executable, TypeOK
  <2>2. Status[id] = "open" /\ Status' = Status
    BY <1>2, <2>1 DEF ExecuteAccepted, Status, Executable, Expired
  <2>3. ~Executing(r) /\ Executing(r)' /\ req'[r].id = id /\ \A x \in Reqs \ {r} : req'[x] = req[x]
    BY <1>2 DEF ExecuteAccepted, TypeOK, Idle, Executing
  <2>4. Trying[r] = None /\ Trying' = [Trying EXCEPT ![r] = id]
    BY <2>3 DEF Trying, Executing
  <2>. QED BY <1>2, <2>2, <2>4 DEF ExecuteAccepted, LedgerMove
<1>3. ASSUME Land(r) PROVE LedgerMove
  <2>1. /\ Executing(r) /\ req[r].id \in Ids /\ req[r].sig \in Signature
        /\ req[r].sig.id = req[r].id
    BY <1>3 DEF Land, TypeOK, Request, Executing, RequestsOK, RequestOK
  <2>2. \A x \in Reqs : (Executing(x)' <=> Executing(x)) /\ req'[x].id = req[x].id
    BY <1>3, <2>1 DEF Land, TypeOK, Request, Executing
  <2>3. Trying' = Trying /\ Trying[r] = req[r].id
    BY <2>1, <2>2 DEF Trying
  <2>4. Status' = Status
    BY <1>3 DEF Land, Status, Executable, Expired
  <2>5. req[r].sig = [id |-> Trying[r], hash |-> req[r].sig.hash] /\ req[r].sig.hash \in Hash
    BY <2>1, <2>3 DEF Signature
  <2>6. Trying[r] # None
    BY <2>1, <2>3
  <2>. QED BY <1>3, <2>3, <2>4, <2>5, <2>6 DEF Land, LedgerMove
<1>4. ASSUME \A id \in Ids, b \in BOOLEAN : ~PrepareFinish(r, id, b) /\ ~ExecuteAccepted(r, id, b),
             ~Land(r)
      PROVE  LedgerMove
  <2>1. landed' = landed /\ item' = item /\ now' = now
    BY <1>4, ExecuteCases DEF Handler, Prepare, PrepareBegin, PrepareError,
       ExecuteUnconfirmed, ExecuteCase, ExecuteRepeated, ExecuteUnknown, RefuseExpired,
       ExecuteNoKeypair, ExecuteBlocked, Refuse, AnswerAtOnce, Blockhash, BlockhashAnswer,
       BlockhashError, Send, SendRejected, SendEnds, SendAnswerLost, Record, Settle
  <2>2. \A id \in Ids : item'[id] # None /\ Executable(id)' => Executable(id)
    BY <2>1, HandlerIdFrame DEF IdFrame
  <2>3. \A x \in Reqs \ {r} : req'[x] = req[x]
    BY PrepareRequests, ExecuteRequests, AwaitRequests DEF Handler
  <2>4. Executing(r)' => Executing(r) /\ req'[r].id = req[r].id
    <3>1. CASE req'[r] = Idle
      BY <3>1, IdleNotExecuting
    <3>2. ASSUME NEW kind \in Kinds, NEW transfer \in BOOLEAN, PrepareBegin(r, kind, transfer)
          PROVE ~Executing(r)'
      BY <3>2 DEF PrepareBegin, TypeOK, Idle, Executing
    <3>3. ASSUME NEW slot \in 0 .. now, BlockhashAnswer(r, slot)
          PROVE Executing(r)' => Executing(r) /\ req'[r].id = req[r].id
      BY <3>3 DEF BlockhashAnswer, TypeOK, Request, Executing
    <3>4. ASSUME Record(r), req[r].wait PROVE ~Executing(r)'
      BY <3>4 DEF Record, TypeOK, Request, Executing
    <3>5. Answer(r) => req'[r] = Idle
      BY DEF Answer, TypeOK
    <3>. QED BY <1>4, <3>1, <3>2, <3>3, <3>4, <3>5, ExecuteCases DEF Handler, Prepare,
             PrepareError, ExecuteUnconfirmed, ExecuteCase, ExecuteRepeated, ExecuteUnknown,
             RefuseExpired, ExecuteNoKeypair, ExecuteBlocked, Refuse, AnswerAtOnce, Blockhash,
             BlockhashError, Send, SendRejected, SendEnds, SendAnswerLost, Record, Settle
  <2>5. \A x \in Reqs : Executing(x)' => Executing(x) /\ req'[x].id = req[x].id
    BY <2>3, <2>4 DEF Executing
  <2>. QED BY <2>1, <2>2, <2>5, RetireMove
<1>. QED BY <1>1, <1>2, <1>3, <1>4

LEMMA WorldMove ==
  ASSUME TypeOK, RequestsOK, Cleanup \/ Operator \/ Tick \/ Restart \/ UNCHANGED vars
  PROVE  LedgerMove
<1>1. landed' = landed /\ item' = item
  BY DEF Cleanup, Operator, ApplyPolicy, EditPolicyFile, SwitchNetwork, Tick, Restart, vars,
     daemonVars, worldVars
<1>2. \A id \in Ids : item'[id] # None /\ Executable(id)' => Executable(id)
  BY <1>1, WorldIdFrame DEF IdFrame
<1>3. req' = req \/ \A r \in Reqs : req'[r] = Idle
  BY DEF Cleanup, Operator, ApplyPolicy, EditPolicyFile, SwitchNetwork, Tick, Restart, vars
<1>4. \A r \in Reqs : Executing(r)' => Executing(r) /\ req'[r].id = req[r].id
  BY <1>3, IdleNotExecuting DEF Executing
<1>. QED BY <1>1, <1>2, <1>4, RetireMove

\* The daemon's execute path implements BroadcastLedger: an id is opened once,
\* closed once, and tried only while it is open, across races and restarts.
THEOREM LedgerTheorem == Spec => ImplementsLedger
<1> USE DEF Status, Trying
<1>1. Init => Ledger!Init
  BY DEF Init, Ledger!Init, Executing, Idle
<1>2. LedgerMove => [Ledger!Next]_(Ledger!lvars)
  BY DEF LedgerMove, Ledger!Next, Ledger!Open, Ledger!Try, Ledger!Land, Ledger!Retire,
     Ledger!lvars
<1>3. TypeOK /\ RequestsOK /\ AnswersAreOnChain /\ LandedKnown /\ [Next]_vars
        => [Ledger!Next]_(Ledger!lvars)
  <2> SUFFICES ASSUME TypeOK, RequestsOK, AnswersAreOnChain, LandedKnown, [Next]_vars
               PROVE  LedgerMove
    BY <1>2
  <2>. QED BY HandlerMove, WorldMove DEF Next, Handler
<1>4. Init => LandedKnown
  BY DEF Init, LandedKnown
<1>5. TypeOK /\ RequestsOK /\ LandedKnown /\ [Next]_vars => LandedKnown'
  BY LandedKnownStep
<1>. QED BY <1>1, <1>3, <1>4, <1>5, TypesAndRequests, AnswersTheorem, PTL
         DEF Spec, ImplementsLedger, Ledger!Spec

-----------------------------------------------------------------------------
(* The policy gate, when the operator is quiet.                               *)

Passes(n, id) == Decide[<<policyFile, n, item[id].kind, item[id].simOk>>] # "block"

\* The engine is the file, and whatever passed the gate still would.
QuietInv ==
  Moves = {} /\ policyFile \in Policies =>
    /\ policy = policyFile
    /\ \A r \in Reqs : Executing(r) => Passes(req[r].net, req[r].id)
    /\ \A sig \in landed : Passes(sig.hash.net, sig.id)

LEMMA QuietPolicy ==
  ASSUME TypeOK, QuietInv, [Next]_vars, Moves = {}
  PROVE  policyFile' = policyFile /\ (policyFile \in Policies => policy' = policyFile)
<1> USE DEF daemonVars, worldVars
<1>1. ASSUME NEW r \in Reqs, Handler(r) PROVE policyFile' = policyFile /\ policy' = policy
  BY <1>1, ExecuteCases DEF Handler, Prepare, PrepareBegin, PrepareFinish, PrepareError,
     ExecuteUnconfirmed, ExecuteCase, ExecuteRepeated, ExecuteUnknown, RefuseExpired,
     ExecuteNoKeypair, ExecuteBlocked, ExecuteAccepted, Refuse, AnswerAtOnce, Blockhash,
     BlockhashAnswer, BlockhashError, Send, Land, SendRejected, SendEnds, SendAnswerLost,
     Record, Settle
<1>2. ASSUME Cleanup \/ Tick \/ UNCHANGED vars PROVE policyFile' = policyFile /\ policy' = policy
  BY <1>2 DEF Cleanup, Tick, vars
<1>3. ASSUME Restart
      PROVE policyFile' = policyFile /\ (policyFile \in Policies => policy' = policyFile)
  BY <1>3 DEF Restart
<1>4. ~Operator
  BY DEF Operator
<1>. QED BY <1>1, <1>2, <1>3, <1>4 DEF QuietInv, Next, Handler

\* An artifact never changes once it was handed out.
LEMMA ItemFrame ==
  ASSUME TypeOK, [Next]_vars, NEW id \in Ids, item[id] # None PROVE item'[id] = item[id]
<1> USE DEF daemonVars, worldVars
<1>1. ASSUME NEW r \in Reqs, NEW i \in Ids, NEW simOk \in BOOLEAN, PrepareFinish(r, i, simOk)
      PROVE item'[id] = item[id]
  BY <1>1 DEF PrepareFinish, TypeOK
<1>2. ASSUME NEW r \in Reqs, Handler(r), \A i \in Ids, b \in BOOLEAN : ~PrepareFinish(r, i, b)
      PROVE item' = item
  BY <1>2, ExecuteCases DEF Handler, Prepare, PrepareBegin, PrepareError,
     ExecuteUnconfirmed, ExecuteCase, ExecuteRepeated, ExecuteUnknown, RefuseExpired,
     ExecuteNoKeypair, ExecuteBlocked, ExecuteAccepted, Refuse, AnswerAtOnce, Blockhash,
     BlockhashAnswer, BlockhashError, Send, Land, SendRejected, SendEnds, SendAnswerLost,
     Record, Settle
<1>3. ASSUME Cleanup \/ Operator \/ Tick \/ Restart \/ UNCHANGED vars PROVE item' = item
  BY <1>3 DEF Cleanup, Operator, ApplyPolicy, EditPolicyFile, SwitchNetwork, Tick, Restart, vars
<1>. QED BY <1>1, <1>2, <1>3 DEF Next, Handler

\* Every handler that is executing was before, for the same id and cluster, or is
\* taken up by this step, through the gate.
LEMMA ExecutingSteps ==
  ASSUME TypeOK, RequestsOK, [Next]_vars, NEW r \in Reqs, Executing(r)'
  PROVE  \/ Executing(r) /\ req'[r].id = req[r].id /\ req'[r].net = req[r].net
         \/ /\ req'[r].id \in Ids /\ req'[r].net = net
            /\ Executable(req'[r].id) /\ Verdict(req'[r].id) # "block"
<1> USE DEF daemonVars, worldVars
<1>1. req'[r] # Idle
  BY IdleNotExecuting
<1>2. CASE req'[r] = req[r]
  BY <1>2 DEF Executing
<1>3. CASE req'[r] # req[r]
  <2>1. ASSUME NEW x \in Reqs, Handler(x) PROVE x = r
    BY <1>3, <2>1, PrepareRequests, ExecuteRequests, AwaitRequests DEF Handler
  <2>2. ~Answer(r) /\ ~Restart
    BY <1>1 DEF Answer, Restart, TypeOK
  <2>3. ~(Cleanup \/ Operator \/ Tick \/ UNCHANGED vars)
    BY <1>3 DEF Cleanup, Operator, ApplyPolicy, EditPolicyFile, SwitchNetwork, Tick, vars
  <2>4. ASSUME NEW kind \in Kinds, NEW transfer \in BOOLEAN, PrepareBegin(r, kind, transfer)
        PROVE FALSE
    BY <2>4 DEF PrepareBegin, TypeOK, Idle, Executing
  <2>5. ASSUME NEW slot \in 0 .. now, BlockhashAnswer(r, slot)
        PROVE Executing(r) /\ req'[r].id = req[r].id /\ req'[r].net = req[r].net
    BY <2>5 DEF BlockhashAnswer, TypeOK, Request, Executing
  <2>6. ASSUME Land(r)
        PROVE Executing(r) /\ req'[r].id = req[r].id /\ req'[r].net = req[r].net
    BY <2>6 DEF Land, TypeOK, Request, Executing, RequestsOK, RequestOK
  <2>7. ~Record(r)
    BY <2>2 DEF Record, TypeOK, Request, Executing
  <2>8. ASSUME NEW id \in Ids, NEW wait \in BOOLEAN, ExecuteAccepted(r, id, wait)
        PROVE  /\ req'[r].id \in Ids /\ req'[r].net = net
               /\ Executable(req'[r].id) /\ Verdict(req'[r].id) # "block"
    BY <2>8 DEF ExecuteAccepted, TypeOK, Idle
  <2>. QED BY <2>1, <2>2, <2>3, <2>4, <2>5, <2>6, <2>7, <2>8, ExecuteCases DEF Next, Handler,
           Prepare, PrepareFinish, PrepareError, ExecuteUnconfirmed, ExecuteCase, ExecuteRepeated,
           ExecuteUnknown, RefuseExpired, ExecuteNoKeypair, ExecuteBlocked, Refuse, AnswerAtOnce,
           Blockhash, BlockhashError, Send, SendRejected, SendEnds, SendAnswerLost, Settle
<1>. QED BY <1>2, <1>3

\* Which steps land a transaction.
LEMMA LandingSteps ==
  ASSUME TypeOK, RequestsOK, [Next]_vars, NEW sig \in landed' \ landed
  PROVE  \E r \in Reqs : Executing(r) /\ sig = req[r].sig /\ sig.hash.net = req[r].net
                         /\ sig.id = req[r].id
<1>1. PICK r \in Reqs : Land(r)
  <2>1. ASSUME NEW r \in Reqs, Handler(r), ~Land(r) PROVE landed' = landed
    BY <2>1, ExecuteCases DEF Handler, Prepare, PrepareBegin, PrepareFinish, PrepareError,
       ExecuteUnconfirmed, ExecuteCase, ExecuteRepeated, ExecuteUnknown, RefuseExpired,
       ExecuteNoKeypair, ExecuteBlocked, ExecuteAccepted, Refuse, AnswerAtOnce, Blockhash,
       BlockhashAnswer, BlockhashError, Send, SendRejected, SendEnds, SendAnswerLost, Record,
       Settle, worldVars
  <2>2. ASSUME Cleanup \/ Operator \/ Tick \/ Restart \/ UNCHANGED vars PROVE landed' = landed
    BY <2>2 DEF Cleanup, Operator, ApplyPolicy, EditPolicyFile, SwitchNetwork, Tick, Restart,
       vars, worldVars
  <2>. QED BY <2>1, <2>2 DEF Next, Handler
<1>. QED BY <1>1 DEF Land, Executing, RequestsOK, RequestOK, TypeOK, Request

\* With a quiet operator, nothing the policy on disk would block ever lands.
THEOREM QuietGateTheorem == Spec => []QuietGate
<1>1. Init => QuietInv /\ LandedKnown
  BY NoneAssumption DEF Init, QuietInv, LandedKnown, Executing, Idle
<1>2. TypeOK /\ RequestsOK /\ LandedKnown /\ QuietInv /\ [Next]_vars => QuietInv'
  <2> SUFFICES ASSUME TypeOK, RequestsOK, LandedKnown, QuietInv, [Next]_vars,
                      Moves = {}, policyFile' \in Policies
               PROVE  /\ policy' = policyFile'
                      /\ \A r \in Reqs : Executing(r)' => Passes(req[r].net, req[r].id)'
                      /\ \A sig \in landed' : Passes(sig.hash.net, sig.id)'
    BY DEF QuietInv
  <2>1. policyFile' = policyFile /\ policy' = policyFile /\ policy = policyFile
    BY QuietPolicy DEF QuietInv
  <2>2. ASSUME NEW id \in Ids, item[id] # None, NEW n, Passes(n, id)
        PROVE  Decide[<<policyFile', n, item'[id].kind, item'[id].simOk>>] # "block"
    BY <2>1, <2>2, ItemFrame DEF Passes
  <2>3. ASSUME NEW r \in Reqs, Executing(r)' PROVE Passes(req[r].net, req[r].id)'
    <3>1. CASE Executing(r) /\ req'[r].id = req[r].id /\ req'[r].net = req[r].net
      <4>1. req[r].id \in Ids /\ item[req[r].id] # None
        BY <3>1 DEF Executing, RequestsOK, RequestOK
      <4>2. Passes(req[r].net, req[r].id)
        BY <2>1, <3>1 DEF QuietInv
      <4>. QED BY <2>2, <3>1, <4>1, <4>2 DEF Passes
    <3>2. CASE /\ req'[r].id \in Ids /\ req'[r].net = net
               /\ Executable(req'[r].id) /\ Verdict(req'[r].id) # "block"
      <4>1. item[req'[r].id] # None
        BY <3>2 DEF Executable, TypeOK
      <4>2. Passes(net, req'[r].id)
        BY <2>1, <3>2, NoneAssumption DEF Verdict, Passes
      <4>. QED BY <2>2, <3>2, <4>1, <4>2 DEF Passes
    <3>. QED BY <2>3, <3>1, <3>2, ExecutingSteps
  <2>4. ASSUME NEW sig \in landed' PROVE Passes(sig.hash.net, sig.id)'
    <3>1. CASE sig \in landed
      <4>1. sig.id \in Ids /\ item[sig.id] # None
        BY <3>1 DEF TypeOK, Signature, LandedKnown
      <4>2. Passes(sig.hash.net, sig.id)
        BY <2>1, <3>1 DEF QuietInv
      <4>. QED BY <2>2, <4>1, <4>2 DEF Passes
    <3>2. CASE sig \notin landed
      <4>1. PICK r \in Reqs : Executing(r) /\ sig = req[r].sig /\ sig.hash.net = req[r].net
                              /\ sig.id = req[r].id
        BY <3>2, LandingSteps
      <4>2. sig.id \in Ids /\ item[sig.id] # None
        BY <4>1 DEF Executing, RequestsOK, RequestOK
      <4>3. Passes(sig.hash.net, sig.id)
        BY <2>1, <4>1 DEF QuietInv
      <4>. QED BY <2>2, <4>2, <4>3 DEF Passes
    <3>. QED BY <3>1, <3>2
  <2>. QED BY <2>1, <2>3, <2>4
<1>3. TypeOK /\ RequestsOK /\ LandedKnown /\ [Next]_vars => LandedKnown'
  BY LandedKnownStep
<1>4. QuietInv => QuietGate
  BY DEF QuietInv, QuietGate, Passes
<1>. QED BY <1>1, <1>2, <1>3, <1>4, TypesAndRequests, PTL DEF Spec
=============================================================================
