---------------------------- MODULE RunnerProofs ----------------------------
(* What the broadcasts of the workflow runners have in common, for any number *)
(* of processes, any workflows, and any policies: the history is ordered,     *)
(* what is simulated was simulated with success, large amounts were           *)
(* confirmed, and a run of runner.ts keeps its cooldown.                      *)
EXTENDS Runner, SequenceTheorems, FiniteSetTheorems, TLAPS

RunFields == {"pc", "flavour", "policy", "approver", "flow", "stage", "action", "ctx", "hist",
              "last", "count", "at", "said", "endpoint", "sent", "confirmed", "builds", "fresh",
              "simulated", "sums"}
CtxFields == {"quote", "built", "extra", "simulation", "submitted"}
Shaped(r) == DOMAIN r = RunFields /\ DOMAIN r.ctx = CtxFields

\* Timestamps in order, up to t.
Ordered(h, t) ==
  /\ h \in Seq(Nat)
  /\ \A i, j \in DOMAIN h : i < j => h[i] <= h[j]
  /\ \A i \in DOMAIN h : h[i] <= t

\* A process remembers no more broadcasts than there were, and not the one under way.
Remembers(r, t, n) ==
  /\ Ordered(r.hist, t) /\ Len(r.hist) <= n
  /\ r.sent => r.pc = "sending" /\ Len(r.hist) < n

\* The simulation of a context that is fresh is that of its transaction.
Simulates(r) ==
  r.fresh /\ r.ctx.simulation.ok => r.ctx.built.no \in r.simulated

\* The sums of a run have a coin and a size, a swap has no summary of a transfer, and
\* what is sent was built.
Sum == [coin: Coins, size: Nat]
Builds(r) ==
  /\ r.sums \subseteq Sum
  /\ r.ctx.quote # None => r.ctx.quote.sum \in Sum
  /\ r.ctx.built # None => IF r.ctx.built.quote # None THEN r.ctx.built.transfer = None
                           ELSE r.ctx.built.transfer \in Sum \cup {None}
  /\ r.pc = "sending" => r.ctx.built # None

\* What the policy has seen to, once it has answered.
Asked(r) ==
  r.pc \in {"asking", "sending"} /\ r.policy # None /\ r.policy.requireSimulation /\ r.said = "mainnet"
    => r.ctx.simulation # None /\ r.ctx.simulation.ok
Large(r) ==
  \/ AmountSol(r) # None /\ r.policy.maxSingleSol # None /\ AmountSol(r) > r.policy.maxSingleSol
  \/ AmountUsd(r) # None /\ AmountUsd(r) > r.policy.maxSingleUsd
Agreed(r) == r.pc = "sending" /\ r.policy # None /\ Large(r) => r.confirmed

RunOK(r, t, n) == Shaped(r) /\ Remembers(r, t, n) /\ Simulates(r) /\ Builds(r) /\ Asked(r) /\ Agreed(r)

\* A broadcast that bears out the properties, going by the network the gate was told.
Fine(b) ==
  /\ b.policy # None /\ b.policy.requireSimulation /\ b.said = "mainnet" /\ b.fresh => b.simulated
  /\ b.flavour = "run" /\ b.policy # None /\ b.moves # None
       /\ (b.own \/ (b.transfer /\ b.moves.coin = "sol")) /\ TooLarge(b.policy, b.moves)
       => b.confirmed

Inv ==
  /\ now \in Nat /\ DOMAIN run = Procs
  /\ history # Corrupt => Ordered(history, now) /\ Len(history) <= Len(landed)
  /\ \E S : landed \in Seq(S)
  /\ \A p \in Procs : RunOK(run[p], now, Len(landed))
  /\ \A i \in DOMAIN landed : Fine(landed[i])

-----------------------------------------------------------------------------
(* What the steps do to the state of a process.                              *)

\* The process has gone on, away from a gate.
GoesOn(r, s) ==
  /\ Shaped(s) /\ s.pc \notin {"idle", "looking", "asking", "sending"}
  /\ \A f \in {"policy", "flavour", "ctx", "hist", "at", "sent", "fresh", "simulated", "sums"} : s[f] = r[f]

LEMMA GoingOn ==
  ASSUME NEW r, NEW s, NEW t, NEW n, RunOK(r, t, n), r.pc # "sending", GoesOn(r, s)
  PROVE  RunOK(s, t, n)
<1>1. /\ s.hist = r.hist /\ s.sent = r.sent /\ s.ctx = r.ctx /\ s.fresh = r.fresh
      /\ s.simulated = r.simulated /\ s.pc \notin {"asking", "sending"} /\ Shaped(s)
      /\ s.sums = r.sums
  BY DEF GoesOn
<1>. QED
  BY <1>1 DEF RunOK, Remembers, Simulates, Builds, Asked, Agreed

LEMMA StageGoesOn == ASSUME NEW r, Shaped(r) PROVE GoesOn(r, NextStage(r))
  BY DEF Shaped, RunFields, CtxFields, NextStage, GoesOn

LEMMA ActionGoesOn == ASSUME NEW r, Shaped(r) PROVE GoesOn(r, NextAction(r))
  BY StageGoesOn DEF Shaped, RunFields, CtxFields, NextAction, GoesOn

LEMMA NothingIsOrdered == \A t : Ordered(<<>>, t)
  BY DEF Ordered

LEMMA IdleOK ==
  ASSUME NEW t \in Nat, NEW n \in Nat PROVE RunOK(Idle, t, n) /\ RunOK(Over, t, n)
<1>1. Len(<<>>) = 0
  OBVIOUS
<1>. QED
  BY <1>1, NothingIsOrdered DEF Idle, Over, EmptyCtx, RunOK, Shaped, RunFields, CtxFields, Remembers, Simulates, Builds,
     Asked, Agreed

\* Time passes and others broadcast.
LEMMA Later ==
  ASSUME NEW r, NEW t \in Nat, NEW u \in Nat, NEW n \in Nat, NEW m \in Nat, t <= u, n <= m,
         RunOK(r, t, n)
  PROVE  RunOK(r, u, m)
<1>. DEFINE h == r.hist
<1>0. Ordered(h, t) /\ h \in Seq(Nat) /\ Len(h) \in Nat /\ Len(h) <= n /\ (r.sent => Len(h) < n)
  BY DEF RunOK, Remembers, Ordered
<1>1. Ordered(r.hist, u)
  <2>. SUFFICES Ordered(h, u)
    OBVIOUS
  <2>. HIDE DEF h
  <2>. QED
    BY <1>0 DEF Ordered
<1>2. Len(r.hist) <= m /\ (r.sent => Len(r.hist) < m)
  <2>. SUFFICES Len(h) <= m /\ (r.sent => Len(h) < m)
    OBVIOUS
  <2>. HIDE DEF h
  <2>. QED
    BY <1>0
<1>. QED
  BY <1>1, <1>2 DEF RunOK, Remembers

-----------------------------------------------------------------------------
(* The history.                                                              *)

LEMMA SavedIsOrdered ==
  ASSUME NEW h, NEW t \in Nat, Ordered(h, t)
  PROVE  Ordered(Saved(h), t) /\ Len(Saved(h)) <= Len(h)
<1>1. h \in Seq(Nat) /\ Len(h) \in Nat /\ HistoryCap \in Nat
  BY NumbersAssumption DEF Ordered
<1>2. CASE Len(h) <= HistoryCap
  BY <1>1, <1>2 DEF Saved
<1>3. CASE ~(Len(h) <= HistoryCap)
  <2>. DEFINE m == Len(h) - HistoryCap + 1
              s == SubSeq(h, m, Len(h))
  <2>1. m \in Nat /\ m >= 1 /\ \A i \in m .. Len(h) : i \in DOMAIN h /\ h[i] \in Nat
    BY <1>1, <1>3
  <2>2. /\ s \in Seq(Nat) /\ Len(s) = IF m <= Len(h) THEN Len(h) - m + 1 ELSE 0
        /\ \A i \in 1 .. Len(h) - m + 1 : s[i] = h[m + i - 1]
    <3>1. m \in Int /\ Len(h) \in Int /\ \A i \in m .. Len(h) : h[i] \in Nat
      BY <1>1, <2>1
    <3>. HIDE DEF m
    <3>. QED
      BY <3>1, SubSeqProperties
  <2>3. \A i \in DOMAIN s : m + i - 1 \in DOMAIN h /\ s[i] = h[m + i - 1]
    <3>1. Len(s) \in Nat /\ DOMAIN s = 1 .. Len(s) /\ DOMAIN h = 1 .. Len(h)
      BY <1>1, <2>2
    <3>. DEFINE k == Len(h) - m + 1
    <3>2. Len(h) \in Nat /\ m <= Len(h) + 1 /\ k \in Nat /\ m + k - 1 = Len(h)
      BY <1>1, <1>3
    <3>. HIDE DEF s, m
    <3>3. DOMAIN s = 1 .. k /\ \A i \in 1 .. k : s[i] = h[m + i - 1]
      BY <2>1, <2>2, <3>1, <3>2
    <3>. HIDE DEF k
    <3>4. \A i \in 1 .. k : m + i - 1 \in m .. Len(h)
      BY <1>1, <2>1, <3>2
    <3>. QED
      BY <2>1, <3>3, <3>4
  <2>4. \A i, j \in DOMAIN s : i < j => s[i] <= s[j]
    <3>. SUFFICES ASSUME NEW i \in DOMAIN s, NEW j \in DOMAIN s, i < j PROVE s[i] <= s[j]
      OBVIOUS
    <3>1. i \in Nat /\ j \in Nat
      BY <2>2
    <3>2. m + i - 1 \in DOMAIN h /\ m + j - 1 \in DOMAIN h /\ m + i - 1 < m + j - 1
      BY <2>1, <2>3, <3>1
    <3>3. h[m + i - 1] <= h[m + j - 1]
      BY <3>2 DEF Ordered
    <3>. QED
      BY <2>3, <3>3
  <2>5. \A i \in DOMAIN s : s[i] <= t
    BY <2>3 DEF Ordered
  <2>6. Saved(h) = s
    BY <1>3 DEF Saved
  <2>7. Len(s) <= Len(h)
    BY <1>1, <2>1, <2>2
  <2>. HIDE DEF s
  <2>. QED
    BY <2>2, <2>4, <2>5, <2>6, <2>7 DEF Ordered
<1>. QED
  BY <1>2, <1>3

LEMMA PushedIsOrdered ==
  ASSUME NEW h, now \in Nat, Ordered(h, now)
  PROVE  Ordered(Pushed(h), now) /\ Len(Pushed(h)) = Len(h) + 1
<1>. DEFINE s == Append(h, now)
<1>1. /\ s \in Seq(Nat) /\ Len(s) = Len(h) + 1 /\ Len(h) \in Nat
      /\ \A i \in DOMAIN h : s[i] = h[i] /\ s[Len(h) + 1] = now
  BY DEF Ordered
<1>2. \A i \in DOMAIN s : s[i] \in Nat /\ s[i] <= now
  BY <1>1 DEF Ordered
<1>3. ASSUME NEW i \in DOMAIN s, NEW j \in DOMAIN s, i < j PROVE s[i] <= s[j]
  <2>1. i \in DOMAIN h /\ s[i] = h[i]
    BY <1>1, <1>3
  <2>2. CASE j \in DOMAIN h
    BY <1>1, <1>3, <2>1, <2>2 DEF Ordered
  <2>3. CASE j \notin DOMAIN h
    <3>1. s[j] = now
      BY <1>1, <2>3
    <3>. QED
      BY <1>2, <3>1
  <2>. QED
    BY <2>2, <2>3
<1>. QED
  BY <1>1, <1>2, <1>3 DEF Ordered, Pushed

-----------------------------------------------------------------------------
(* The steps.                                                                *)

LEMMA Known ==
  ASSUME Inv, NEW p \in Procs
  PROVE  RunOK(run[p], now, Len(landed)) /\ Shaped(run[p]) /\ Len(landed) \in Nat /\ now \in Nat
  BY DEF Inv, RunOK

\* A step of one process that leaves the history and the chain alone.
LEMMA QuietStep ==
  ASSUME Inv, NEW p \in Procs, NEW s, Become(p, s), RunOK(s, now, Len(landed)),
         UNCHANGED <<now, history, landed>>
  PROVE  Inv'
<1>1. \A q \in Procs : RunOK(run'[q], now, Len(landed))
  BY DEF Inv, Become
<1>2. DOMAIN run' = Procs
  BY DEF Inv, Become
<1>. QED
  BY <1>1, <1>2 DEF Inv

LEMMA StartKeeps ==
  ASSUME Inv, NEW p \in Procs, NEW st \in Starts, Start(p, st)
  PROVE  Inv'
<1>. DEFINE h == IF st.flavour = "runner" THEN LoadHistory ELSE <<>>
            s == [Idle EXCEPT !.pc = "stage", !.flavour = st.flavour, !.policy = st.policy,
                    !.approver = st.approver, !.flow = st.flow, !.sums = st.sums, !.hist = h]
<1>1. Ordered(h, now) /\ Len(h) <= Len(landed) /\ Len(landed) \in Nat
  <2>1. Len(<<>>) = 0 /\ Len(landed) \in Nat
    BY DEF Inv
  <2>. QED
    BY <2>1, NothingIsOrdered DEF Inv, LoadHistory
<1>2. /\ Shaped(s) /\ s.pc = "stage" /\ s.hist = h /\ s.sent = FALSE /\ s.fresh = FALSE
      /\ s.ctx = EmptyCtx /\ s.sums = st.sums
  <2>. HIDE DEF h
  <2>. QED
    BY DEF Idle, EmptyCtx, Shaped, RunFields, CtxFields
<1>3. RunOK(s, now, Len(landed))
  <2>. HIDE DEF h, s
  <2>1. st.sums \subseteq Sum
    BY StartsAssumption DEF Sum
  <2>. QED
    BY <1>1, <1>2, <2>1 DEF RunOK, Remembers, Simulates, Builds, Asked, Agreed, EmptyCtx
<1>4. Become(p, s) /\ UNCHANGED <<now, history, landed>>
  BY DEF Start, Files
<1>. HIDE DEF h, s
<1>. QED
  BY <1>3, <1>4, QuietStep

\* Where a step leads, if it goes on, stops, or does not change what matters.
LEMMA GoingStep ==
  ASSUME Inv, NEW p \in Procs, NEW s, Become(p, s), (GoesOn(run[p], s) /\ run[p].pc # "sending") \/ s = Over,
         UNCHANGED <<now, history, landed>>
  PROVE  Inv'
<1>1. RunOK(s, now, Len(landed))
  BY Known, GoingOn, IdleOK
<1>. QED
  BY <1>1, QuietStep

LEMMA RunStageKeeps ==
  ASSUME Inv, NEW p \in Procs, RunStage(p)
  PROVE  Inv'
<1>. DEFINE r == run[p]
<1>1. UNCHANGED <<now, history, landed>> /\ Shaped(r) /\ r.pc = "stage"
  BY Known DEF RunStage, Files
<1>2. GoesOn(r, NextStage(r))
  BY <1>1, StageGoesOn
<1>3. GoesOn(r, [r EXCEPT !.pc = "approving"]) /\ GoesOn(r, [r EXCEPT !.pc = "ready"])
  BY <1>1 DEF GoesOn, Shaped, RunFields, CtxFields
<1>4. GoesOn(r, Entered(r)) \/ Entered(r) = Over
  BY <1>2, <1>3 DEF Entered
<1>5. \/ Become(p, Over) \/ Become(p, NextStage(r)) \/ Become(p, Entered(r))
  BY DEF RunStage
<1>. QED
  BY <1>1, <1>2, <1>4, <1>5, GoingStep

LEMMA BeginKeeps ==
  ASSUME Inv, NEW p \in Procs, Begin(p)
  PROVE  Inv'
<1>. DEFINE s == [run[p] EXCEPT !.pc = "acting", !.endpoint = EndpointOf(run[p])]
<1>1. GoesOn(run[p], s)
  BY Known DEF GoesOn, Shaped, RunFields, CtxFields
<1>2. Become(p, s) /\ UNCHANGED <<now, history, landed>> /\ run[p].pc = "ready"
  BY DEF Begin, Files
<1>. QED
  BY <1>1, <1>2, GoingStep

\* A tool returns: what it leaves in the context must be in order, and is then kept.
LEMMA ReturnsKeeps ==
  ASSUME Inv, NEW p \in Procs, NEW tool, NEW r, Returns(p, tool, r),
         Shaped(r), r.pc = "acting", Remembers(r, now, Len(landed)), Simulates(r), Builds(r)
  PROVE  Inv'
<1>. DEFINE s == [r EXCEPT !.endpoint = None]
            u == NextAction(s)
<1>1. /\ Shaped(s) /\ s.hist = r.hist /\ s.sent = r.sent /\ s.ctx = r.ctx /\ s.fresh = r.fresh
      /\ s.simulated = r.simulated /\ s.sums = r.sums
  BY DEF Shaped, RunFields, CtxFields
<1>2. GoesOn(s, u)
  BY <1>1, ActionGoesOn
<1>3. /\ Shaped(u) /\ u.hist = r.hist /\ u.sent = r.sent /\ u.ctx = r.ctx /\ u.fresh = r.fresh
      /\ u.simulated = r.simulated /\ u.sums = r.sums /\ u.pc \notin {"asking", "sending"} /\ ~u.sent
  <2>. HIDE DEF s, u
  <2>. QED
    BY <1>1, <1>2 DEF GoesOn, Remembers
<1>4. RunOK(u, now, Len(landed))
  <2>. HIDE DEF s, u
  <2>. QED
    BY <1>3 DEF RunOK, Remembers, Simulates, Builds, Asked, Agreed
<1>5. Become(p, u) /\ UNCHANGED <<now, history, landed>>
  BY DEF Returns, Files
<1>. HIDE DEF s, u
<1>. QED
  BY <1>4, <1>5, QuietStep

LEMMA QuotedKeeps ==
  ASSUME Inv, NEW p \in Procs, NEW sum \in run[p].sums \cup {None}, Quoted(p, sum)
  PROVE  Inv'
<1>. DEFINE quote == IF sum = None THEN None ELSE [sum |-> sum, by |-> "jupiter"]
            r == [run[p] EXCEPT !.ctx.quote = quote]
<1>1. RunOK(run[p], now, Len(landed)) /\ Returns(p, "quote", r) /\ run[p].pc = "acting"
  BY Known DEF Quoted, Returns
<1>2. quote # None => quote.sum \in Sum
  BY <1>1 DEF RunOK, Builds
<1>3. /\ Shaped(r) /\ r.hist = run[p].hist /\ r.sent = run[p].sent /\ r.fresh = run[p].fresh
      /\ r.simulated = run[p].simulated /\ r.pc = run[p].pc /\ r.sums = run[p].sums
      /\ r.ctx.built = run[p].ctx.built /\ r.ctx.simulation = run[p].ctx.simulation
      /\ r.ctx.quote = quote
  <2>. HIDE DEF quote
  <2>. QED
    BY <1>1 DEF RunOK, Shaped, RunFields, CtxFields
<1>4. Remembers(r, now, Len(landed)) /\ Simulates(r) /\ Builds(r)
  <2>. HIDE DEF r, quote
  <2>. QED
    BY <1>1, <1>2, <1>3 DEF RunOK, Remembers, Simulates, Builds
<1>. HIDE DEF r, quote
<1>. QED
  BY <1>1, <1>3, <1>4, ReturnsKeeps

LEMMA BuiltKeeps ==
  ASSUME Inv, NEW p \in Procs, NEW tool, NEW tx, NEW quote, NEW extra,
         quote # None => quote.sum \in Sum,
         IF tx.quote # None THEN tx.transfer = None ELSE tx.transfer \in Sum \cup {None},
         Returns(p, tool, WithTx(run[p], tx, quote, extra))
  PROVE  Inv'
<1>. DEFINE r == WithTx(run[p], tx, quote, extra)
<1>1. RunOK(run[p], now, Len(landed)) /\ run[p].pc = "acting"
  BY Known DEF Returns
<1>2. /\ Shaped(r) /\ r.hist = run[p].hist /\ r.sent = run[p].sent /\ r.fresh = FALSE
      /\ r.ctx.built = tx /\ r.ctx.quote = quote /\ r.pc = "acting" /\ r.sums = run[p].sums
  BY <1>1 DEF RunOK, Shaped, RunFields, CtxFields, WithTx
<1>3. Remembers(r, now, Len(landed)) /\ Simulates(r) /\ Builds(r)
  <2>. HIDE DEF r
  <2>. QED
    BY <1>1, <1>2 DEF RunOK, Remembers, Simulates, Builds
<1>. HIDE DEF r
<1>4. Returns(p, tool, r)
  BY DEF r
<1>. QED
  BY <1>2, <1>3, <1>4, ReturnsKeeps

LEMMA BuildersKeep ==
  ASSUME Inv, NEW p \in Procs
  PROVE  /\ BuiltSwap(p) => Inv'
         /\ \A sum \in run[p].sums : BuiltTransfer(p, sum) => Inv'
         /\ \A sum \in run[p].sums \cup {None}, signers \in BOOLEAN :
              BuiltByAdapter(p, sum, signers) => Inv'
<1>. DEFINE r == run[p]
<1>1. r.sums \subseteq Sum /\ (r.ctx.quote # None => r.ctx.quote.sum \in Sum)
  BY Known DEF RunOK, Builds
<1>3. ASSUME BuiltSwap(p) PROVE Inv'
  <2>. DEFINE tx == Tx(r, r.ctx.quote, None, FALSE)
  <2>1. Returns(p, "buildSwap", WithTx(r, tx, r.ctx.quote, r.ctx.extra))
    BY <1>3 DEF BuiltSwap
  <2>2. tx.quote = r.ctx.quote /\ tx.transfer = None
    BY DEF Tx
  <2>. HIDE DEF tx
  <2>. QED
    BY <1>1, <2>1, <2>2, BuiltKeeps
<1>4. ASSUME NEW sum \in r.sums, BuiltTransfer(p, sum) PROVE Inv'
  <2>. DEFINE tx == Tx(r, None, sum, FALSE)
  <2>1. Returns(p, "buildTransfer", WithTx(r, tx, r.ctx.quote, r.ctx.extra))
    BY <1>4 DEF BuiltTransfer
  <2>2. tx.quote = None /\ tx.transfer = sum
    BY DEF Tx
  <2>. HIDE DEF tx
  <2>. QED
    BY <1>1, <2>1, <2>2, BuiltKeeps
<1>5. ASSUME NEW sum \in r.sums \cup {None}, NEW signers \in BOOLEAN, BuiltByAdapter(p, sum, signers)
      PROVE  Inv'
  <2>. DEFINE quote == IF sum = None THEN None ELSE [sum |-> sum, by |-> "adapter"]
              tx == Tx(r, quote, None, signers)
              left == IF sum = None THEN r.ctx.quote ELSE quote
              extra == IF signers THEN r.builds + 1 ELSE r.ctx.extra
  <2>1. Returns(p, "buildByAdapter", WithTx(r, tx, left, extra))
    BY <1>5 DEF BuiltByAdapter
  <2>2. left # None => left.sum \in Sum
    BY <1>1
  <2>3. tx.transfer = None
    BY DEF Tx
  <2>. HIDE DEF tx, left, extra
  <2>. QED
    BY <2>1, <2>2, <2>3, BuiltKeeps
<1>. QED
  BY <1>3, <1>4, <1>5

LEMMA SimulatedKeeps ==
  ASSUME Inv, NEW p \in Procs, NEW ok \in BOOLEAN, Simulated(p, ok)
  PROVE  Inv'
<1>. DEFINE no == run[p].ctx.built.no
            sim == [tx |-> no, ok |-> ok]
            r == [run[p] EXCEPT !.ctx.simulation = sim, !.fresh = TRUE,
                                !.simulated = IF ok THEN @ \cup {no} ELSE @]
<1>1. RunOK(run[p], now, Len(landed)) /\ Returns(p, "simulate", r) /\ run[p].ctx.built # None
      /\ run[p].pc = "acting"
  BY Known DEF Simulated, Returns
<1>2. /\ Shaped(r) /\ r.hist = run[p].hist /\ r.sent = run[p].sent
      /\ r.ctx.built = run[p].ctx.built /\ r.ctx.simulation = sim /\ r.pc = "acting"
      /\ r.ctx.quote = run[p].ctx.quote /\ r.sums = run[p].sums
      /\ ok => no \in r.simulated
  <2>. HIDE DEF no, sim
  <2>. QED
    BY <1>1 DEF RunOK, Shaped, RunFields, CtxFields
<1>3. sim.ok = ok
  OBVIOUS
<1>4. Remembers(r, now, Len(landed)) /\ Simulates(r) /\ Builds(r)
  <2>1. r.ctx.built.no = no
    BY <1>2
  <2>. HIDE DEF r, sim, no
  <2>. QED
    BY <1>1, <1>2, <1>3, <2>1 DEF RunOK, Remembers, Simulates, Builds
<1>. HIDE DEF r, sim, no
<1>. QED
  BY <1>1, <1>2, <1>4, ReturnsKeeps

LEMMA OthersKeep ==
  ASSUME Inv, NEW p \in Procs, NEW rpcError, Confirmed(p) \/ Throws(p, rpcError) \/ SendFails(p, rpcError)
  PROVE  Inv'
<1>1. CASE Confirmed(p)
  <2>1. Returns(p, "confirm", run[p]) /\ RunOK(run[p], now, Len(landed)) /\ run[p].pc = "acting"
    BY <1>1, Known DEF Confirmed, Returns
  <2>. QED
    BY <2>1, ReturnsKeeps DEF RunOK
<1>2. CASE Throws(p, rpcError) \/ SendFails(p, rpcError)
  <2>1. Become(p, Over) /\ UNCHANGED <<now, history, landed>>
    BY <1>2 DEF Throws, SendFails
  <2>. QED
    BY <2>1, GoingStep
<1>. QED
  BY <1>1, <1>2

LEMMA CrashKeeps ==
  ASSUME Inv, NEW p \in Procs, Crash(p)
  PROVE  Inv'
<1>1. Become(p, Over) /\ UNCHANGED <<now, landed>> /\ history' \in {history, Corrupt}
  BY DEF Crash
<1>2. RunOK(Over, now, Len(landed))
  BY Known, IdleOK
<1>3. \A q \in Procs : RunOK(run'[q], now, Len(landed))
  BY <1>1, <1>2 DEF Inv, Become
<1>. QED
  BY <1>1, <1>3 DEF Inv, Become

LEMMA TickKeeps ==
  ASSUME Inv, Tick
  PROVE  Inv'
<1>1. /\ now \in Nat /\ now' \in Nat /\ now <= now' /\ Len(landed) \in Nat
      /\ UNCHANGED <<run, history, landed>>
  BY DEF Inv, Tick, Files
<1>2. ASSUME NEW p \in Procs PROVE RunOK(run[p], now', Len(landed))
  BY <1>1, Later DEF Inv
<1>3. history # Corrupt => Ordered(history, now')
  BY <1>1 DEF Inv, Ordered
<1>. QED
  BY <1>1, <1>2, <1>3 DEF Inv

-----------------------------------------------------------------------------
(* The gate.                                                                 *)

\* What a process takes along when it sends.
LEMMA SendingLeads ==
  ASSUME NEW r, Shaped(r), Sending(r) # Over
  PROVE  LET s == Sending(r)
         IN  /\ Shaped(s) /\ s.pc = "sending" /\ s.sent = FALSE /\ r.ctx.built # None
             /\ s.policy = r.policy /\ s.flavour = r.flavour /\ s.ctx = r.ctx /\ s.hist = r.hist
             /\ s.fresh = r.fresh /\ s.simulated = r.simulated /\ s.said = r.said
             /\ s.confirmed = r.confirmed /\ s.at = r.at /\ s.last = r.last
             /\ s.sums = r.sums
<1>1. Signable(r) /\ Sending(r) = [r EXCEPT !.pc = "sending", !.endpoint = EndpointOf(r), !.sent = FALSE]
  BY DEF Sending
<1>2. r.ctx.built # None
  BY <1>1 DEF Signable
<1>. QED
  BY <1>1, <1>2 DEF Shaped, RunFields, CtxFields

\* The amounts depend on the context only.
LEMMA SameAmounts ==
  ASSUME NEW r, NEW s, s.ctx = r.ctx, s.flavour = r.flavour, s.policy = r.policy
  PROVE  Large(s) = Large(r)
  BY DEF Large, AmountSol, AmountUsd, SumOfQuote, SumOfTransfer

LEMMA SendingOK ==
  ASSUME NEW r, NEW t \in Nat, NEW n \in Nat,
         Shaped(r), Ordered(r.hist, t), Len(r.hist) <= n, Simulates(r),
         Builds(r), r.pc # "sending",
         r.policy # None => /\ Asked([r EXCEPT !.pc = "sending"])
                            /\ Agreed([r EXCEPT !.pc = "sending"])
  PROVE  RunOK(Sending(r), t, n)
<1>1. CASE Sending(r) = Over
  BY <1>1, IdleOK
<1>2. CASE Sending(r) # Over
  <2>. DEFINE s == Sending(r)
              u == [r EXCEPT !.pc = "sending"]
  <2>1. /\ Shaped(s) /\ s.pc = "sending" /\ s.sent = FALSE /\ r.ctx.built # None
        /\ s.policy = r.policy /\ s.flavour = r.flavour /\ s.ctx = r.ctx /\ s.hist = r.hist
        /\ s.fresh = r.fresh /\ s.simulated = r.simulated /\ s.said = r.said
        /\ s.confirmed = r.confirmed /\ s.sums = r.sums
    BY <1>2, SendingLeads
  <2>2. /\ u.pc = "sending" /\ u.policy = r.policy /\ u.flavour = r.flavour /\ u.ctx = r.ctx
        /\ u.said = r.said /\ u.confirmed = r.confirmed
    BY DEF Shaped, RunFields
  <2>. HIDE DEF s, u
  <2>3. Large(s) = Large(u)
    BY <2>1, <2>2, SameAmounts
  <2>4. Remembers(s, t, n) /\ Simulates(s) /\ Builds(s)
    BY <2>1 DEF Remembers, Simulates, Builds
  <2>5. Asked(s) /\ Agreed(s)
    <3>1. CASE r.policy = None
      BY <2>1, <3>1 DEF Asked, Agreed
    <3>2. CASE r.policy # None
      <4>1. Asked(u) /\ Agreed(u)
        BY <3>2 DEF u
      <4>. QED
        BY <2>1, <2>2, <2>3, <4>1 DEF Asked, Agreed
    <3>. QED
      BY <3>1, <3>2
  <2>6. RunOK(s, t, n)
    BY <2>1, <2>4, <2>5 DEF RunOK
  <2>. QED
    BY <2>6 DEF s
<1>. QED
  BY <1>1, <1>2

LEMMA GateKeeps ==
  ASSUME Inv, NEW p \in Procs, Gate(p)
  PROVE  Inv'
<1>. DEFINE r == run[p]
            h == HistoryOf(r)
<1>1. RunOK(r, now, Len(landed)) /\ Len(landed) \in Nat /\ now \in Nat /\ r.pc = "ready"
  BY Known DEF Gate
<1>2. Ordered(h, now) /\ Len(h) <= Len(landed)
  <2>1. Len(<<>>) = 0 /\ Len(landed) \in Nat
    BY DEF Inv
  <2>2. Ordered(LoadHistory, now) /\ Len(LoadHistory) <= Len(landed)
    BY <2>1, NothingIsOrdered DEF Inv, LoadHistory
  <2>. QED
    BY <1>1, <2>2 DEF HistoryOf, RunOK, Remembers
<1>3. UNCHANGED <<now, history, landed>>
  BY DEF Gate, Files
<1>4. CASE r.policy = None
  <2>. DEFINE u == [r EXCEPT !.at = now]
  <2>1. Become(p, Sending(u))
    BY <1>4 DEF Gate
  <2>2. /\ Shaped(u) /\ u.hist = r.hist /\ u.ctx = r.ctx /\ u.fresh = r.fresh
        /\ u.simulated = r.simulated /\ u.policy = None /\ u.sums = r.sums /\ u.pc = r.pc
    BY <1>1, <1>4 DEF RunOK, Shaped, RunFields, CtxFields
  <2>. HIDE DEF u
  <2>3. Ordered(u.hist, now) /\ Len(u.hist) <= Len(landed) /\ Simulates(u)
    BY <1>1, <2>2 DEF RunOK, Remembers, Simulates
  <2>4. Builds(u)
    BY <1>1, <2>2 DEF RunOK, Builds
  <2>5. RunOK(Sending(u), now, Len(landed))
    BY <1>1, <2>2, <2>3, <2>4, SendingOK
  <2>. QED
    BY <1>3, <2>1, <2>5, QuietStep
<1>5. CASE r.policy # None
  <2>. DEFINE last == IF h = <<>> THEN None ELSE Last(h)
              count == Cardinality({i \in DOMAIN h : now - h[i] < Minute})
              u == [r EXCEPT !.pc = "looking", !.hist = h, !.at = now, !.said = NetworkOf(r),
                             !.last = last, !.count = count]
  <2>1. Become(p, u)
    BY <1>5 DEF Gate
  <2>2. /\ Shaped(u) /\ u.hist = h /\ u.ctx = r.ctx /\ u.fresh = r.fresh /\ u.sent = r.sent
        /\ u.simulated = r.simulated /\ u.pc = "looking" /\ u.sums = r.sums
    <3>. HIDE DEF h, last, count
    <3>. QED
      BY <1>1 DEF RunOK, Shaped, RunFields, CtxFields
  <2>. HIDE DEF u, h
  <2>a. ~r.sent
    BY <1>1 DEF RunOK, Remembers
  <2>3. RunOK(u, now, Len(landed))
    BY <1>1, <1>2, <2>2, <2>a DEF RunOK, Remembers, Simulates, Builds, Asked, Agreed
  <2>. QED
    BY <1>3, <2>1, <2>3, QuietStep
<1>. QED
  BY <1>4, <1>5

\* What the answer of the policy is worth.
LEMMA PolicyAnswers ==
  ASSUME NEW r, NEW known, NEW asked, NEW implied,
         Decide(r.policy, Context(r, known, asked, implied)) # "block"
  PROVE  /\ r.policy.requireSimulation /\ r.said = "mainnet" =>
              r.ctx.simulation # None /\ r.ctx.simulation.ok
         /\ Decide(r.policy, Context(r, known, asked, implied)) # "confirm" => ~Large(r)
<1>. DEFINE x == Context(r, known, asked, implied)
            c == r.policy
<1>1. /\ x.network = r.said /\ x.broadcast = TRUE
      /\ x.amountUsd = AmountUsd(r) /\ x.amountSol = AmountSol(r)
      /\ x.simulationOk = (r.ctx.simulation # None /\ r.ctx.simulation.ok)
  BY DEF Context
<1>. HIDE DEF x, c
<1>2. ASSUME Decide(c, x) # "block" PROVE ~SimulationMissing(c, x)
  BY <1>2 DEF Decide, HardGate
<1>3. ASSUME Decide(c, x) # "block", Decide(c, x) # "confirm" PROVE ~AmountLarge(c, x)
  BY <1>3 DEF Decide
<1>4. Decide(c, x) # "block"
  BY DEF x, c
<1>5. c.requireSimulation /\ r.said = "mainnet" =>
        r.ctx.simulation # None /\ r.ctx.simulation.ok
  BY <1>1, <1>2, <1>4 DEF SimulationMissing
<1>6. Decide(c, x) # "confirm" => ~Large(r)
  BY <1>1, <1>3, <1>4 DEF AmountLarge, Large, c
<1>. QED
  BY <1>5, <1>6 DEF x, c

LEMMA PolicyKeeps ==
  ASSUME Inv, NEW p \in Procs, NEW known \in BOOLEAN, NEW asked, NEW implied,
         Policy(p, known, asked, implied)
  PROVE  Inv'
<1>. DEFINE r == run[p]
            verdict == Decide(r.policy, Context(r, known, asked, implied))
<1>1. /\ RunOK(r, now, Len(landed)) /\ Len(landed) \in Nat /\ now \in Nat /\ r.pc = "looking"
      /\ Become(p, Judged(r, verdict)) /\ UNCHANGED <<now, history, landed>>
  BY Known DEF Policy, Files
<1>2. /\ verdict # "block" /\ r.policy.requireSimulation /\ r.said = "mainnet" =>
           r.ctx.simulation # None /\ r.ctx.simulation.ok
      /\ verdict # "block" /\ verdict # "confirm" =>
           ~Large(r)
  BY PolicyAnswers
<1>. HIDE DEF verdict
<1>3. CASE verdict = "block"
  <2>1. Judged(r, verdict) = Over
    BY <1>3 DEF Judged
  <2>. QED
    BY <1>1, <2>1, GoingStep
<1>4. CASE verdict = "confirm"
  <2>. DEFINE s == [r EXCEPT !.pc = "asking"]
  <2>1. Judged(r, verdict) \in {s, Over}
    BY <1>4 DEF Judged
  <2>2. /\ Shaped(s) /\ s.hist = r.hist /\ s.sent = r.sent /\ s.ctx = r.ctx /\ s.fresh = r.fresh
        /\ s.simulated = r.simulated /\ s.pc = "asking" /\ s.policy = r.policy /\ s.said = r.said
        /\ s.sums = r.sums
    BY <1>1 DEF RunOK, Shaped, RunFields, CtxFields
  <2>. HIDE DEF s
  <2>3. RunOK(s, now, Len(landed))
    BY <1>1, <1>2, <1>4, <2>2 DEF RunOK, Remembers, Simulates, Builds, Asked, Agreed
  <2>. QED
    BY <1>1, <2>1, <2>3, GoingStep, QuietStep
<1>5. CASE verdict # "block" /\ verdict # "confirm"
  <2>. DEFINE u == [r EXCEPT !.confirmed = FALSE]
              w == [u EXCEPT !.pc = "sending"]
  <2>1. Judged(r, verdict) = Sending(u)
    BY <1>5 DEF Judged
  <2>2. /\ Shaped(u) /\ u.hist = r.hist /\ u.ctx = r.ctx /\ u.fresh = r.fresh
        /\ u.simulated = r.simulated /\ u.sums = r.sums /\ u.pc = r.pc
    BY <1>1 DEF RunOK, Shaped, RunFields, CtxFields
  <2>3. /\ w.ctx = r.ctx /\ w.policy = r.policy /\ w.said = r.said /\ w.flavour = r.flavour
    BY <1>1 DEF RunOK, Shaped, RunFields
  <2>. HIDE DEF u, w
  <2>4. Asked(w) /\ Agreed(w)
    <3>1. Large(w) = Large(r)
      BY <2>3, SameAmounts
    <3>. QED
      BY <1>2, <1>5, <2>3, <3>1 DEF Asked, Agreed
  <2>5. Ordered(u.hist, now) /\ Len(u.hist) <= Len(landed) /\ Simulates(u)
    BY <1>1, <2>2 DEF RunOK, Remembers, Simulates
  <2>6. Builds(u)
    BY <1>1, <2>2 DEF RunOK, Builds
  <2>7. Asked([u EXCEPT !.pc = "sending"]) /\ Agreed([u EXCEPT !.pc = "sending"])
    BY <2>4 DEF w
  <2>8. RunOK(Sending(u), now, Len(landed))
    BY <1>1, <2>2, <2>5, <2>6, <2>7, SendingOK
  <2>. QED
    BY <1>1, <2>1, <2>8, QuietStep
<1>. QED
  BY <1>3, <1>4, <1>5

LEMMA AnswersKeeps ==
  ASSUME Inv, NEW p \in Procs, NEW yes \in BOOLEAN, Answers(p, yes)
  PROVE  Inv'
<1>. DEFINE r == run[p]
<1>1. /\ RunOK(r, now, Len(landed)) /\ Len(landed) \in Nat /\ now \in Nat
      /\ r.pc \in {"approving", "asking"} /\ Shaped(r) /\ UNCHANGED <<now, history, landed>>
  BY Known DEF Answers, Files
<1>2. CASE ~yes
  <2>1. Become(p, Over)
    BY <1>2 DEF Answers
  <2>. QED
    BY <1>1, <2>1, GoingStep
<1>3. CASE yes /\ r.pc = "approving"
  <2>1. Become(p, NextStage(r))
    BY <1>3 DEF Answers
  <2>. QED
    BY <1>1, <1>3, <2>1, StageGoesOn, GoingStep
<1>4. CASE yes /\ r.pc = "asking"
  <2>. DEFINE u == [r EXCEPT !.confirmed = TRUE]
              w == [u EXCEPT !.pc = "sending"]
  <2>1. Become(p, Sending(u))
    BY <1>4 DEF Answers
  <2>2. /\ Shaped(u) /\ u.hist = r.hist /\ u.ctx = r.ctx /\ u.fresh = r.fresh
        /\ u.simulated = r.simulated /\ u.sums = r.sums /\ u.pc = r.pc
    BY <1>1 DEF RunOK, Shaped, RunFields, CtxFields
  <2>3. /\ w.ctx = r.ctx /\ w.policy = r.policy /\ w.said = r.said /\ w.confirmed
    BY <1>1 DEF RunOK, Shaped, RunFields
  <2>. HIDE DEF u, w
  <2>4. Asked(w) /\ Agreed(w)
    BY <1>1, <1>4, <2>3 DEF RunOK, Asked, Agreed
  <2>5. Ordered(u.hist, now) /\ Len(u.hist) <= Len(landed) /\ Simulates(u)
    BY <1>1, <2>2 DEF RunOK, Remembers, Simulates
  <2>6. Builds(u)
    BY <1>1, <2>2 DEF RunOK, Builds
  <2>7. Asked([u EXCEPT !.pc = "sending"]) /\ Agreed([u EXCEPT !.pc = "sending"])
    BY <2>4 DEF w
  <2>8. RunOK(Sending(u), now, Len(landed))
    BY <1>1, <2>2, <2>5, <2>6, <2>7, SendingOK
  <2>. QED
    BY <1>1, <2>1, <2>8, QuietStep
<1>. QED
  BY <1>1, <1>2, <1>3, <1>4

-----------------------------------------------------------------------------
(* The broadcast.                                                            *)

\* One more broadcast.
LEMMA Appended ==
  ASSUME Inv, NEW b, landed' = Append(landed, b)
  PROVE  /\ \E S : landed' \in Seq(S)
         /\ Len(landed) \in Nat /\ Len(landed') = Len(landed) + 1
         /\ DOMAIN landed = 1 .. Len(landed) /\ DOMAIN landed' = 1 .. Len(landed) + 1
         /\ \A i \in DOMAIN landed : landed'[i] = landed[i]
         /\ landed'[Len(landed) + 1] = b
<1>1. PICK S : landed \in Seq(S)
  BY DEF Inv
<1>2. landed \in Seq(S \cup {b})
  BY <1>1
<1>3. landed' \in Seq(S \cup {b})
  BY <1>2
<1>. QED
  BY <1>2, <1>3

\* What is sent bears out the properties: this is where the gate counts.
LEMMA BroadcastIsFine ==
  ASSUME Inv, NEW p \in Procs, run[p].pc = "sending"
  PROVE  Fine(Broadcast(p))
<1>. DEFINE r == run[p]
            b == Broadcast(p)
<1>1. RunOK(r, now, Len(landed)) /\ r.pc = "sending"
  BY Known
<1>2. /\ b.flavour = r.flavour /\ b.policy = r.policy /\ b.said = r.said
      /\ b.moves = Moves(r.ctx.built) /\ b.own = (r.ctx.quote = r.ctx.built.quote)
      /\ b.transfer = (r.ctx.built.transfer # None)
      /\ b.fresh = r.fresh /\ b.simulated = (r.ctx.built.no \in r.simulated)
      /\ b.confirmed = r.confirmed
  BY DEF Broadcast
<1>. HIDE DEF b
<1>3. b.policy # None /\ b.policy.requireSimulation /\ b.said = "mainnet" /\ b.fresh => b.simulated
  BY <1>1, <1>2 DEF RunOK, Asked, Simulates
<1>4. ASSUME b.flavour = "run", b.policy # None, b.moves # None,
             b.own \/ (b.transfer /\ b.moves.coin = "sol"), TooLarge(b.policy, b.moves)
      PROVE  b.confirmed
  <2>. DEFINE m == b.moves
              tx == r.ctx.built
  <2>1. /\ tx # None /\ m = Moves(tx)
        /\ IF tx.quote # None THEN tx.transfer = None ELSE tx.transfer \in Sum \cup {None}
        /\ r.ctx.quote # None => r.ctx.quote.sum \in Sum
    BY <1>1, <1>2 DEF RunOK, Builds
  <2>2. m \in Sum /\ m.size \in Nat /\ m.size # None
    <3>1. m \in Sum
      BY <1>2, <1>4, <2>1 DEF Moves
    <3>. QED
      BY <3>1, NumbersAssumption DEF Sum
  <2>3. /\ m.coin = "usd" => AmountUsd(r) = m.size
        /\ m.coin = "sol" => AmountSol(r) = m.size
    <3>1. CASE tx.quote # None
      <4>1. SumOfQuote(r) = m /\ SumOfTransfer(r) = None
        BY <1>2, <1>4, <2>1, <3>1 DEF Moves, SumOfQuote, SumOfTransfer
      <4>. QED
        BY <1>2, <1>4, <2>2, <4>1 DEF AmountUsd, AmountSol, In
    <3>2. CASE tx.quote = None
      <4>1. SumOfTransfer(r) = m
        BY <1>2, <1>4, <2>1, <3>2 DEF Moves, SumOfTransfer
      <4>2. SumOfQuote(r) = None \/ m.coin = "sol"
        BY <1>2, <1>4, <3>2 DEF SumOfQuote
      <4>. QED
        BY <1>2, <1>4, <2>2, <4>1, <4>2 DEF AmountUsd, AmountSol, In
    <3>. QED
      BY <3>1, <3>2
  <2>. HIDE DEF m, tx
  <2>4. TooLarge(r.policy, m)
    BY <1>2, <1>4 DEF m
  <2>5. Large(r)
    BY <2>2, <2>3, <2>4 DEF TooLarge, Large
  <2>. QED
    BY <1>1, <1>2, <1>4, <2>5 DEF RunOK, Agreed
<1>. QED
  BY <1>3, <1>4 DEF Fine, b

LEMMA AcceptKeeps ==
  ASSUME Inv, NEW p \in Procs, Accept(p)
  PROVE  Inv'
<1>. DEFINE b == Broadcast(p)
            s == [run[p] EXCEPT !.sent = TRUE]
<1>1. /\ run[p].pc = "sending" /\ ~run[p].sent /\ landed' = Append(landed, b) /\ Become(p, s)
      /\ UNCHANGED <<now, history>> /\ now \in Nat /\ RunOK(run[p], now, Len(landed))
  BY Known DEF Accept, Files
<1>2. Fine(b)
  BY <1>1, BroadcastIsFine
<1>3. /\ Shaped(s) /\ s.hist = run[p].hist /\ s.sent = TRUE /\ s.ctx = run[p].ctx
      /\ s.fresh = run[p].fresh /\ s.simulated = run[p].simulated /\ s.pc = "sending"
      /\ s.policy = run[p].policy /\ s.said = run[p].said /\ s.confirmed = run[p].confirmed
      /\ s.flavour = run[p].flavour /\ s.sums = run[p].sums
  BY <1>1 DEF RunOK, Shaped, RunFields, CtxFields
<1>. HIDE DEF b, s
<1>4. /\ \E S : landed' \in Seq(S)
      /\ Len(landed) \in Nat /\ Len(landed') = Len(landed) + 1
      /\ DOMAIN landed = 1 .. Len(landed) /\ DOMAIN landed' = 1 .. Len(landed) + 1
      /\ \A i \in DOMAIN landed : landed'[i] = landed[i]
      /\ landed'[Len(landed) + 1] = b
  BY <1>1, Appended
<1>5. RunOK(s, now, Len(landed'))
  <2>1. Large(s) = Large(run[p])
    BY <1>3, SameAmounts
  <2>2. Remembers(s, now, Len(landed'))
    BY <1>1, <1>3, <1>4 DEF RunOK, Remembers, Ordered
  <2>. QED
    BY <1>1, <1>3, <2>1, <2>2 DEF RunOK, Simulates, Builds, Asked, Agreed
<1>6. ASSUME NEW q \in Procs PROVE RunOK(run'[q], now, Len(landed'))
  <2>1. CASE q = p
    BY <1>1, <1>5, <2>1 DEF Inv, Become
  <2>2. CASE q # p
    <3>1. run'[q] = run[q] /\ RunOK(run[q], now, Len(landed))
      BY <1>1, <2>2 DEF Inv, Become
    <3>. QED
      BY <1>1, <1>4, <3>1, Later
  <2>. QED
    BY <2>1, <2>2
<1>7. \A i \in DOMAIN landed' : Fine(landed'[i])
  <2>. SUFFICES ASSUME NEW i \in DOMAIN landed' PROVE Fine(landed'[i])
    OBVIOUS
  <2>1. i \in DOMAIN landed \/ i = Len(landed) + 1
    BY <1>4
  <2>. QED
    BY <1>2, <1>4, <2>1 DEF Inv
<1>8. history # Corrupt => Ordered(history, now) /\ Len(history) <= Len(landed')
  BY <1>4 DEF Inv, Ordered
<1>. QED
  BY <1>1, <1>4, <1>6, <1>7, <1>8 DEF Inv, Become

LEMMA SendOkKeeps ==
  ASSUME Inv, NEW p \in Procs, NEW saved \in BOOLEAN, SendOk(p, saved)
  PROVE  Inv'
<1>. DEFINE r == run[p]
            h == Pushed(r.hist)
            k == IF r.flavour = "runner" THEN h ELSE <<>>
            s == [r EXCEPT !.ctx.submitted = TRUE, !.endpoint = None, !.sent = FALSE,
                           !.confirmed = FALSE, !.last = None, !.count = 0, !.at = 0,
                           !.said = None, !.hist = k]
            u == NextAction(s)
<1>1. /\ RunOK(r, now, Len(landed)) /\ Len(landed) \in Nat /\ now \in Nat /\ r.sent
      /\ Become(p, u) /\ UNCHANGED <<now, landed>> /\ history' \in {history, Saved(h)}
  BY Known DEF SendOk
<1>2. Ordered(h, now) /\ Len(h) = Len(r.hist) + 1
  BY <1>1, PushedIsOrdered DEF RunOK, Remembers
<1>3. Len(r.hist) \in Nat /\ Len(r.hist) < Len(landed)
  BY <1>1 DEF RunOK, Remembers, Ordered
<1>4. Ordered(k, now) /\ Len(k) <= Len(landed)
  <2>1. Len(<<>>) = 0
    OBVIOUS
  <2>. QED
    BY <1>1, <1>2, <1>3, <2>1, NothingIsOrdered
<1>5. Ordered(Saved(h), now) /\ Len(Saved(h)) <= Len(landed)
  <2>1. Ordered(Saved(h), now) /\ Len(Saved(h)) <= Len(h)
    BY <1>1, <1>2, SavedIsOrdered
  <2>2. Len(Saved(h)) \in Nat
    BY <2>1 DEF Ordered
  <2>. QED
    BY <1>1, <1>2, <1>3, <2>1, <2>2
<1>6. /\ Shaped(s) /\ s.hist = k /\ s.sent = FALSE /\ s.fresh = r.fresh /\ s.simulated = r.simulated
      /\ s.ctx.built = r.ctx.built /\ s.ctx.simulation = r.ctx.simulation
      /\ s.ctx.quote = r.ctx.quote /\ s.sums = r.sums
  <2>. HIDE DEF k
  <2>. QED
    BY <1>1 DEF RunOK, Shaped, RunFields, CtxFields
<1>. HIDE DEF k, s
<1>7. GoesOn(s, u)
  BY <1>6, ActionGoesOn
<1>8. /\ Shaped(u) /\ u.hist = k /\ u.sent = FALSE /\ u.fresh = r.fresh
      /\ u.simulated = r.simulated /\ u.ctx.built = r.ctx.built
      /\ u.ctx.simulation = r.ctx.simulation /\ u.pc \notin {"asking", "sending"}
      /\ u.ctx.quote = r.ctx.quote /\ u.sums = r.sums
  <2>. HIDE DEF u
  <2>. QED
    BY <1>6, <1>7 DEF GoesOn
<1>. HIDE DEF u, h
<1>9. RunOK(u, now, Len(landed))
  BY <1>1, <1>4, <1>8 DEF RunOK, Remembers, Simulates, Builds, Asked, Agreed
<1>10. \A q \in Procs : RunOK(run'[q], now, Len(landed))
  BY <1>1, <1>9 DEF Inv, Become
<1>11. history' # Corrupt => Ordered(history', now) /\ Len(history') <= Len(landed)
  BY <1>1, <1>5 DEF Inv
<1>. QED
  BY <1>1, <1>10, <1>11 DEF Inv, Become

-----------------------------------------------------------------------------
(* The theorems.                                                             *)

LEMMA InvStarts == Init => Inv
<1>. SUFFICES ASSUME Init PROVE Inv
  OBVIOUS
<1>1. /\ now = 0 /\ history = <<>> /\ landed = <<>> /\ run = [p \in Procs |-> Idle]
  BY DEF Init
<1>2. Len(landed) = 0 /\ DOMAIN landed = {} /\ landed \in Seq({})
  BY <1>1
<1>3. \A p \in Procs : RunOK(run[p], now, Len(landed))
  BY <1>1, <1>2, IdleOK
<1>4. Ordered(history, now) /\ Len(history) <= Len(landed)
  BY <1>1, <1>2, NothingIsOrdered
<1>. QED
  BY <1>1, <1>2, <1>3, <1>4 DEF Inv

LEMMA InvStays == Inv /\ [Next]_vars => Inv'
<1>. SUFFICES ASSUME Inv, [Next]_vars PROVE Inv'
  OBVIOUS
<1>1. CASE UNCHANGED vars
  BY <1>1 DEF vars, Inv
<1>2. CASE Tick
  BY <1>2, TickKeeps
<1>3. ASSUME NEW p \in Procs,
             \/ RunStage(p) \/ Begin(p) \/ Gate(p) \/ Accept(p) \/ Crash(p)
             \/ BuiltSwap(p) \/ Confirmed(p)
      PROVE  Inv'
  BY <1>3, RunStageKeeps, BeginKeeps, GateKeeps, AcceptKeeps, CrashKeeps, BuildersKeep, OthersKeep
<1>4. ASSUME NEW p \in Procs, NEW st \in Starts, Start(p, st) PROVE Inv'
  BY <1>4, StartKeeps
<1>5. ASSUME NEW p \in Procs, NEW sum \in run[p].sums, BuiltTransfer(p, sum) PROVE Inv'
  BY <1>5, BuildersKeep
<1>6. ASSUME NEW p \in Procs, NEW sum \in run[p].sums \cup {None}, NEW signers \in BOOLEAN,
             Quoted(p, sum) \/ BuiltByAdapter(p, sum, signers)
      PROVE  Inv'
  BY <1>6, QuotedKeeps, BuildersKeep
<1>7. ASSUME NEW p \in Procs, NEW ok \in BOOLEAN,
             Simulated(p, ok) \/ Throws(p, ok) \/ Answers(p, ok) \/ SendOk(p, ok) \/ SendFails(p, ok)
      PROVE  Inv'
  BY <1>7, SimulatedKeeps, AnswersKeeps, SendOkKeeps, OthersKeep
<1>8. ASSUME NEW p \in Procs, NEW known \in BOOLEAN, NEW asked, NEW implied,
             Policy(p, known, asked, implied)
      PROVE  Inv'
  BY <1>8, PolicyKeeps
<1>9. TRUE \in BOOLEAN
  OBVIOUS
<1>. QED
  BY <1>1, <1>2, <1>3, <1>4, <1>5, <1>6, <1>7, <1>8, <1>9 DEF Next

LEMMA Invariance == Spec => []Inv
  BY InvStarts, InvStays, PTL DEF Spec

\* The file of broadcasts is ordered and no longer than there were broadcasts, whatever
\* processes do to it (saveBroadcastHistory of runner.ts and run.ts).
THEOREM HistoryTheorem == Spec => []HistoryIsOrdered
<1>1. Inv => HistoryIsOrdered
  BY DEF Inv, HistoryIsOrdered, Ordered
<1>. QED
  BY <1>1, Invariance, PTL

\* run.ts sends no more dollars than maxSingleAmountUsd and no more SOL than
\* maxSingleAmountSol without the user's yes, as long as the quote in the context is that
\* of the transaction or the transaction is a transfer of SOL.
THEOREM AmountsTheorem == Spec => []AmountsConfirmed
<1>1. Inv => AmountsConfirmed
  BY DEF Inv, AmountsConfirmed, Fine
<1>. QED
  BY <1>1, Invariance, PTL

-----------------------------------------------------------------------------
(* The cooldown of a run of runner.ts.                                       *)

\* When a process has sent.
Sent(p) == {landed[i].time : i \in {j \in DOMAIN landed : landed[j].proc = p}}

\* Its own history ends no earlier than its last broadcast, the gate looks at that end, and
\* once it is past the gate the cooldown is over.
Waits(r, T) ==
  r.flavour = "runner" =>
    /\ r.sent \/ \A m \in T : r.hist # <<>> /\ m <= Last(r.hist)
    /\ r.pc = "looking" =>
         IF r.hist = <<>> THEN r.last = None
         ELSE r.last = Last(r.hist) /\ r.last \in Nat /\ r.last <= r.at
    /\ r.pc \in {"asking", "sending"} /\ ~r.sent /\ r.policy # None /\ r.policy.cooldownSeconds # None =>
         \A m \in T : r.at - m >= r.policy.cooldownSeconds

Clocked(r, t) == r.at \in Nat /\ r.at <= t
Limited(r) ==
  r.policy # None /\ r.policy.cooldownSeconds # None => r.policy.cooldownSeconds \in Int
CoolOK(r, T, t) == Clocked(r, t) /\ Limited(r) /\ (T # {} => r.pc # "idle") /\ Waits(r, T)

Cool ==
  /\ \A i \in DOMAIN landed : landed[i].time \in Nat /\ landed[i].time <= now
  /\ \A p \in Procs : CoolOK(run[p], Sent(p), now)
  /\ OwnCooldown

LEMMA TimesAre ==
  ASSUME Cool, now \in Nat, NEW p, NEW m \in Sent(p)
  PROVE  m \in Nat /\ m <= now
  BY DEF Cool, Sent

LEMMA QuietCool ==
  ASSUME Inv, Cool, NEW p \in Procs, NEW s, Become(p, s), CoolOK(s, Sent(p), now),
         UNCHANGED <<now, landed>>
  PROVE  Cool'
<1>1. ASSUME NEW q \in Procs PROVE CoolOK(run'[q], Sent(q), now)
  BY DEF Inv, Become, Cool
<1>2. \A q : Sent(q)' = Sent(q)
  BY DEF Sent
<1>3. OwnCooldown'
  BY DEF Cool, OwnCooldown, Spaced
<1>. QED
  BY <1>1, <1>2, <1>3 DEF Cool

LEMMA OverCool == ASSUME NEW T, now \in Nat PROVE CoolOK(Over, T, now)
  BY DEF Over, Idle, CoolOK, Clocked, Limited, Waits

LEMMA GoingCool ==
  ASSUME Inv, Cool, NEW p \in Procs, NEW s, Become(p, s), (GoesOn(run[p], s) /\ ~run[p].sent) \/ s = Over,
         UNCHANGED <<now, landed>>
  PROVE  Cool'
<1>1. CASE s = Over
  BY <1>1, Known, OverCool, QuietCool
<1>2. CASE GoesOn(run[p], s) /\ ~run[p].sent
  <2>1. /\ s.at = run[p].at /\ s.policy = run[p].policy /\ s.flavour = run[p].flavour
        /\ s.hist = run[p].hist /\ s.sent = run[p].sent
        /\ s.pc \notin {"idle", "looking", "asking", "sending"}
    BY <1>2 DEF GoesOn
  <2>2. CoolOK(run[p], Sent(p), now)
    BY DEF Cool
  <2>3. CoolOK(s, Sent(p), now)
    BY <1>2, <2>1, <2>2 DEF CoolOK, Clocked, Limited, Waits
  <2>. QED
    BY <2>3, QuietCool
<1>. QED
  BY <1>1, <1>2

\* A tool that returns.
LEMMA ReturnsCool ==
  ASSUME Inv, Cool, NEW p \in Procs, NEW tool, NEW r, Returns(p, tool, r), Shaped(r),
         r.at = run[p].at, r.policy = run[p].policy, r.flavour = run[p].flavour,
         r.hist = run[p].hist, r.sent = run[p].sent
  PROVE  Cool'
<1>. DEFINE s == [r EXCEPT !.endpoint = None]
            u == NextAction(s)
<1>1. /\ Shaped(s) /\ s.hist = r.hist /\ s.sent = r.sent /\ s.at = r.at /\ s.policy = r.policy
      /\ s.flavour = r.flavour
  BY DEF Shaped, RunFields, CtxFields
<1>2. GoesOn(s, u)
  BY <1>1, ActionGoesOn
<1>3. ~run[p].sent
  BY Known DEF Returns, RunOK, Remembers
<1>4. /\ u.hist = r.hist /\ u.sent = r.sent /\ u.at = r.at /\ u.policy = r.policy
      /\ u.flavour = r.flavour /\ u.pc \notin {"idle", "looking", "asking", "sending"}
  <2>. HIDE DEF s, u
  <2>. QED
    BY <1>1, <1>2 DEF GoesOn
<1>5. Become(p, u) /\ UNCHANGED <<now, landed>>
  BY DEF Returns, Files
<1>. HIDE DEF s, u
<1>6. CoolOK(run[p], Sent(p), now)
  BY DEF Cool
<1>7. CoolOK(u, Sent(p), now)
  BY <1>3, <1>4, <1>6 DEF CoolOK, Clocked, Limited, Waits
<1>. QED
  BY <1>5, <1>7, QuietCool

\* What every tool that does not broadcast leaves alone.
Untouched(r, s) ==
  /\ Shaped(s)
  /\ \A f \in {"pc", "policy", "flavour", "hist", "at", "sent"} : s[f] = r[f]

\* A tool that does not broadcast returns.
ToolReturns(p, sum, ok) ==
  \/ Quoted(p, sum) \/ BuiltSwap(p) \/ BuiltTransfer(p, sum) \/ BuiltByAdapter(p, sum, ok)
  \/ Simulated(p, ok) \/ Confirmed(p)

\* The steps, as the proofs take them apart.
LEMMA StepsAre ==
  ASSUME Next
  PROVE  \/ Tick
         \/ \E p \in Procs, st \in Starts : Start(p, st)
         \/ \E p \in Procs, ok \in BOOLEAN :
              \/ RunStage(p) \/ Begin(p) \/ Gate(p) \/ Accept(p) \/ Crash(p)
              \/ Throws(p, ok) \/ Answers(p, ok) \/ SendOk(p, ok) \/ SendFails(p, ok)
         \/ \E p \in Procs : \E sum, ok : ToolReturns(p, sum, ok)
         \/ \E p \in Procs, known \in BOOLEAN : \E asked, implied : Policy(p, known, asked, implied)
<1>1. TRUE \in BOOLEAN
  OBVIOUS
<1>. QED
  BY <1>1 DEF Next, ToolReturns

LEMMA ToolsReturn ==
  ASSUME Inv, NEW p \in Procs, NEW sum, NEW ok, ToolReturns(p, sum, ok)
  PROVE  \E tool, r : Returns(p, tool, r) /\ Untouched(run[p], r)
<1>1. Shaped(run[p])
  BY Known
<1>2. CASE Quoted(p, sum)
  <2>. DEFINE quote == IF sum = None THEN None ELSE [sum |-> sum, by |-> "jupiter"]
              r == [run[p] EXCEPT !.ctx.quote = quote]
  <2>1. Returns(p, "quote", r)
    BY <1>2 DEF Quoted
  <2>. HIDE DEF quote
  <2>2. Untouched(run[p], r)
    BY <1>1 DEF Untouched, Shaped, RunFields, CtxFields
  <2>. HIDE DEF r
  <2>. QED
    BY <2>1, <2>2
<1>3. ASSUME NEW tool, NEW tx, NEW quote, NEW extra, Returns(p, tool, WithTx(run[p], tx, quote, extra))
      PROVE  \E t, r : Returns(p, t, r) /\ Untouched(run[p], r)
  <2>. DEFINE r == WithTx(run[p], tx, quote, extra)
  <2>2. Untouched(run[p], r)
    BY <1>1 DEF WithTx, Untouched, Shaped, RunFields, CtxFields
  <2>1. Returns(p, tool, r)
    BY <1>3
  <2>. HIDE DEF r
  <2>. QED
    BY <2>1, <2>2
<1>4. CASE BuiltSwap(p) \/ BuiltTransfer(p, sum) \/ BuiltByAdapter(p, sum, ok)
  BY <1>3, <1>4 DEF BuiltSwap, BuiltTransfer, BuiltByAdapter
<1>5. CASE Simulated(p, ok)
  <2>. DEFINE no == run[p].ctx.built.no
              sim == [tx |-> no, ok |-> ok]
              r == [run[p] EXCEPT !.ctx.simulation = sim, !.fresh = TRUE,
                                  !.simulated = IF ok THEN @ \cup {no} ELSE @]
  <2>1. Returns(p, "simulate", r)
    BY <1>5 DEF Simulated
  <2>2. Untouched(run[p], r)
    <3>. HIDE DEF no, sim
    <3>. QED
      BY <1>1 DEF Untouched, Shaped, RunFields, CtxFields
  <2>. HIDE DEF r
  <2>. QED
    BY <2>1, <2>2
<1>6. CASE Confirmed(p)
  <2>1. Returns(p, "confirm", run[p])
    BY <1>6 DEF Confirmed
  <2>. QED
    BY <1>1, <2>1 DEF Untouched
<1>. QED
  BY <1>2, <1>4, <1>5, <1>6 DEF ToolReturns

LEMMA ToolsCool ==
  ASSUME Inv, Cool, NEW p \in Procs, NEW sum, NEW ok, ToolReturns(p, sum, ok)
  PROVE  Cool'
  BY ToolsReturn, ReturnsCool DEF Untouched

LEMMA StartCool ==
  ASSUME Inv, Cool, NEW p \in Procs, NEW st \in Starts, Start(p, st)
  PROVE  Cool'
<1>. DEFINE h == IF st.flavour = "runner" THEN LoadHistory ELSE <<>>
            s == [Idle EXCEPT !.pc = "stage", !.flavour = st.flavour, !.policy = st.policy,
                    !.approver = st.approver, !.flow = st.flow, !.sums = st.sums, !.hist = h]
<1>1. Become(p, s) /\ UNCHANGED <<now, landed>> /\ run[p].pc = "idle" /\ now \in Nat
  BY Known DEF Start, Files
<1>2. /\ s.pc = "stage" /\ s.policy = st.policy /\ s.at = 0
  <2>. HIDE DEF h
  <2>. QED
    BY DEF Idle, EmptyCtx
<1>3. Sent(p) = {}
  BY <1>1 DEF Cool, CoolOK
<1>4. Limited(s)
  BY <1>2, StartsAssumption DEF Limited
<1>. HIDE DEF h, s
<1>5. CoolOK(s, Sent(p), now)
  BY <1>1, <1>2, <1>3, <1>4 DEF CoolOK, Clocked, Waits
<1>. QED
  BY <1>1, <1>5, QuietCool

LEMMA GoingsCool ==
  ASSUME Inv, Cool, NEW p \in Procs, NEW ok,
         RunStage(p) \/ Begin(p) \/ Throws(p, ok) \/ SendFails(p, ok) \/ Crash(p)
  PROVE  Cool'
<1>. DEFINE r == run[p]
            s == [r EXCEPT !.pc = "acting", !.endpoint = EndpointOf(r)]
<1>1. Shaped(r) /\ (r.sent => r.pc = "sending")
  BY Known DEF RunOK, Remembers
<1>2. CASE RunStage(p)
  <2>1. UNCHANGED <<now, landed>> /\ r.pc = "stage"
    BY <1>2 DEF RunStage
  <2>2. GoesOn(r, NextStage(r))
    BY <1>1, StageGoesOn
  <2>3. GoesOn(r, [r EXCEPT !.pc = "approving"]) /\ GoesOn(r, [r EXCEPT !.pc = "ready"])
    BY <1>1 DEF GoesOn, Shaped, RunFields, CtxFields
  <2>4. GoesOn(r, Entered(r)) \/ Entered(r) = Over
    BY <2>2, <2>3 DEF Entered
  <2>5. \/ Become(p, Over) \/ Become(p, NextStage(r)) \/ Become(p, Entered(r))
    BY <1>2 DEF RunStage
  <2>. QED
    BY <1>1, <2>1, <2>2, <2>4, <2>5, GoingCool
<1>3. CASE Begin(p)
  <2>1. GoesOn(r, s)
    BY <1>1 DEF GoesOn, Shaped, RunFields, CtxFields
  <2>2. Become(p, s) /\ UNCHANGED <<now, landed>> /\ r.pc = "ready"
    BY <1>3 DEF Begin, Files
  <2>. QED
    BY <1>1, <2>1, <2>2, GoingCool
<1>4. CASE Throws(p, ok) \/ SendFails(p, ok) \/ Crash(p)
  <2>1. Become(p, Over) /\ UNCHANGED <<now, landed>>
    BY <1>4 DEF Throws, SendFails, Crash
  <2>. QED
    BY <2>1, GoingCool
<1>. QED
  BY <1>2, <1>3, <1>4

LEMMA TickCool ==
  ASSUME Inv, Cool, Tick
  PROVE  Cool'
<1>1. /\ now \in Nat /\ now' = now + 1 /\ UNCHANGED <<run, landed>>
  BY DEF Inv, Tick, Files
<1>2. \A i \in DOMAIN landed : landed[i].time \in Nat /\ landed[i].time <= now'
  BY <1>1 DEF Cool
<1>3. \A p : Sent(p)' = Sent(p)
  BY <1>1 DEF Sent
<1>4. ASSUME NEW p \in Procs PROVE CoolOK(run[p], Sent(p), now')
  BY <1>1 DEF Cool, CoolOK, Clocked
<1>5. OwnCooldown'
  BY <1>1 DEF Cool, OwnCooldown, Spaced
<1>. QED
  BY <1>1, <1>2, <1>3, <1>4, <1>5 DEF Cool

\* The end of a history.
LEMMA EndOf ==
  ASSUME NEW h, NEW t, Ordered(h, t), h # <<>>
  PROVE  Last(h) \in Nat /\ Last(h) <= t
<1>1. Len(h) \in DOMAIN h /\ h[Len(h)] \in Nat
  BY DEF Ordered
<1>. QED
  BY <1>1 DEF Ordered, Last

\* The gate reads the end of the process's own history.
LEMMA GateCool ==
  ASSUME Inv, Cool, NEW p \in Procs, Gate(p)
  PROVE  Cool'
<1>. DEFINE r == run[p]
            h == HistoryOf(r)
<1>1. /\ Shaped(r) /\ now \in Nat /\ r.pc = "ready" /\ ~r.sent /\ CoolOK(r, Sent(p), now)
      /\ UNCHANGED <<now, landed>>
  BY Known DEF Gate, RunOK, Remembers, Cool, Files
<1>a. RunOK(r, now, Len(landed))
  BY Known
<1>2. CASE r.policy = None
  <2>. DEFINE u == [r EXCEPT !.at = now]
  <2>1. Become(p, Sending(u))
    BY <1>2 DEF Gate
  <2>2. /\ Shaped(u) /\ u.hist = r.hist /\ u.policy = None /\ u.at = now /\ u.flavour = r.flavour
    BY <1>1, <1>2 DEF Shaped, RunFields, CtxFields
  <2>. HIDE DEF u
  <2>3. CASE Sending(u) = Over
    BY <1>1, <2>1, <2>3, GoingCool
  <2>4. CASE Sending(u) # Over
    <3>. DEFINE s == Sending(u)
    <3>1. s.pc = "sending" /\ s.policy = None /\ s.hist = u.hist /\ s.at = u.at /\ s.flavour = u.flavour
      BY <2>2, <2>4, SendingLeads
    <3>. HIDE DEF s
    <3>2. CoolOK(s, Sent(p), now)
      BY <1>1, <2>2, <3>1 DEF CoolOK, Clocked, Limited, Waits
    <3>. QED
      BY <1>1, <2>1, <3>2, QuietCool DEF s
  <2>. QED
    BY <2>3, <2>4
<1>3. CASE r.policy # None
  <2>. DEFINE last == IF h = <<>> THEN None ELSE Last(h)
              count == Cardinality({i \in DOMAIN h : now - h[i] < Minute})
              u == [r EXCEPT !.pc = "looking", !.hist = h, !.at = now, !.said = NetworkOf(r),
                             !.last = last, !.count = count]
  <2>1. Become(p, u)
    BY <1>3 DEF Gate
  <2>2. /\ Shaped(u) /\ u.hist = h /\ u.at = now /\ u.last = last /\ u.policy = r.policy
        /\ u.flavour = r.flavour /\ u.pc = "looking" /\ u.sent = r.sent
    <3>. HIDE DEF h, last, count
    <3>. QED
      BY <1>1 DEF Shaped, RunFields, CtxFields
  <2>3. r.flavour = "runner" => h = r.hist
    BY DEF HistoryOf
  <2>a. h # <<>> /\ r.flavour = "runner" => Last(h) \in Nat /\ Last(h) <= now
    BY <1>1, <1>a, <2>3, EndOf DEF RunOK, Remembers
  <2>. HIDE DEF u
  <2>4. CoolOK(u, Sent(p), now)
    <3>1. Clocked(u, now) /\ Limited(u) /\ u.pc # "idle"
      BY <1>1, <2>2 DEF CoolOK, Clocked, Limited
    <3>2. Waits(u, Sent(p))
      BY <1>1, <2>2, <2>3, <2>a DEF CoolOK, Waits
    <3>. QED
      BY <3>1, <3>2 DEF CoolOK
  <2>. QED
    BY <1>1, <2>1, <2>4, QuietCool
<1>. QED
  BY <1>2, <1>3

\* What the policy lets through has waited.
LEMMA PolicyWaits ==
  ASSUME NEW r, NEW known, NEW asked, NEW implied, NEW T, NEW t \in Nat,
         Decide(r.policy, Context(r, known, asked, implied)) # "block",
         None \notin Int, r.flavour = "runner", r.policy # None, r.policy.cooldownSeconds # None,
         CoolOK(r, T, t), ~r.sent, r.pc = "looking", \A m \in T : m \in Nat
  PROVE  \A m \in T : r.at - m >= r.policy.cooldownSeconds
<1>. DEFINE x == Context(r, known, asked, implied)
            c == r.policy
<1>1. x.broadcast = TRUE /\ x.secondsSinceLast = IF r.last = None THEN None ELSE r.at - r.last
  BY DEF Context
<1>. HIDE DEF x
<1>2. ~CooldownActive(c, x)
  <2>1. Decide(c, x) # "block"
    BY DEF x
  <2>. QED
    BY <2>1 DEF Decide, HardGate
<1>. SUFFICES ASSUME NEW m \in T PROVE r.at - m >= c.cooldownSeconds
  OBVIOUS
<1>3. /\ r.hist # <<>> /\ m <= r.last /\ r.last \in Nat /\ r.last <= r.at /\ r.at \in Nat
      /\ c.cooldownSeconds \in Int /\ m \in Nat
  BY DEF CoolOK, Waits, Clocked, Limited
<1>4. x.secondsSinceLast = r.at - r.last /\ x.secondsSinceLast # None
  BY <1>1, <1>3
<1>5. r.at - r.last >= c.cooldownSeconds
  BY <1>1, <1>2, <1>3, <1>4 DEF CooldownActive
<1>. QED
  BY <1>3, <1>5

\* A process that goes on to send, having waited.
LEMMA SendingCool ==
  ASSUME Inv, Cool, NEW p \in Procs, NEW u, Become(p, Sending(u)), UNCHANGED <<now, landed>>,
         Shaped(u), ~run[p].sent, u.hist = run[p].hist, u.at = run[p].at,
         u.policy = run[p].policy, u.flavour = run[p].flavour,
         u.flavour = "runner" /\ u.policy # None /\ u.policy.cooldownSeconds # None =>
           \A m \in Sent(p) : u.at - m >= u.policy.cooldownSeconds
  PROVE  Cool'
<1>1. CASE Sending(u) = Over
  BY <1>1, GoingCool
<1>2. CASE Sending(u) # Over
  <2>. DEFINE s == Sending(u)
  <2>1. s.pc = "sending" /\ s.policy = u.policy /\ s.hist = u.hist /\ s.at = u.at /\ s.flavour = u.flavour
    BY <1>2, SendingLeads
  <2>. HIDE DEF s
  <2>2. CoolOK(run[p], Sent(p), now)
    BY DEF Cool
  <2>3. CoolOK(s, Sent(p), now)
    BY <2>1, <2>2 DEF CoolOK, Clocked, Limited, Waits
  <2>. QED
    BY <2>3, QuietCool DEF s
<1>. QED
  BY <1>1, <1>2

LEMMA PolicyCool ==
  ASSUME Inv, Cool, NEW p \in Procs, NEW known \in BOOLEAN, NEW asked, NEW implied,
         Policy(p, known, asked, implied)
  PROVE  Cool'
<1>. DEFINE r == run[p]
            verdict == Decide(r.policy, Context(r, known, asked, implied))
            Waited == r.flavour = "runner" /\ r.policy # None /\ r.policy.cooldownSeconds # None =>
                        \A m \in Sent(p) : r.at - m >= r.policy.cooldownSeconds
<1>1. /\ Shaped(r) /\ now \in Nat /\ r.pc = "looking" /\ ~r.sent /\ CoolOK(r, Sent(p), now)
      /\ Become(p, Judged(r, verdict)) /\ UNCHANGED <<now, landed>>
  BY Known DEF Policy, RunOK, Remembers, Cool, Files
<1>2. verdict # "block" => Waited
  <2>1. \A m \in Sent(p) : m \in Nat
    BY <1>1, TimesAre
  <2>. QED
    BY <1>1, <2>1, PolicyWaits, NumbersAssumption
<1>. HIDE DEF verdict
<1>3. CASE verdict = "block"
  <2>1. Judged(r, verdict) = Over
    BY <1>3 DEF Judged
  <2>. QED
    BY <1>1, <2>1, GoingCool
<1>4. CASE verdict = "confirm"
  <2>. DEFINE s == [r EXCEPT !.pc = "asking"]
  <2>1. Judged(r, verdict) \in {s, Over}
    BY <1>4 DEF Judged
  <2>2. /\ s.hist = r.hist /\ s.sent = r.sent /\ s.pc = "asking" /\ s.policy = r.policy
        /\ s.at = r.at /\ s.flavour = r.flavour
    BY <1>1 DEF Shaped, RunFields
  <2>. HIDE DEF s
  <2>3. CoolOK(s, Sent(p), now)
    BY <1>1, <1>2, <1>4, <2>2 DEF CoolOK, Clocked, Limited, Waits
  <2>. QED
    BY <1>1, <2>1, <2>3, GoingCool, QuietCool
<1>5. CASE verdict # "block" /\ verdict # "confirm"
  <2>. DEFINE u == [r EXCEPT !.confirmed = FALSE]
  <2>1. Judged(r, verdict) = Sending(u)
    BY <1>5 DEF Judged
  <2>2. /\ Shaped(u) /\ u.hist = r.hist /\ u.at = r.at /\ u.policy = r.policy
        /\ u.flavour = r.flavour
    BY <1>1 DEF Shaped, RunFields, CtxFields
  <2>. HIDE DEF u
  <2>. QED
    BY <1>1, <1>2, <1>5, <2>1, <2>2, SendingCool
<1>. QED
  BY <1>3, <1>4, <1>5

LEMMA AnswersCool ==
  ASSUME Inv, Cool, NEW p \in Procs, NEW yes \in BOOLEAN, Answers(p, yes)
  PROVE  Cool'
<1>. DEFINE r == run[p]
            u == [r EXCEPT !.confirmed = TRUE]
<1>1. /\ Shaped(r) /\ r.pc \in {"approving", "asking"} /\ ~r.sent /\ CoolOK(r, Sent(p), now)
      /\ UNCHANGED <<now, landed>>
  BY Known DEF Answers, RunOK, Remembers, Cool, Files
<1>2. CASE ~yes
  <2>1. Become(p, Over)
    BY <1>2 DEF Answers
  <2>. QED
    BY <1>1, <2>1, GoingCool
<1>3. CASE yes /\ r.pc = "approving"
  <2>1. Become(p, NextStage(r))
    BY <1>3 DEF Answers
  <2>. QED
    BY <1>1, <2>1, StageGoesOn, GoingCool
<1>4. CASE yes /\ r.pc = "asking"
  <2>1. Become(p, Sending(u))
    BY <1>4 DEF Answers
  <2>2. /\ Shaped(u) /\ u.hist = r.hist /\ u.at = r.at /\ u.policy = r.policy
        /\ u.flavour = r.flavour
    BY <1>1 DEF Shaped, RunFields, CtxFields
  <2>. HIDE DEF u
  <2>3. r.flavour = "runner" /\ r.policy # None /\ r.policy.cooldownSeconds # None =>
          \A m \in Sent(p) : r.at - m >= r.policy.cooldownSeconds
    BY <1>1, <1>4 DEF CoolOK, Waits
  <2>. QED
    BY <1>1, <2>1, <2>2, <2>3, SendingCool
<1>. QED
  BY <1>1, <1>2, <1>3, <1>4

\* The broadcast: the cooldown was over when the gate looked, and time only passes.
LEMMA AcceptCool ==
  ASSUME Inv, Cool, NEW p \in Procs, Accept(p)
  PROVE  Cool'
<1>. DEFINE r == run[p]
            b == Broadcast(p)
            s == [r EXCEPT !.sent = TRUE]
            n == Len(landed) + 1
<1>1. /\ Shaped(r) /\ r.pc = "sending" /\ ~r.sent /\ landed' = Append(landed, b) /\ Become(p, s)
      /\ now' = now /\ now \in Nat /\ CoolOK(r, Sent(p), now)
  BY Known DEF Accept, Cool, Files
<1>2. /\ s.pc = "sending" /\ s.sent = TRUE /\ s.policy = r.policy /\ s.flavour = r.flavour
      /\ s.hist = r.hist /\ s.at = r.at
  BY <1>1 DEF Shaped, RunFields
<1>3. b.proc = p /\ b.time = now /\ b.policy = r.policy /\ b.flavour = r.flavour
  BY DEF Broadcast
<1>. HIDE DEF b, s
<1>4. /\ n \in Nat /\ Len(landed) \in Nat
      /\ DOMAIN landed = 1 .. Len(landed) /\ DOMAIN landed' = 1 .. n
      /\ \A i \in DOMAIN landed : landed'[i] = landed[i]
      /\ landed'[n] = b
  BY <1>1, Appended
<1>. HIDE DEF n
<1>a. \A i \in DOMAIN landed' : i \in DOMAIN landed \/ i = n
  BY <1>4 DEF n
<1>b. \A i \in DOMAIN landed : i # n /\ i < n /\ i \in DOMAIN landed' /\ i \in Nat
  BY <1>4 DEF n
<1>5. \A i \in DOMAIN landed' : landed'[i].time \in Nat /\ landed'[i].time <= now
  BY <1>1, <1>3, <1>4, <1>a DEF Cool
<1>6. ASSUME NEW q \in Procs PROVE CoolOK(run'[q], Sent(q)', now)
  <2>1. CASE q = p
    <3>1. run'[q] = s
      BY <1>1, <2>1 DEF Inv, Become
    <3>2. CoolOK(s, Sent(q)', now)
      BY <1>1, <1>2 DEF CoolOK, Clocked, Limited, Waits
    <3>. QED
      BY <3>1, <3>2
  <2>2. CASE q # p
    <3>1. run'[q] = run[q] /\ CoolOK(run[q], Sent(q), now)
      BY <1>1, <2>2 DEF Inv, Become, Cool
    <3>2. Sent(q)' = Sent(q)
      <4>1. {j \in DOMAIN landed' : landed'[j].proc = q} = {j \in DOMAIN landed : landed[j].proc = q}
        BY <1>3, <1>4, <1>a, <1>b, <2>2
      <4>. QED
        BY <1>4, <4>1 DEF Sent
    <3>. QED
      BY <3>1, <3>2
  <2>. QED
    BY <2>1, <2>2
<1>7. ASSUME NEW i \in DOMAIN landed, landed[i].proc = p, r.flavour = "runner"
      PROVE  Spaced(landed[i], b)
  <2>1. landed[i].time \in Sent(p) /\ landed[i].time \in Nat
    BY <1>7 DEF Sent, Cool
  <2>. SUFFICES ASSUME r.policy # None, r.policy.cooldownSeconds # None
                PROVE  now - landed[i].time >= r.policy.cooldownSeconds
    BY <1>3 DEF Spaced
  <2>2. /\ r.at - landed[i].time >= r.policy.cooldownSeconds /\ r.at \in Nat /\ r.at <= now
        /\ r.policy.cooldownSeconds \in Int
    BY <1>1, <1>7, <2>1 DEF CoolOK, Waits, Clocked, Limited
  <2>. QED
    BY <1>1, <2>1, <2>2
<1>8. OwnCooldown'
  <2>. SUFFICES ASSUME NEW i \in DOMAIN landed', NEW j \in DOMAIN landed', i < j,
                       landed'[i].proc = landed'[j].proc, landed'[j].flavour = "runner"
                PROVE  Spaced(landed'[i], landed'[j])
    BY DEF OwnCooldown, Spaced
  <2>1. i \in DOMAIN landed
    BY <1>4, <1>a DEF n
  <2>2. CASE j \in DOMAIN landed
    BY <1>4, <2>1, <2>2 DEF Cool, OwnCooldown
  <2>3. CASE j = n
    BY <1>3, <1>4, <1>7, <2>1, <2>3
  <2>. QED
    BY <1>a, <2>2, <2>3
<1>. QED
  BY <1>1, <1>5, <1>6, <1>8 DEF Cool

\* The answer: the broadcast ends the process's own history.
LEMMA SendOkCool ==
  ASSUME Inv, Cool, NEW p \in Procs, NEW saved \in BOOLEAN, SendOk(p, saved)
  PROVE  Cool'
<1>. DEFINE r == run[p]
            h == Pushed(r.hist)
            k == IF r.flavour = "runner" THEN h ELSE <<>>
            s == [r EXCEPT !.ctx.submitted = TRUE, !.endpoint = None, !.sent = FALSE,
                           !.confirmed = FALSE, !.last = None, !.count = 0, !.at = 0,
                           !.said = None, !.hist = k]
            u == NextAction(s)
<1>1. /\ Shaped(r) /\ RunOK(r, now, Len(landed)) /\ now \in Nat /\ CoolOK(r, Sent(p), now)
      /\ Become(p, u) /\ UNCHANGED <<now, landed>>
  BY Known DEF SendOk, Cool
<1>2. h # <<>> /\ Last(h) = now
  <2>1. r.hist \in Seq(Nat)
    BY <1>1 DEF RunOK, Remembers, Ordered
  <2>2. /\ Append(r.hist, now) \in Seq(Nat) /\ Len(Append(r.hist, now)) = Len(r.hist) + 1
        /\ Append(r.hist, now)[Len(r.hist) + 1] = now /\ Len(r.hist) \in Nat
    BY <1>1, <2>1
  <2>3. Append(r.hist, now) # <<>>
    BY <2>2
  <2>. QED
    BY <2>2, <2>3 DEF Pushed, Last
<1>3. /\ Shaped(s) /\ s.hist = k /\ s.sent = FALSE /\ s.at = 0 /\ s.policy = r.policy
      /\ s.flavour = r.flavour
  <2>. HIDE DEF k
  <2>. QED
    BY <1>1 DEF Shaped, RunFields, CtxFields
<1>4. r.flavour = "runner" => k = h
  OBVIOUS
<1>. HIDE DEF k, s, h
<1>5. GoesOn(s, u)
  BY <1>3, ActionGoesOn
<1>6. /\ u.hist = k /\ u.sent = FALSE /\ u.at = 0 /\ u.policy = r.policy
      /\ u.flavour = r.flavour /\ u.pc \notin {"idle", "looking", "asking", "sending"}
  <2>. HIDE DEF u
  <2>. QED
    BY <1>3, <1>5 DEF GoesOn
<1>. HIDE DEF u
<1>7. \A m \in Sent(p) : m \in Nat /\ m <= now
  BY <1>1, TimesAre
<1>8. Clocked(u, now) /\ Limited(u)
  BY <1>1, <1>6 DEF CoolOK, Clocked, Limited
<1>9. Waits(u, Sent(p))
  BY <1>2, <1>4, <1>6, <1>7 DEF Waits
<1>10. CoolOK(u, Sent(p), now)
  BY <1>6, <1>8, <1>9 DEF CoolOK
<1>. QED
  BY <1>1, <1>10, QuietCool

LEMMA CoolStarts == Init => Cool
<1>. SUFFICES ASSUME Init PROVE Cool
  OBVIOUS
<1>1. now = 0 /\ landed = <<>> /\ run = [p \in Procs |-> Idle] /\ DOMAIN landed = {}
  BY DEF Init
<1>2. \A p : Sent(p) = {}
  BY <1>1 DEF Sent
<1>3. CoolOK(Idle, {}, now)
  BY <1>1 DEF Idle, CoolOK, Clocked, Limited, Waits
<1>. QED
  BY <1>1, <1>2, <1>3 DEF Cool, OwnCooldown

LEMMA CoolStays == Inv /\ Cool /\ [Next]_vars => Cool'
<1>. SUFFICES ASSUME Inv, Cool, [Next]_vars PROVE Cool'
  OBVIOUS
<1>1. CASE UNCHANGED vars
  BY <1>1 DEF vars, Cool, OwnCooldown, Spaced, Sent
<1>2. CASE Tick
  BY <1>2, TickCool
<1>3. ASSUME NEW p \in Procs, NEW ok \in BOOLEAN,
             \/ RunStage(p) \/ Begin(p) \/ Gate(p) \/ Accept(p) \/ Crash(p)
             \/ Throws(p, ok) \/ Answers(p, ok) \/ SendOk(p, ok)
             \/ SendFails(p, ok)
      PROVE  Cool'
  BY <1>3, GoingsCool, GateCool, AcceptCool, AnswersCool, SendOkCool
<1>4. ASSUME NEW p \in Procs, NEW st \in Starts, Start(p, st) PROVE Cool'
  BY <1>4, StartCool
<1>5. ASSUME NEW p \in Procs, NEW sum, NEW ok, ToolReturns(p, sum, ok)
      PROVE  Cool'
  BY <1>5, ToolsCool
<1>6. ASSUME NEW p \in Procs, NEW known \in BOOLEAN, NEW asked, NEW implied,
             Policy(p, known, asked, implied)
      PROVE  Cool'
  BY <1>6, PolicyCool
<1>. QED
  BY <1>1, <1>2, <1>3, <1>4, <1>5, <1>6, StepsAre

\* A run of runner.ts keeps cooldownSeconds between its own broadcasts, whatever other
\* processes do to the history they share: it looks at what it remembers itself.
THEOREM CooldownTheorem == Spec => []OwnCooldown
<1>1. Inv /\ [Next]_vars /\ Cool => Cool'
  BY CoolStays
<1>2. Cool => OwnCooldown
  BY DEF Cool
<1>. QED
  BY <1>1, <1>2, Invariance, CoolStarts, PTL DEF Spec
-----------------------------------------------------------------------------
(* Runs that follow one another.                                             *)

Live(r) == r.pc \notin {"idle", "over"}
Alone == \A p, q \in Procs : Alive(p) /\ Alive(q) => p = q

\* A history stands for the first m broadcasts: it has as many of the last ones as the file
\* keeps, none of them earlier than it was.
Reflects(h, m) ==
  /\ h \in Seq(Nat) /\ Len(h) <= m /\ (Len(h) = m \/ Len(h) >= HistoryCap)
  /\ \A i \in DOMAIN h : landed[m - Len(h) + i].time <= h[i]

\* What the gate has read of a history.
Looks(r) ==
  r.pc = "looking" =>
    /\ r.policy # None /\ Ordered(r.hist, r.at)
    /\ r.last = IF r.hist = <<>> THEN None ELSE Last(r.hist)
    /\ r.count = Cardinality({i \in DOMAIN r.hist : r.at - r.hist[i] < Minute})

\* The limits leave room for one more broadcast.
RoomFor(r) ==
  /\ r.policy.cooldownSeconds # None =>
       \A i \in DOMAIN landed : r.at - landed[i].time >= r.policy.cooldownSeconds
  /\ r.policy.maxTxPerMinute \in 1 .. HistoryCap =>
       Cardinality({i \in DOMAIN landed : r.at - landed[i].time < Minute}) < r.policy.maxTxPerMinute

\* What a process that is alone knows.
Knows(r) ==
  /\ Live(r) /\ r.policy # None /\ (r.flavour = "runner" \/ r.pc \in {"looking", "asking", "sending"}) =>
       Reflects(r.hist, IF r.sent THEN Len(landed) - 1 ELSE Len(landed))
  /\ r.pc \in {"asking", "sending"} /\ ~r.sent /\ r.policy # None => RoomFor(r)
  /\ r.sent => r.policy # None

InTime == \A i, j \in DOMAIN landed : i < j => landed[i].time <= landed[j].time

Kept ==
  \A j \in DOMAIN landed : (\A i \in 1 .. j - 1 : Spaced(landed[i], landed[j])) /\ WithinRate(j)

Solo ==
  /\ InTime /\ \A p \in Procs : Looks(run[p])
  /\ ~overlapped => Alone
  /\ ~overlapped /\ ~lost =>
       /\ history # Corrupt /\ ((\A p \in Procs : ~run[p].sent) => Reflects(history, Len(landed)))
       /\ \A p \in Procs : Knows(run[p])
       /\ Kept

LEMMA Places ==
  ASSUME Inv PROVE DOMAIN landed = 1 .. Len(landed) /\ Len(landed) \in Nat
  BY DEF Inv

\* The timestamps of a history leave room only if the broadcasts do.
LEMMA RoomOfCount ==
  ASSUME NEW h, NEW at \in Int, NEW c \in 1 .. HistoryCap, Inv, InTime,
         \A i \in DOMAIN landed : landed[i].time \in Nat,
         Reflects(h, Len(landed)), Cardinality({i \in DOMAIN h : at - h[i] < Minute}) < c
  PROVE  Cardinality({i \in DOMAIN landed : at - landed[i].time < Minute}) < c
<1>. DEFINE W == {i \in DOMAIN landed : at - landed[i].time < Minute}
            V == {i \in DOMAIN h : at - h[i] < Minute}
            d == Len(landed) - Len(h)
<1>1. /\ DOMAIN landed = 1 .. Len(landed) /\ Len(landed) \in Nat /\ h \in Seq(Nat)
      /\ DOMAIN h = 1 .. Len(h) /\ Len(h) \in Nat /\ d \in Nat /\ Minute \in Nat /\ HistoryCap \in Nat
      /\ c \in Nat /\ c <= HistoryCap
  BY Places, NumbersAssumption DEF Reflects
<1>2. \A i \in DOMAIN h : h[i] \in Nat /\ d + i \in DOMAIN landed /\ landed[d + i].time <= h[i]
  <2>. SUFFICES ASSUME NEW i \in DOMAIN h
                PROVE  h[i] \in Nat /\ d + i \in DOMAIN landed /\ landed[d + i].time <= h[i]
    OBVIOUS
  <2>1. h[i] \in Nat
    BY <1>1
  <2>2. d + i \in DOMAIN landed
    BY <1>1
  <2>3. landed[d + i].time <= h[i]
    BY DEF Reflects
  <2>. QED
    BY <2>1, <2>2, <2>3
<1>3. IsFiniteSet(V) /\ IsFiniteSet(DOMAIN h) /\ Cardinality(DOMAIN h) = Len(h)
      /\ Cardinality(V) \in Nat
  <2>1. IsFiniteSet(1 .. Len(h)) /\ Cardinality(1 .. Len(h)) = Len(h)
    <3>1. 1 \in Int /\ Len(h) \in Int
      BY <1>1
    <3>2. IsFiniteSet(1 .. Len(h)) /\ Cardinality(1 .. Len(h)) = IF 1 > Len(h) THEN 0 ELSE Len(h) - 1 + 1
      BY <3>1, FS_Interval
    <3>. QED
      BY <1>1, <3>2
  <2>2. IsFiniteSet(V)
    BY <1>1, <2>1, FS_Subset
  <2>. QED
    BY <1>1, <2>1, <2>2, FS_CardinalityType
<1>4. ASSUME NEW i \in W, i <= d PROVE FALSE
  <2>1. i \in DOMAIN landed /\ at - landed[i].time < Minute /\ landed[i].time \in Nat /\ i \in Nat
    BY <1>1
  <2>2. ASSUME NEW k \in DOMAIN h PROVE at - h[k] < Minute
    <3>1. i < d + k /\ d + k \in DOMAIN landed /\ landed[d + k].time <= h[k] /\ h[k] \in Nat
      <4>1. d + k \in DOMAIN landed /\ landed[d + k].time <= h[k] /\ h[k] \in Nat
        BY <1>2
      <4>2. k \in Nat /\ k >= 1 /\ d \in Int
        BY <1>1
      <4>3. i < d + k
        <5>. HIDE DEF d, W
        <5>. QED
          BY <1>4, <2>1, <4>2
      <4>. QED
        BY <4>1, <4>3
    <3>2. landed[i].time <= landed[d + k].time /\ landed[d + k].time \in Nat
      BY <2>1, <3>1 DEF InTime
    <3>. DEFINE x == landed[i].time
                y == landed[d + k].time
    <3>3. at \in Int /\ Minute \in Int /\ x \in Nat /\ y \in Nat /\ h[k] \in Nat
          /\ at - x < Minute /\ x <= y /\ y <= h[k]
      BY <1>1, <2>1, <3>1, <3>2
    <3>. HIDE DEF x, y
    <3>. QED
      BY <3>3
  <2>3. V = DOMAIN h
    BY <2>2
  <2>4. Len(h) >= HistoryCap
    <3>1. i >= 1 /\ i <= d /\ i \in Nat /\ d \in Nat
      BY <1>1, <1>4, <2>1
    <3>2. Len(h) = Len(landed) \/ Len(h) >= HistoryCap
      BY DEF Reflects
    <3>3. d # 0
      <4>. HIDE DEF d, W
      <4>. QED
        BY <3>1
    <3>4. Len(h) # Len(landed)
      <4>1. Len(h) \in Nat /\ Len(landed) \in Nat /\ Len(landed) - Len(h) # 0
        BY <1>1, <3>3
      <4>. QED
        BY <4>1
    <3>. QED
      BY <3>2, <3>4
  <2>5. Cardinality(V) = Len(h)
    <3>. HIDE DEF V
    <3>. QED
      BY <1>3, <2>3
  <2>6. Cardinality(V) < c
    OBVIOUS
  <2>. HIDE DEF V, W, d
  <2>7. Len(h) < c
    BY <2>5, <2>6
  <2>. QED
    BY <1>1, <2>4, <2>7
<1>5. \A i \in W : i \in Nat /\ i > d
  BY <1>1, <1>4
<1>. DEFINE f == [i \in W |-> i - d]
<1>6. \A i \in W : i - d \in V
  <2>. SUFFICES ASSUME NEW i \in W PROVE i - d \in V
    OBVIOUS
  <2>1. i \in DOMAIN landed /\ i > d /\ at - landed[i].time < Minute /\ landed[i].time \in Nat
    BY <1>5
  <2>2. i - d \in DOMAIN h /\ d + (i - d) = i
    <3>1. /\ i \in 1 .. Len(landed) /\ DOMAIN h = 1 .. Len(h) /\ d = Len(landed) - Len(h)
          /\ Len(landed) \in Nat /\ Len(h) \in Nat
      BY <1>1, <2>1
    <3>. HIDE DEF d, W, V
    <3>. QED
      BY <2>1, <3>1
  <2>3. landed[d + (i - d)].time <= h[i - d] /\ h[i - d] \in Nat
    BY <1>2, <2>2
  <2>. DEFINE x == landed[i].time
              y == h[i - d]
  <2>4. landed[d + (i - d)].time = x
    BY <2>2
  <2>5. at \in Int /\ Minute \in Int /\ x \in Nat /\ y \in Nat /\ at - x < Minute /\ x <= y
    BY <1>1, <2>1, <2>3, <2>4
  <2>6. at - y < Minute
    <3>. HIDE DEF x, y
    <3>. QED
      BY <2>5
  <2>. QED
    BY <2>2, <2>6
<1>7. f \in Injection(W, V)
  <2>. HIDE DEF W, V, d
  <2>1. f \in [W -> V]
    BY <1>6
  <2>2. \A a, b \in W : f[a] = f[b] => a = b
    BY <1>1, <1>5
  <2>. QED
    BY <2>1, <2>2 DEF Injection, IsInjective
<1>8. IsFiniteSet(W) /\ Cardinality(W) <= Cardinality(V)
  <2>. HIDE DEF W, V, f
  <2>. QED
    BY <1>3, <1>7, FS_Injection
<1>9. Cardinality(W) \in Nat
  BY <1>8, FS_CardinalityType
<1>. QED
  BY <1>1, <1>3, <1>8, <1>9

\* Who has looked at a history of all that counts, and was let through, has room.
LEMMA RoomAfterGate ==
  ASSUME NEW r, NEW known, NEW asked, NEW implied, Inv, Cool, InTime,
         Decide(r.policy, Context(r, known, asked, implied)) # "block",
         r.pc = "looking", Looks(r), Limited(r), r.at \in Nat, Reflects(r.hist, Len(landed))
  PROVE  RoomFor(r)
<1>. DEFINE x == Context(r, known, asked, implied)
            c == r.policy
            n == Len(landed)
<1>1. /\ x.broadcast = TRUE /\ x.lastMinute = r.count
      /\ x.secondsSinceLast = IF r.last = None THEN None ELSE r.at - r.last
  BY DEF Context
<1>. HIDE DEF x
<1>2. ~CooldownActive(c, x) /\ ~RateReached(c, x)
  <2>1. Decide(c, x) # "block"
    BY DEF x
  <2>. QED
    BY <2>1 DEF Decide, HardGate
<1>3. /\ c # None /\ Ordered(r.hist, r.at) /\ r.last = IF r.hist = <<>> THEN None ELSE Last(r.hist)
      /\ r.count = Cardinality({i \in DOMAIN r.hist : r.at - r.hist[i] < Minute})
  BY DEF Looks
<1>4. DOMAIN landed = 1 .. n /\ n \in Nat /\ HistoryCap \in Nat /\ HistoryCap > 0 /\ None \notin Int
  BY Places, NumbersAssumption
<1>5. \A i \in DOMAIN landed : landed[i].time \in Nat
  BY DEF Cool
<1>6. ASSUME c.cooldownSeconds # None, NEW i \in DOMAIN landed
      PROVE  r.at - landed[i].time >= c.cooldownSeconds
  <2>1. Len(r.hist) \in Nat /\ (Len(r.hist) = n \/ Len(r.hist) >= HistoryCap) /\ Len(r.hist) # 0
    BY <1>3, <1>4 DEF Reflects, Ordered
  <2>2. r.hist # <<>> /\ Len(r.hist) \in DOMAIN r.hist /\ n - Len(r.hist) + Len(r.hist) = n
    BY <1>3, <1>4, <2>1 DEF Ordered
  <2>3. r.last = r.hist[Len(r.hist)] /\ r.last \in Nat /\ r.last <= r.at
    BY <1>3, <2>2, EndOf DEF Last
  <2>4. landed[n].time <= r.last /\ n \in DOMAIN landed
    <3>1. landed[n - Len(r.hist) + Len(r.hist)].time <= r.hist[Len(r.hist)]
      BY <2>2 DEF Reflects
    <3>2. n # 0
      BY <1>4, <1>6
    <3>. QED
      BY <1>4, <2>2, <2>3, <3>1, <3>2
  <2>5. landed[i].time <= landed[n].time
    BY <1>4, <1>5, <1>6, <2>4 DEF InTime
  <2>6. c.cooldownSeconds \in Int
    BY <1>3, <1>6 DEF Limited
  <2>7. r.at - r.last >= c.cooldownSeconds
    BY <1>1, <1>2, <1>4, <1>6, <2>3, <2>6 DEF CooldownActive
  <2>8. landed[i].time \in Nat /\ landed[n].time \in Nat
    BY <1>5, <1>6, <2>4
  <2>. DEFINE t == landed[i].time
              y == landed[n].time
              l == r.last
              a == r.at
              k == c.cooldownSeconds
  <2>9. t \in Nat /\ y \in Nat /\ l \in Nat /\ a \in Int /\ k \in Int
        /\ t <= y /\ y <= l /\ a - l >= k
    BY <1>1, <2>3, <2>4, <2>5, <2>6, <2>7, <2>8
  <2>10. a - t >= k
    <3>. HIDE DEF t, y, l, a, k
    <3>. QED
      BY <2>9
  <2>. QED
    BY <2>10
<1>7. ASSUME c.maxTxPerMinute \in 1 .. HistoryCap
      PROVE  Cardinality({i \in DOMAIN landed : r.at - landed[i].time < Minute}) < c.maxTxPerMinute
  <2>1. r.count \in Nat
    <3>1. IsFiniteSet(1 .. Len(r.hist))
      <4>1. 1 \in Int /\ Len(r.hist) \in Int
        BY <1>3 DEF Ordered
      <4>. QED
        BY <4>1, FS_Interval
    <3>2. DOMAIN r.hist = 1 .. Len(r.hist)
      BY <1>3 DEF Ordered
    <3>3. {i \in DOMAIN r.hist : r.at - r.hist[i] < Minute} \in SUBSET (1 .. Len(r.hist))
      BY <3>2
    <3>. QED
      BY <1>3, <3>1, <3>3, FS_Subset, FS_CardinalityType
  <2>2. r.count < c.maxTxPerMinute
    BY <1>1, <1>2, <1>4, <1>7, <2>1 DEF RateReached
  <2>3. Cardinality({i \in DOMAIN r.hist : r.at - r.hist[i] < Minute}) < c.maxTxPerMinute
    BY <1>3, <2>2
  <2>4. r.at \in Int
    OBVIOUS
  <2>. QED
    BY <1>5, <1>7, <2>3, <2>4, RoomOfCount
<1>. QED
  BY <1>6, <1>7 DEF RoomFor

-----------------------------------------------------------------------------
(* The steps of a run that may be alone.                                     *)

LEMMA IdleKnows == /\ Looks(Idle) /\ Knows(Idle) /\ ~Idle.sent /\ ~Live(Idle)
                   /\ Looks(Over) /\ Knows(Over) /\ ~Over.sent /\ ~Live(Over)
  BY DEF Idle, Over, Looks, Knows, Live

\* A step of a process that is alive and has not just sent.
LEMMA QuietSolo ==
  ASSUME Inv, Solo, NEW p \in Procs, NEW s, Become(p, s), Alive(p), Looks(s), ~s.sent,
         UNCHANGED <<landed, overlapped>>, lost => lost',
         ~lost' => history' = history /\ ~run[p].sent,
         ~overlapped /\ ~lost => Knows(s)
  PROVE  Solo'
<1>1. \A q \in Procs : run'[q] = IF q = p THEN s ELSE run[q]
  BY DEF Inv, Become
<1>2. InTime' /\ \A q \in Procs : Looks(run'[q])
  BY <1>1 DEF Solo, InTime
<1>3. ASSUME ~overlapped' PROVE Alone'
  BY <1>1, <1>3 DEF Solo, Alone, Alive
<1>4. ASSUME ~overlapped', ~lost'
      PROVE  /\ history' # Corrupt /\ ((\A q \in Procs : ~run'[q].sent) => Reflects(history, Len(landed))')
             /\ \A q \in Procs : Knows(run[q])'
             /\ Kept'
  <2>1. ~overlapped /\ ~lost /\ history' = history /\ ~run[p].sent
    BY <1>4
  <2>2. /\ history # Corrupt /\ ((\A q \in Procs : ~run[q].sent) => Reflects(history, Len(landed)))
        /\ \A q \in Procs : Knows(run[q])
        /\ Kept
    BY <2>1 DEF Solo
  <2>3. (\A q \in Procs : ~run'[q].sent) => \A q \in Procs : ~run[q].sent
    BY <1>1, <2>1
  <2>4. Reflects(history, Len(landed))' <=> Reflects(history, Len(landed))
    BY <2>1 DEF Reflects
  <2>5. ASSUME NEW q \in Procs PROVE Knows(run[q])'
    <3>1. Knows(run'[q])
      BY <1>1, <2>1, <2>2
    <3>. QED
      BY <3>1 DEF Knows, Reflects, RoomFor
  <2>6. Kept'
    BY <2>2 DEF Kept, Spaced, WithinRate
  <2>. QED
    BY <2>1, <2>2, <2>3, <2>4, <2>5, <2>6
<1>. QED
  BY <1>2, <1>3, <1>4 DEF Solo

\* A process that goes on as it was, or stops.
LEMMA GoingKnows ==
  ASSUME NEW r, NEW s, Live(r), ~r.sent, GoesOn(r, s)
  PROVE  Looks(s) /\ ~s.sent /\ (Knows(r) => Knows(s))
<1>1. /\ s.pc \notin {"idle", "looking", "asking", "sending"} /\ s.policy = r.policy
      /\ s.flavour = r.flavour /\ s.hist = r.hist /\ s.sent = r.sent
  BY DEF GoesOn
<1>. QED
  BY <1>1 DEF Looks, Knows

LEMMA GoingSolo ==
  ASSUME Inv, Solo, NEW p \in Procs, NEW s, Become(p, s), Alive(p),
         (GoesOn(run[p], s) /\ ~run[p].sent) \/ s = Over,
         UNCHANGED <<landed, overlapped>>, lost => lost',
         ~lost' => history' = history /\ ~run[p].sent
  PROVE  Solo'
<1>1. CASE s = Over
  BY <1>1, IdleKnows, QuietSolo
<1>2. CASE GoesOn(run[p], s) /\ ~run[p].sent
  <2>1. Live(run[p])
    BY DEF Alive, Live
  <2>2. Looks(s) /\ ~s.sent /\ (Knows(run[p]) => Knows(s))
    BY <1>2, <2>1, GoingKnows
  <2>3. ~overlapped /\ ~lost => Knows(s)
    BY <2>2 DEF Solo
  <2>. QED
    BY <2>2, <2>3, QuietSolo
<1>. QED
  BY <1>1, <1>2

\* A tool that returns.
LEMMA ReturnsSolo ==
  ASSUME Inv, Solo, NEW p \in Procs, NEW tool, NEW r, Returns(p, tool, r), Shaped(r),
         r.at = run[p].at, r.policy = run[p].policy, r.flavour = run[p].flavour,
         r.hist = run[p].hist, r.sent = run[p].sent, r.pc = "acting"
  PROVE  Solo'
<1>. DEFINE s == [r EXCEPT !.endpoint = None]
            u == NextAction(s)
<1>1. /\ Shaped(s) /\ s.hist = r.hist /\ s.sent = r.sent /\ s.policy = r.policy
      /\ s.flavour = r.flavour /\ s.pc = "acting"
  BY DEF Shaped, RunFields, CtxFields
<1>2. GoesOn(s, u)
  BY <1>1, ActionGoesOn
<1>3. ~run[p].sent /\ run[p].pc = "acting"
  BY Known DEF Returns, RunOK, Remembers
<1>4. Become(p, u) /\ UNCHANGED <<landed, overlapped, lost, history>> /\ Alive(p)
  BY <1>3 DEF Returns, Files, Ghosts, Alive
<1>. HIDE DEF s, u
<1>5. Knows(run[p]) => Knows(s)
  BY <1>1, <1>3 DEF Knows, Live
<1>6. Live(s) /\ ~s.sent
  BY <1>1, <1>3 DEF Live
<1>7. Looks(u) /\ ~u.sent /\ (Knows(s) => Knows(u))
  BY <1>2, <1>6, GoingKnows
<1>8. ~overlapped /\ ~lost => Knows(u)
  BY <1>5, <1>7 DEF Solo
<1>. QED
  BY <1>3, <1>4, <1>7, <1>8, QuietSolo

LEMMA ToolsSolo ==
  ASSUME Inv, Solo, NEW p \in Procs, NEW sum, NEW ok, ToolReturns(p, sum, ok)
  PROVE  Solo'
<1>1. PICK tool, r : Returns(p, tool, r) /\ Untouched(run[p], r)
  BY ToolsReturn
<1>2. run[p].pc = "acting"
  BY <1>1 DEF Returns
<1>. QED
  BY <1>1, <1>2, ReturnsSolo DEF Untouched

LEMMA GoingsSolo ==
  ASSUME Inv, Solo, NEW p \in Procs, NEW ok,
         RunStage(p) \/ Begin(p) \/ Throws(p, ok) \/ SendFails(p, ok) \/ Crash(p)
  PROVE  Solo'
<1>. DEFINE r == run[p]
            s == [r EXCEPT !.pc = "acting", !.endpoint = EndpointOf(r)]
<1>1. Shaped(r) /\ (r.sent => r.pc = "sending")
  BY Known DEF RunOK, Remembers
<1>2. CASE RunStage(p)
  <2>1. UNCHANGED <<landed, overlapped, lost, history>> /\ r.pc = "stage" /\ Alive(p)
    BY <1>2 DEF RunStage, Files, Ghosts, Alive
  <2>2. GoesOn(r, NextStage(r))
    BY <1>1, StageGoesOn
  <2>3. GoesOn(r, [r EXCEPT !.pc = "approving"]) /\ GoesOn(r, [r EXCEPT !.pc = "ready"])
    BY <1>1 DEF GoesOn, Shaped, RunFields, CtxFields
  <2>4. GoesOn(r, Entered(r)) \/ Entered(r) = Over
    BY <2>2, <2>3 DEF Entered
  <2>5. \/ Become(p, Over) \/ Become(p, NextStage(r)) \/ Become(p, Entered(r))
    BY <1>2 DEF RunStage
  <2>. QED
    BY <1>1, <2>1, <2>2, <2>4, <2>5, GoingSolo
<1>3. CASE Begin(p)
  <2>1. GoesOn(r, s)
    BY <1>1 DEF GoesOn, Shaped, RunFields, CtxFields
  <2>2. Become(p, s) /\ UNCHANGED <<landed, overlapped, lost, history>> /\ r.pc = "ready" /\ Alive(p)
    BY <1>3 DEF Begin, Files, Ghosts, Alive
  <2>. HIDE DEF s
  <2>. QED
    BY <1>1, <2>1, <2>2, GoingSolo
<1>4. CASE Throws(p, ok) \/ SendFails(p, ok) \/ Crash(p)
  <2>1. Become(p, Over) /\ UNCHANGED <<landed, overlapped>> /\ Alive(p)
    BY <1>4 DEF Throws, SendFails, Crash, Alive
  <2>2. CASE Throws(p, ok)
    <3>1. history' = history /\ lost' = lost /\ ~r.sent
      BY <1>1, <2>2 DEF Throws
    <3>. QED
      BY <2>1, <3>1, GoingSolo
  <2>3. CASE SendFails(p, ok) \/ Crash(p)
    <3>1. lost' = (lost \/ r.sent)
      BY <2>3 DEF SendFails, Crash
    <3>2. ~r.sent => history' = history
      BY <2>3 DEF SendFails, Crash
    <3>3. (lost => lost') /\ (~lost' => history' = history /\ ~r.sent)
      BY <3>1, <3>2, Zenon
    <3>. QED
      BY <2>1, <3>3, GoingSolo
  <2>. QED
    BY <1>4, <2>2, <2>3
<1>. QED
  BY <1>2, <1>3, <1>4

\* Where nobody else runs, a new process finds all broadcasts in the file.
LEMMA StartSolo ==
  ASSUME Inv, Solo, NEW p \in Procs, NEW st \in Starts, Start(p, st)
  PROVE  Solo'
<1>. DEFINE h == IF st.flavour = "runner" THEN LoadHistory ELSE <<>>
            s == [Idle EXCEPT !.pc = "stage", !.flavour = st.flavour, !.policy = st.policy,
                    !.approver = st.approver, !.flow = st.flow, !.sums = st.sums, !.hist = h]
<1>1. /\ Become(p, s) /\ UNCHANGED <<landed, history, lost>>
      /\ overlapped' = (overlapped \/ \E q \in Procs : Alive(q))
  BY DEF Start, Files
<1>2. s.pc = "stage" /\ s.flavour = st.flavour /\ s.hist = h /\ s.sent = FALSE
  <2>. HIDE DEF h
  <2>. QED
    BY DEF Idle, EmptyCtx
<1>3. st.flavour = "runner" /\ history # Corrupt => h = history
  BY DEF LoadHistory
<1>. HIDE DEF h, s
<1>4. \A q \in Procs : run'[q] = IF q = p THEN s ELSE run[q]
  BY <1>1 DEF Inv, Become
<1>5. InTime' /\ \A q \in Procs : Looks(run'[q])
  BY <1>1, <1>2, <1>4 DEF Solo, InTime, Looks
<1>6. ASSUME ~overlapped' PROVE Alone'
  BY <1>1, <1>4, <1>6 DEF Alone, Alive
<1>7. ASSUME ~overlapped', ~lost'
      PROVE  /\ history' # Corrupt /\ ((\A q \in Procs : ~run'[q].sent) => Reflects(history, Len(landed))')
             /\ \A q \in Procs : Knows(run[q])'
             /\ Kept'
  <2>1. ~overlapped /\ ~lost /\ \A q \in Procs : ~Alive(q)
    BY <1>1, <1>7
  <2>2. \A q \in Procs : ~run[q].sent
    BY <2>1 DEF Inv, RunOK, Remembers, Alive
  <2>3. /\ history # Corrupt /\ Reflects(history, Len(landed))
        /\ \A q \in Procs : Knows(run[q])
        /\ Kept
    BY <2>1, <2>2 DEF Solo
  <2>4. Knows(s)
    BY <1>2, <1>3, <2>3 DEF Knows
  <2>5. ASSUME NEW q \in Procs PROVE Knows(run[q])'
    <3>1. Knows(run'[q])
      BY <1>4, <2>3, <2>4
    <3>. QED
      BY <1>1, <3>1 DEF Knows, Reflects, RoomFor
  <2>6. Kept' /\ Reflects(history, Len(landed))'
    BY <1>1, <2>3 DEF Kept, Spaced, WithinRate, Reflects
  <2>. QED
    BY <1>1, <2>3, <2>5, <2>6
<1>. QED
  BY <1>5, <1>6, <1>7 DEF Solo

LEMMA TickSolo ==
  ASSUME Solo, Tick \/ UNCHANGED vars
  PROVE  Solo'
<1>1. UNCHANGED <<run, landed, history, overlapped, lost>>
  BY DEF Tick, Files, Ghosts, vars
<1>2. InTime' /\ (\A p \in Procs : Looks(run'[p])) /\ (~overlapped' => Alone')
  BY <1>1 DEF Solo, InTime, Alone, Alive
<1>3. ASSUME ~overlapped', ~lost'
      PROVE  /\ history' # Corrupt /\ ((\A q \in Procs : ~run'[q].sent) => Reflects(history, Len(landed))')
             /\ \A q \in Procs : Knows(run[q])'
             /\ Kept'
  <2>1. /\ history # Corrupt /\ ((\A q \in Procs : ~run[q].sent) => Reflects(history, Len(landed)))
        /\ \A q \in Procs : Knows(run[q])
        /\ Kept
    BY <1>1, <1>3 DEF Solo
  <2>. QED
    BY <1>1, <2>1 DEF Kept, Spaced, WithinRate, Reflects, Knows, RoomFor
<1>. QED
  BY <1>2, <1>3 DEF Solo

\* A process that goes on to send and has room for it.
LEMMA SendingSolo ==
  ASSUME Inv, Solo, NEW p \in Procs, NEW u, Become(p, Sending(u)), Alive(p), ~run[p].sent,
         UNCHANGED <<landed, overlapped, lost, history>>, Shaped(u),
         ~overlapped /\ ~lost /\ u.policy # None => Reflects(u.hist, Len(landed)) /\ RoomFor(u)
  PROVE  Solo'
<1>1. CASE Sending(u) = Over
  BY <1>1, GoingSolo
<1>2. CASE Sending(u) # Over
  <2>. DEFINE s == Sending(u)
  <2>1. s.pc = "sending" /\ s.sent = FALSE /\ s.policy = u.policy /\ s.hist = u.hist /\ s.at = u.at
    BY <1>2, SendingLeads
  <2>. HIDE DEF s
  <2>2. Looks(s) /\ ~s.sent
    BY <2>1 DEF Looks
  <2>3. ASSUME ~overlapped, ~lost PROVE Knows(s)
    <3>1. s.policy # None => Reflects(s.hist, Len(landed)) /\ RoomFor(u)
      BY <2>1, <2>3
    <3>. QED
      BY <2>1, <3>1 DEF Knows, RoomFor
  <2>4. Become(p, s)
    BY DEF s
  <2>. QED
    BY <2>2, <2>3, <2>4, QuietSolo
<1>. QED
  BY <1>1, <1>2

\* The gate of a process that is alone reads a history of all broadcasts.
LEMMA GateSolo ==
  ASSUME Inv, Solo, NEW p \in Procs, Gate(p)
  PROVE  Solo'
<1>. DEFINE r == run[p]
            h == HistoryOf(r)
<1>1. /\ RunOK(r, now, Len(landed)) /\ now \in Nat /\ r.pc = "ready" /\ ~r.sent /\ Shaped(r) /\ Alive(p)
      /\ UNCHANGED <<landed, overlapped, lost, history>>
  BY Known DEF Gate, RunOK, Remembers, Files, Ghosts, Alive
<1>2. Ordered(h, now)
  <2>1. Ordered(LoadHistory, now)
    BY NothingIsOrdered DEF Inv, LoadHistory
  <2>. QED
    BY <1>1, <2>1 DEF HistoryOf, RunOK, Remembers
<1>3. CASE r.policy = None
  <2>. DEFINE u == [r EXCEPT !.at = now]
  <2>1. Become(p, Sending(u))
    BY <1>3 DEF Gate
  <2>2. Shaped(u) /\ u.policy = None
    BY <1>1, <1>3 DEF Shaped, RunFields, CtxFields
  <2>. HIDE DEF u
  <2>. QED
    BY <1>1, <2>1, <2>2, SendingSolo
<1>4. CASE r.policy # None
  <2>. DEFINE last == IF h = <<>> THEN None ELSE Last(h)
              count == Cardinality({i \in DOMAIN h : now - h[i] < Minute})
              u == [r EXCEPT !.pc = "looking", !.hist = h, !.at = now, !.said = NetworkOf(r),
                             !.last = last, !.count = count]
  <2>1. Become(p, u)
    BY <1>4 DEF Gate
  <2>2. /\ u.hist = h /\ u.at = now /\ u.last = last /\ u.count = count /\ u.policy = r.policy
        /\ u.flavour = r.flavour /\ u.pc = "looking" /\ u.sent = r.sent
    <3>. HIDE DEF h, last, count
    <3>. QED
      BY <1>1 DEF Shaped, RunFields, CtxFields
  <2>. HIDE DEF u
  <2>3. Looks(u)
    <3>1. u.last = (IF u.hist = <<>> THEN None ELSE Last(u.hist))
          /\ u.count = Cardinality({i \in DOMAIN u.hist : u.at - u.hist[i] < Minute})
      BY <2>2
    <3>. QED
      BY <1>2, <1>4, <2>2, <3>1 DEF Looks
  <2>4. ASSUME ~overlapped, ~lost PROVE Reflects(h, Len(landed))
    <3>1. history # Corrupt /\ Knows(r) /\ Alone
          /\ ((\A q \in Procs : ~run[q].sent) => Reflects(history, Len(landed)))
      BY <2>4 DEF Solo
    <3>2. CASE r.flavour = "runner"
      BY <1>1, <1>4, <3>1, <3>2 DEF Knows, Live, HistoryOf
    <3>3. CASE r.flavour # "runner"
      <4>1. h = history
        BY <3>1, <3>3 DEF HistoryOf, LoadHistory
      <4>2. ASSUME NEW q \in Procs PROVE ~run[q].sent
        <5>1. q = p \/ ~Alive(q)
          BY <1>1, <3>1 DEF Alone
        <5>2. run[q].sent => Alive(q)
          BY DEF Inv, RunOK, Remembers, Alive
        <5>. QED
          BY <1>1, <5>1, <5>2
      <4>. QED
        BY <3>1, <4>1, <4>2
    <3>. QED
      BY <3>2, <3>3
  <2>. HIDE DEF h
  <2>5. ~overlapped /\ ~lost => Knows(u)
    BY <1>1, <2>2, <2>4 DEF Knows
  <2>. QED
    BY <1>1, <2>1, <2>2, <2>3, <2>5, QuietSolo
<1>. QED
  BY <1>3, <1>4

LEMMA PolicySolo ==
  ASSUME Inv, Cool, Solo, NEW p \in Procs, NEW known \in BOOLEAN, NEW asked, NEW implied,
         Policy(p, known, asked, implied)
  PROVE  Solo'
<1>. DEFINE r == run[p]
            verdict == Decide(r.policy, Context(r, known, asked, implied))
<1>1. /\ Shaped(r) /\ r.pc = "looking" /\ ~r.sent /\ Alive(p) /\ Looks(r)
      /\ Become(p, Judged(r, verdict)) /\ UNCHANGED <<landed, overlapped, lost, history>>
  BY Known DEF Policy, RunOK, Remembers, Files, Ghosts, Alive, Solo
<1>2. Limited(r) /\ r.at \in Nat /\ InTime
  BY DEF Cool, CoolOK, Clocked, Solo
<1>3. ASSUME ~overlapped, ~lost PROVE r.policy # None /\ Reflects(r.hist, Len(landed))
  <2>1. Knows(r)
    BY <1>3 DEF Solo
  <2>2. r.policy # None
    BY <1>1 DEF Looks
  <2>. QED
    BY <1>1, <2>1, <2>2 DEF Knows, Live
<1>4. ~overlapped /\ ~lost /\ verdict # "block" => RoomFor(r)
  BY <1>1, <1>2, <1>3, RoomAfterGate
<1>. HIDE DEF verdict
<1>5. CASE verdict = "block"
  <2>1. Judged(r, verdict) = Over
    BY <1>5 DEF Judged
  <2>. QED
    BY <1>1, <2>1, GoingSolo
<1>6. CASE verdict = "confirm"
  <2>. DEFINE s == [r EXCEPT !.pc = "asking"]
  <2>1. Judged(r, verdict) \in {s, Over}
    BY <1>6 DEF Judged
  <2>2. s.hist = r.hist /\ s.sent = r.sent /\ s.pc = "asking" /\ s.policy = r.policy /\ s.at = r.at
    BY <1>1 DEF Shaped, RunFields
  <2>. HIDE DEF s
  <2>3. Looks(s) /\ ~s.sent
    BY <1>1, <2>2 DEF Looks
  <2>4. ASSUME ~overlapped, ~lost PROVE Knows(s)
    <3>1. RoomFor(s)
      BY <1>4, <1>6, <2>2, <2>4 DEF RoomFor
    <3>. QED
      BY <1>1, <1>3, <2>2, <2>4, <3>1 DEF Knows
  <2>. QED
    BY <1>1, <2>1, <2>3, <2>4, GoingSolo, QuietSolo
<1>7. CASE verdict # "block" /\ verdict # "confirm"
  <2>. DEFINE u == [r EXCEPT !.confirmed = FALSE]
  <2>1. Judged(r, verdict) = Sending(u)
    BY <1>7 DEF Judged
  <2>2. Shaped(u) /\ u.hist = r.hist /\ u.at = r.at /\ u.policy = r.policy
    BY <1>1 DEF Shaped, RunFields, CtxFields
  <2>. HIDE DEF u
  <2>3. ~overlapped /\ ~lost => Reflects(u.hist, Len(landed)) /\ RoomFor(u)
    BY <1>3, <1>4, <1>7, <2>2 DEF RoomFor
  <2>. QED
    BY <1>1, <2>1, <2>2, <2>3, SendingSolo
<1>. QED
  BY <1>5, <1>6, <1>7

LEMMA AnswersSolo ==
  ASSUME Inv, Solo, NEW p \in Procs, NEW yes \in BOOLEAN, Answers(p, yes)
  PROVE  Solo'
<1>. DEFINE r == run[p]
            u == [r EXCEPT !.confirmed = TRUE]
<1>1. /\ Shaped(r) /\ r.pc \in {"approving", "asking"} /\ ~r.sent /\ Alive(p)
      /\ UNCHANGED <<landed, overlapped, lost, history>>
  BY Known DEF Answers, RunOK, Remembers, Files, Ghosts, Alive
<1>2. CASE ~yes
  <2>1. Become(p, Over)
    BY <1>2 DEF Answers
  <2>. QED
    BY <1>1, <2>1, GoingSolo
<1>3. CASE yes /\ r.pc = "approving"
  <2>1. Become(p, NextStage(r))
    BY <1>3 DEF Answers
  <2>. QED
    BY <1>1, <2>1, StageGoesOn, GoingSolo
<1>4. CASE yes /\ r.pc = "asking"
  <2>1. Become(p, Sending(u))
    BY <1>4 DEF Answers
  <2>2. Shaped(u) /\ u.hist = r.hist /\ u.at = r.at /\ u.policy = r.policy
    BY <1>1 DEF Shaped, RunFields, CtxFields
  <2>. HIDE DEF u
  <2>3. ASSUME ~overlapped, ~lost, u.policy # None PROVE Reflects(u.hist, Len(landed)) /\ RoomFor(u)
    <3>1. Knows(r)
      BY <2>3 DEF Solo
    <3>2. Reflects(r.hist, Len(landed)) /\ RoomFor(r)
      BY <1>1, <1>4, <2>2, <2>3, <3>1 DEF Knows, Live
    <3>. QED
      BY <2>2, <3>2 DEF RoomFor
  <2>. QED
    BY <1>1, <2>1, <2>2, <2>3, SendingSolo
<1>. QED
  BY <1>1, <1>2, <1>3, <1>4

-----------------------------------------------------------------------------
(* The broadcast of a process that is alone, and its record.                 *)

\* Nobody else lives, and who does not live knows nothing that matters.
LEMMA OthersRest ==
  ASSUME Inv, Alone, NEW p \in Procs, Alive(p), NEW q \in Procs, q # p
  PROVE  ~Live(run[q]) /\ ~run[q].sent
<1>1. ~Alive(q)
  BY DEF Alone
<1>. QED
  BY <1>1 DEF Inv, RunOK, Remembers, Alive, Live

\* The room that a gate found is still there when the broadcast is accepted.
LEMMA RoomKeeps ==
  ASSUME Inv, Cool, NEW r, NEW b, RoomFor(r), Limited(r), Clocked(r, now), r.policy # None,
         landed' = Append(landed, b), b.time = now, b.policy = r.policy, Kept
  PROVE  Kept'
<1>n. PICK n : n = Len(landed) + 1
  OBVIOUS
<1>1. /\ n \in Nat /\ Len(landed) \in Nat
      /\ DOMAIN landed = 1 .. Len(landed) /\ DOMAIN landed' = 1 .. n
      /\ \A i \in DOMAIN landed : landed'[i] = landed[i]
      /\ landed'[n] = b
  BY <1>n, Appended
<1>2. \A i \in DOMAIN landed' : i \in DOMAIN landed \/ i = n
  BY <1>1
<1>3. \A j \in DOMAIN landed : 1 .. j \subseteq DOMAIN landed /\ 1 .. j - 1 \subseteq DOMAIN landed
  BY <1>1
<1>4. 1 .. n - 1 = DOMAIN landed /\ 1 .. n = DOMAIN landed \cup {n} /\ n \notin DOMAIN landed
  BY <1>1
<1>5. now \in Nat /\ r.at \in Nat /\ r.at <= now /\ \A i \in DOMAIN landed : landed[i].time \in Nat
  BY DEF Inv, Clocked, Cool
<1>6. ASSUME NEW i \in DOMAIN landed PROVE Spaced(landed[i], b)
  <2>. SUFFICES ASSUME r.policy.cooldownSeconds # None
                PROVE  now - landed[i].time >= r.policy.cooldownSeconds
    BY DEF Spaced
  <2>1. r.at - landed[i].time >= r.policy.cooldownSeconds /\ r.policy.cooldownSeconds \in Int
    BY DEF RoomFor, Limited
  <2>. QED
    BY <1>5, <2>1
<1>7. ASSUME r.policy.maxTxPerMinute \in 1 .. HistoryCap
      PROVE  Cardinality({i \in 1 .. n : b.time - landed'[i].time < Minute}) <= r.policy.maxTxPerMinute
  <2>. DEFINE W == {i \in DOMAIN landed : r.at - landed[i].time < Minute}
              V == {i \in 1 .. n : b.time - landed'[i].time < Minute}
  <2>1. Cardinality(W) < r.policy.maxTxPerMinute /\ Minute \in Nat
    BY <1>7, NumbersAssumption DEF RoomFor
  <2>2. IsFiniteSet(W) /\ Cardinality(W) \in Nat /\ n \notin W
    <3>1. 1 \in Int /\ Len(landed) \in Int
      BY <1>1
    <3>2. IsFiniteSet(DOMAIN landed)
      BY <1>1, <3>1, FS_Interval
    <3>3. W \subseteq DOMAIN landed
      OBVIOUS
    <3>. HIDE DEF W
    <3>. QED
      BY <1>4, <3>2, <3>3, FS_Subset, FS_CardinalityType
  <2>3. IsFiniteSet(W \cup {n}) /\ Cardinality(W \cup {n}) = Cardinality(W) + 1
    <3>. HIDE DEF W
    <3>. QED
      BY <2>2, FS_AddElement
  <2>4. V \subseteq W \cup {n}
    <3>. SUFFICES ASSUME NEW i \in DOMAIN landed, now - landed[i].time < Minute
                  PROVE  r.at - landed[i].time < Minute
      BY <1>1, <1>4
    <3>. QED
      BY <1>5, <2>1
  <2>5. Cardinality(V) <= Cardinality(W) + 1 /\ Cardinality(V) \in Nat
    <3>. HIDE DEF V, W
    <3>. QED
      BY <2>3, <2>4, FS_Subset, FS_CardinalityType
  <2>6. r.policy.maxTxPerMinute \in Int
    BY <1>7, NumbersAssumption
  <2>. HIDE DEF V, W
  <2>7. Cardinality(V) <= r.policy.maxTxPerMinute
    BY <2>1, <2>2, <2>5, <2>6
  <2>. QED
    BY <2>7 DEF V
<1>8. ASSUME NEW j \in DOMAIN landed
      PROVE  (\A i \in 1 .. j - 1 : Spaced(landed'[i], landed'[j])) /\ WithinRate(j)'
  <2>1. (\A i \in 1 .. j - 1 : Spaced(landed[i], landed[j])) /\ WithinRate(j)
    BY DEF Kept
  <2>2. \A i \in 1 .. j - 1 : Spaced(landed'[i], landed'[j])
    BY <1>1, <1>3, <2>1
  <2>3. {i \in 1 .. j : landed'[j].time - landed'[i].time < Minute}
          = {i \in 1 .. j : landed[j].time - landed[i].time < Minute}
    BY <1>1, <1>3
  <2>. QED
    BY <1>1, <2>1, <2>2, <2>3 DEF WithinRate
<1>9. (\A i \in 1 .. n - 1 : Spaced(landed'[i], landed'[n])) /\ WithinRate(n)'
  <2>1. \A i \in 1 .. n - 1 : Spaced(landed'[i], landed'[n])
    BY <1>1, <1>4, <1>6
  <2>. QED
    BY <1>1, <1>7, <2>1 DEF WithinRate
<1>10. Kept' <=> \A j \in DOMAIN landed' : (\A i \in 1 .. j - 1 : Spaced(landed'[i], landed'[j])) /\ WithinRate(j)'
  BY DEF Kept, Spaced
<1>. QED
  BY <1>2, <1>8, <1>9, <1>10

LEMMA AcceptSolo ==
  ASSUME Inv, Cool, Solo, NEW p \in Procs, Accept(p)
  PROVE  Solo'
<1>. DEFINE r == run[p]
            b == Broadcast(p)
            s == [r EXCEPT !.sent = TRUE]
            n == Len(landed) + 1
<1>1. /\ Shaped(r) /\ r.pc = "sending" /\ ~r.sent /\ Alive(p) /\ landed' = Append(landed, b) /\ Become(p, s)
      /\ UNCHANGED <<now, history, overlapped>> /\ lost' = (lost \/ r.policy = None)
  BY Known DEF Accept, Files, Alive
<1>2. /\ s.pc = "sending" /\ s.sent = TRUE /\ s.policy = r.policy /\ s.flavour = r.flavour
      /\ s.hist = r.hist
  BY <1>1 DEF Shaped, RunFields
<1>3. b.time = now /\ b.policy = r.policy
  BY DEF Broadcast
<1>. HIDE DEF b, s
<1>4. /\ n \in Nat /\ Len(landed) \in Nat /\ Len(landed') = n
      /\ DOMAIN landed = 1 .. Len(landed) /\ DOMAIN landed' = 1 .. n
      /\ \A i \in DOMAIN landed : landed'[i] = landed[i]
      /\ landed'[n] = b
  BY <1>1, Appended
<1>5. \A q \in Procs : run'[q] = IF q = p THEN s ELSE run[q]
  BY <1>1 DEF Inv, Become
<1>6. InTime'
  <2>. SUFFICES ASSUME NEW i \in DOMAIN landed', NEW j \in DOMAIN landed', i < j
                PROVE  landed'[i].time <= landed'[j].time
    BY DEF InTime
  <2>1. i \in DOMAIN landed /\ (j \in DOMAIN landed \/ j = n)
    BY <1>4
  <2>2. CASE j \in DOMAIN landed
    BY <1>4, <2>1, <2>2 DEF Solo, InTime
  <2>3. CASE j = n
    <3>1. i # n
      BY <1>4, <2>3
    <3>2. landed'[i] = landed[i] /\ landed[i].time <= now
      BY <1>4, <2>1, <2>3, <3>1 DEF Cool
    <3>3. landed'[j].time = now
      BY <1>3, <1>4, <2>3
    <3>. QED
      BY <3>2, <3>3
  <2>. QED
    BY <2>1, <2>2, <2>3
<1>7. \A q \in Procs : Looks(run'[q])
  <2>1. Looks(s)
    BY <1>2 DEF Looks
  <2>2. \A q \in Procs : Looks(run[q])
    BY DEF Solo
  <2>. QED
    BY <1>5, <2>1, <2>2
<1>8. ASSUME ~overlapped' PROVE Alone'
  BY <1>1, <1>2, <1>5, <1>8 DEF Solo, Alone, Alive
<1>9. ASSUME ~overlapped', ~lost'
      PROVE  /\ history' # Corrupt /\ ((\A q \in Procs : ~run'[q].sent) => Reflects(history, Len(landed))')
             /\ \A q \in Procs : Knows(run[q])'
             /\ Kept'
  <2>1. ~overlapped /\ ~lost /\ r.policy # None
    BY <1>1, <1>9
  <2>2. history # Corrupt /\ Knows(r) /\ Kept /\ Alone
    BY <2>1 DEF Solo
  <2>3. Reflects(r.hist, Len(landed)) /\ RoomFor(r)
    BY <1>1, <2>1, <2>2 DEF Knows, Live
  <2>4. Limited(r) /\ Clocked(r, now)
    BY DEF Cool, CoolOK
  <2>5. Kept'
    BY <1>1, <1>3, <2>1, <2>2, <2>3, <2>4, RoomKeeps
  <2>6. Knows(run[p])'
    <3>. DEFINE h == r.hist
                m == Len(landed)
    <3>1. /\ h \in Seq(Nat) /\ Len(h) <= m /\ (Len(h) = m \/ Len(h) >= HistoryCap)
          /\ DOMAIN h = 1 .. Len(h) /\ Len(h) \in Nat
          /\ \A i \in DOMAIN h : landed[m - Len(h) + i].time <= h[i]
      BY <2>3 DEF Reflects
    <3>2. \A i \in DOMAIN h : m - Len(h) + i \in DOMAIN landed
      <4>1. m \in Nat /\ DOMAIN landed = 1 .. m
        BY <1>4
      <4>. DEFINE k == Len(h)
      <4>2. k \in Nat /\ k <= m /\ DOMAIN h = 1 .. k
        BY <3>1
      <4>. HIDE DEF h, k, m
      <4>3. \A i \in 1 .. k : m - k + i \in 1 .. m
        BY <4>1, <4>2
      <4>. QED
        BY <4>1, <4>2, <4>3 DEF k
    <3>3. \A i \in DOMAIN h : landed'[m - Len(h) + i].time <= h[i]
      BY <1>4, <3>1, <3>2
    <3>4. Len(landed') - 1 = m
      BY <1>4
    <3>. HIDE DEF m
    <3>. QED
      BY <1>2, <1>5, <2>1, <3>1, <3>3, <3>4 DEF Knows, Reflects
  <2>7. ASSUME NEW q \in Procs, q # p PROVE Knows(run[q])'
    <3>1. ~Live(run[q]) /\ ~run[q].sent
      BY <1>1, <2>2, <2>7, OthersRest
    <3>. QED
      BY <1>1, <1>5, <2>7, <3>1 DEF Knows, Live
  <2>8. \A q \in Procs : Knows(run[q])'
    BY <1>5, <2>6, <2>7
  <2>. QED
    BY <1>1, <1>2, <1>5, <2>2, <2>5, <2>8
<1>. QED
  BY <1>6, <1>7, <1>8, <1>9 DEF Solo

\* A history and the broadcast just made.
LEMMA ReflectsPushed ==
  ASSUME Inv, Cool, NEW h, Len(landed) > 0, Reflects(h, Len(landed) - 1)
  PROVE  Reflects(Pushed(h), Len(landed))
<1>. DEFINE m == Len(landed)
            g == Append(h, now)
            l == Len(h)
<1>1. /\ h \in Seq(Nat) /\ l \in Nat /\ l <= m - 1 /\ (l = m - 1 \/ l >= HistoryCap)
      /\ DOMAIN h = 1 .. l /\ m \in Nat /\ m > 0 /\ now \in Nat /\ HistoryCap \in Nat
      /\ DOMAIN landed = 1 .. m
  BY Places, NumbersAssumption DEF Reflects, Inv
<1>2. /\ g \in Seq(Nat) /\ Len(g) = l + 1 /\ DOMAIN g = 1 .. l + 1 /\ g[l + 1] = now
      /\ \A i \in DOMAIN h : g[i] = h[i]
  <2>1. h \in Seq(Nat) /\ now \in Nat
    BY <1>1
  <2>. QED
    BY <2>1
<1>3. \A i \in DOMAIN h : landed[(m - 1) - l + i].time <= h[i]
  BY DEF Reflects
<1>4. landed[m].time <= now
  <2>1. m \in Nat /\ m > 0 /\ DOMAIN landed = 1 .. m
    BY <1>1
  <2>. HIDE DEF m
  <2>2. m \in DOMAIN landed
    BY <2>1
  <2>. QED
    BY <2>2 DEF Cool
<1>. HIDE DEF m, g, l
<1>5. ASSUME NEW i \in DOMAIN g PROVE landed[m - Len(g) + i].time <= g[i]
  <2>1. CASE i \in DOMAIN h
    <3>1. m - (l + 1) + i = (m - 1) - l + i
      BY <1>1, <2>1
    <3>. QED
      BY <1>2, <1>3, <2>1, <3>1
  <2>2. CASE i = l + 1
    <3>1. m - (l + 1) + (l + 1) = m
      BY <1>1
    <3>. QED
      BY <1>2, <1>4, <2>2, <3>1
  <2>. QED
    BY <1>1, <1>2, <2>1, <2>2
<1>6. Len(g) <= m /\ (Len(g) = m \/ Len(g) >= HistoryCap)
  BY <1>1, <1>2
<1>. QED
  BY <1>2, <1>5, <1>6 DEF Reflects, Pushed, m, g

\* What the file keeps of a history.
LEMMA ReflectsSaved ==
  ASSUME NEW h, NEW m \in Nat, Reflects(h, m)
  PROVE  Reflects(Saved(h), m)
<1>1. /\ h \in Seq(Nat) /\ Len(h) \in Nat /\ HistoryCap \in Nat /\ Len(h) <= m
      /\ \A i \in DOMAIN h : landed[m - Len(h) + i].time <= h[i]
  BY NumbersAssumption DEF Reflects
<1>2. CASE Len(h) <= HistoryCap
  BY <1>1, <1>2 DEF Saved
<1>3. CASE ~(Len(h) <= HistoryCap)
  <2>. DEFINE l == Len(h)
              k == l - HistoryCap + 1
              s == SubSeq(h, k, l)
  <2>1. k \in Nat /\ k >= 1 /\ \A i \in k .. l : i \in DOMAIN h /\ h[i] \in Nat
    <3>1. k \in Nat /\ k >= 1
      BY <1>1, <1>3
    <3>2. DOMAIN h = 1 .. l /\ l \in Nat /\ \A i \in DOMAIN h : h[i] \in Nat
      BY <1>1
    <3>. HIDE DEF k, l
    <3>3. \A i \in k .. l : i \in DOMAIN h
      BY <3>1, <3>2
    <3>. QED
      BY <3>1, <3>2, <3>3
  <2>2. /\ s \in Seq(Nat) /\ Len(s) = IF k <= l THEN l - k + 1 ELSE 0
        /\ \A i \in 1 .. l - k + 1 : s[i] = h[k + i - 1]
    <3>1. k \in Int /\ l \in Int /\ \A i \in k .. l : h[i] \in Nat
      BY <1>1, <2>1
    <3>. HIDE DEF k
    <3>. QED
      BY <3>1, SubSeqProperties
  <2>3. Len(s) = HistoryCap /\ DOMAIN s = 1 .. HistoryCap
    BY <1>1, <2>1, <2>2, <1>3
  <2>4. ASSUME NEW i \in DOMAIN s PROVE landed[m - Len(s) + i].time <= s[i]
    <3>1. i \in Nat /\ i >= 1 /\ i <= HistoryCap
      BY <1>1, <2>3
    <3>2. k + i - 1 \in DOMAIN h /\ m - l + (k + i - 1) = m - HistoryCap + i
      BY <1>1, <1>3, <3>1
    <3>3. s[i] = h[k + i - 1]
      <4>1. l - k + 1 = HistoryCap
        BY <1>1
      <4>. QED
        BY <2>2, <2>3, <4>1
    <3>4. landed[m - l + (k + i - 1)].time <= h[k + i - 1]
      BY <1>1, <3>2
    <3>. HIDE DEF k, s, l
    <3>. QED
      BY <2>3, <3>2, <3>3, <3>4
  <2>5. Saved(h) = s
    BY <1>3 DEF Saved
  <2>6. Len(s) <= m /\ Len(s) >= HistoryCap
    BY <1>1, <1>3, <2>3
  <2>. HIDE DEF s, k, l
  <2>. QED
    BY <2>2, <2>4, <2>5, <2>6 DEF Reflects
<1>. QED
  BY <1>2, <1>3

\* The answer: the broadcast goes into the memory of the process and into the file.
LEMMA SendOkSolo ==
  ASSUME Inv, Cool, Solo, NEW p \in Procs, NEW saved \in BOOLEAN, SendOk(p, saved)
  PROVE  Solo'
<1>. DEFINE r == run[p]
            h == Pushed(r.hist)
            k == IF r.flavour = "runner" THEN h ELSE <<>>
            s == [r EXCEPT !.ctx.submitted = TRUE, !.endpoint = None, !.sent = FALSE,
                           !.confirmed = FALSE, !.last = None, !.count = 0, !.at = 0,
                           !.said = None, !.hist = k]
            u == NextAction(s)
<1>1. /\ RunOK(r, now, Len(landed)) /\ Shaped(r) /\ r.pc = "sending" /\ r.sent /\ Alive(p)
      /\ Len(landed) \in Nat /\ Become(p, u) /\ UNCHANGED <<now, landed, overlapped>>
      /\ ~lost' => ~lost /\ r.policy # None /\ history' = Saved(h)
  BY Known DEF SendOk, Alive
<1>2. Len(landed) > 0
  <2>1. Len(r.hist) < Len(landed) /\ Len(r.hist) \in Nat
    BY <1>1 DEF RunOK, Remembers, Ordered
  <2>. QED
    BY <1>1, <2>1
<1>3. Shaped(s) /\ s.hist = k /\ s.sent = FALSE /\ s.policy = r.policy /\ s.flavour = r.flavour
  <2>. HIDE DEF k
  <2>. QED
    BY <1>1 DEF Shaped, RunFields, CtxFields
<1>4. r.flavour = "runner" => k = h
  OBVIOUS
<1>. HIDE DEF k, s
<1>5. GoesOn(s, u)
  BY <1>3, ActionGoesOn
<1>6. /\ u.hist = k /\ u.sent = FALSE /\ u.policy = r.policy /\ u.flavour = r.flavour
      /\ u.pc \notin {"idle", "looking", "asking", "sending"}
  <2>. HIDE DEF u
  <2>. QED
    BY <1>3, <1>5 DEF GoesOn
<1>. HIDE DEF u
<1>7. \A q \in Procs : run'[q] = IF q = p THEN u ELSE run[q]
  BY <1>1 DEF Inv, Become
<1>8. InTime' /\ \A q \in Procs : Looks(run'[q])
  BY <1>1, <1>6, <1>7 DEF Solo, InTime, Looks
<1>9. ASSUME ~overlapped' PROVE Alone'
  BY <1>1, <1>7, <1>9 DEF Solo, Alone, Alive
<1>10. ASSUME ~overlapped', ~lost'
       PROVE  /\ history' # Corrupt /\ Reflects(history, Len(landed))'
              /\ \A q \in Procs : Knows(run[q])'
              /\ Kept'
  <2>1. ~overlapped /\ ~lost /\ r.policy # None /\ history' = Saved(h)
    BY <1>1, <1>10
  <2>2. Knows(r) /\ Kept /\ Alone
    BY <2>1 DEF Solo
  <2>3. Reflects(r.hist, Len(landed) - 1)
    BY <1>1, <2>1, <2>2 DEF Knows, Live
  <2>4. Reflects(h, Len(landed))
    BY <1>2, <2>3, ReflectsPushed
  <2>. HIDE DEF h
  <2>5. Reflects(Saved(h), Len(landed))
    BY <1>1, <2>4, ReflectsSaved
  <2>6. history' # Corrupt
    <3>1. history' \in Seq(Nat)
      BY <2>1, <2>5 DEF Reflects
    <3>. QED
      BY <3>1, CorruptAssumption
  <2>7. Knows(run[p])'
    BY <1>1, <1>4, <1>6, <1>7, <2>4 DEF Knows, Reflects
  <2>8. ASSUME NEW q \in Procs, q # p PROVE Knows(run[q])'
    <3>1. ~Live(run[q]) /\ ~run[q].sent
      BY <1>1, <2>2, <2>8, OthersRest
    <3>. QED
      BY <1>7, <2>8, <3>1 DEF Knows, Live
  <2>9. \A q \in Procs : Knows(run[q])'
    BY <1>7, <2>7, <2>8
  <2>10. Kept' /\ Reflects(history, Len(landed))'
    BY <1>1, <2>1, <2>2, <2>5 DEF Kept, Spaced, WithinRate, Reflects
  <2>. QED
    BY <2>6, <2>9, <2>10
<1>. QED
  BY <1>8, <1>9, <1>10 DEF Solo

LEMMA SoloStarts == Init => Solo
<1>. SUFFICES ASSUME Init PROVE Solo
  OBVIOUS
<1>1. /\ history = <<>> /\ landed = <<>> /\ run = [p \in Procs |-> Idle]
      /\ DOMAIN landed = {} /\ Len(landed) = 0 /\ landed \in Seq(Nat)
  BY DEF Init
<1>2. history # Corrupt /\ Reflects(history, Len(landed))
  <2>1. <<>> \in Seq(Nat) /\ DOMAIN <<>> = {} /\ Len(<<>>) = 0
    OBVIOUS
  <2>2. history # Corrupt
    BY <1>1, <2>1, CorruptAssumption
  <2>3. Reflects(<<>>, 0)
    BY <2>1 DEF Reflects
  <2>. QED
    BY <1>1, <2>2, <2>3
<1>3. \A p \in Procs : Looks(run[p]) /\ Knows(run[p]) /\ ~Alive(p)
  BY <1>1, IdleKnows DEF Alive, Live
<1>. QED
  BY <1>1, <1>2, <1>3 DEF Solo, InTime, Alone, Kept

LEMMA SoloStays == Inv /\ Cool /\ Solo /\ [Next]_vars => Solo'
<1>. SUFFICES ASSUME Inv, Cool, Solo, [Next]_vars PROVE Solo'
  OBVIOUS
<1>1. CASE Tick \/ UNCHANGED vars
  BY <1>1, TickSolo
<1>2. ASSUME NEW p \in Procs, NEW ok \in BOOLEAN,
             \/ RunStage(p) \/ Begin(p) \/ Gate(p) \/ Accept(p) \/ Crash(p)
             \/ Throws(p, ok) \/ Answers(p, ok) \/ SendOk(p, ok)
             \/ SendFails(p, ok)
      PROVE  Solo'
  BY <1>2, GoingsSolo, GateSolo, AcceptSolo, AnswersSolo, SendOkSolo
<1>3. ASSUME NEW p \in Procs, NEW st \in Starts, Start(p, st) PROVE Solo'
  BY <1>3, StartSolo
<1>4. ASSUME NEW p \in Procs, NEW sum, NEW ok, ToolReturns(p, sum, ok)
      PROVE  Solo'
  BY <1>4, ToolsSolo
<1>5. ASSUME NEW p \in Procs, NEW known \in BOOLEAN, NEW asked, NEW implied,
             Policy(p, known, asked, implied)
      PROVE  Solo'
  BY <1>5, PolicySolo
<1>. QED
  BY <1>1, <1>2, <1>3, <1>4, <1>5, StepsAre

\* While the runs of a user follow one another and no record of a broadcast is lost, every
\* two broadcasts are cooldownSeconds apart and no minute sees more than maxTxPerMinute of
\* them, whichever flavour of run made them: the file takes the count from one to the next.
THEOREM LimitsTheorem == Spec => []LimitsWhenAlone
<1>1. Inv /\ [Next]_vars /\ Cool => Cool'
  BY CoolStays
<1>2. Inv /\ Cool /\ [Next]_vars /\ Solo => Solo'
  BY SoloStays
<1>3. Solo => LimitsWhenAlone
  BY DEF Solo, Kept, LimitsWhenAlone
<1>. QED
  BY <1>1, <1>2, <1>3, Invariance, CoolStarts, SoloStarts, PTL DEF Spec

-----------------------------------------------------------------------------
(* The fail-over.                                                            *)

\* rpc_state.json names an endpoint, and a process that is alone uses that one.
Uses(r) == r.flavour = "runner" /\ r.endpoint # None
Stands ==
  /\ index = Corrupt \/ index \in 0 .. Len(Endpoints) - 1
  /\ ~overlapped => \A p \in Procs : Alive(p) /\ Uses(run[p]) => run[p].endpoint = Active
  /\ MovesOn

LEMMA Around ==
  ASSUME NEW n \in Nat, n > 1, NEW a \in 0 .. n - 1
  PROVE  (a + 1) % n # a /\ (a + 1) % n \in 0 .. n - 1
<1>1. \A i \in 0 .. n - 1 : i % n = i
  OBVIOUS
<1>2. n % n = 0
  OBVIOUS
<1>3. CASE a + 1 < n
  BY <1>1, <1>3
<1>4. CASE a + 1 = n
  BY <1>2, <1>4
<1>. QED
  BY <1>3, <1>4

LEMMA ActiveIs ==
  ASSUME index = Corrupt \/ index \in 0 .. Len(Endpoints) - 1
  PROVE  Active = LoadIndex /\ Active \in 0 .. Len(Endpoints) - 1
<1>1. Len(Endpoints) \in Nat /\ Len(Endpoints) > 0
  BY EndpointsAssumption
<1>2. LoadIndex \in 0 .. Len(Endpoints) - 1
  BY <1>1 DEF LoadIndex
<1>3. \A n \in Nat, i \in Nat : i < n => i % n = i
  OBVIOUS
<1>. QED
  BY <1>1, <1>2, <1>3 DEF Active

\* A step that leaves the fail-over alone.
LEMMA QuietStands ==
  ASSUME Inv, Stands, NEW p \in Procs, NEW s, Become(p, s), UNCHANGED <<index, failed>>,
         overlapped => overlapped',
         Live(s) /\ Uses(s) =>
           \/ s.endpoint = Active
           \/ Alive(p) /\ s.endpoint = run[p].endpoint /\ s.flavour = run[p].flavour
  PROVE  Stands'
<1>1. \A q \in Procs : run'[q] = IF q = p THEN s ELSE run[q]
  BY DEF Inv, Become
<1>2. Active' = Active
  BY DEF Active, LoadIndex
<1>3. ASSUME ~overlapped', NEW q \in Procs, Alive(q)', Uses(run'[q])
      PROVE  run'[q].endpoint = Active
  <2>1. ~overlapped /\ Live(run'[q])
    BY <1>3 DEF Alive, Live
  <2>. QED
    BY <1>1, <1>3, <2>1 DEF Stands, Alive, Live, Uses
<1>4. MovesOn'
  BY <1>2 DEF Stands, MovesOn
<1>. QED
  BY <1>2, <1>3, <1>4 DEF Stands, Uses

\* The process that meets the error is at the endpoint the fail-over leaves.
LEMMA FailOverStands ==
  ASSUME Inv, Solo, Stands, NEW p \in Procs, NEW e, Alive(p), Become(p, Over), FailOver(run[p], e),
         overlapped' = overlapped
  PROVE  Stands'
<1>1. \A q \in Procs : run'[q] = IF q = p THEN Over ELSE run[q]
  BY DEF Inv, Become
<1>2. Over.pc = "over"
  BY DEF Over, Idle
<1>3. ASSUME ~overlapped' PROVE \A q \in Procs : ~Alive(q)'
  BY <1>1, <1>2, <1>3 DEF Solo, Alone, Alive
<1>4. CASE UNCHANGED <<index, failed>>
  BY <1>2, <1>4, QuietStands DEF Live
<1>5. CASE index' \in {index, Corrupt} /\ failed' = None
  BY <1>3, <1>5 DEF Stands, MovesOn
<1>6. CASE index' = Rotated /\ failed' = run[p].endpoint /\ run[p].flavour = "runner" /\ Len(Endpoints) > 1
  <2>1. Active = LoadIndex /\ Active \in 0 .. Len(Endpoints) - 1 /\ Len(Endpoints) \in Nat
    BY ActiveIs, EndpointsAssumption DEF Stands
  <2>2. Rotated # Active /\ Rotated \in 0 .. Len(Endpoints) - 1
    BY <1>6, <2>1, Around DEF Rotated
  <2>3. Active' = Rotated
    <3>1. Rotated # Corrupt /\ Rotated \in Nat
      BY <2>2, CorruptAssumption
    <3>2. Active' = Rotated % Len(Endpoints)
      BY <1>6, <3>1 DEF Active, LoadIndex
    <3>3. \A n \in Nat, i \in Nat : i < n => i % n = i
      OBVIOUS
    <3>4. Rotated < Len(Endpoints)
      BY <2>1, <2>2
    <3>. HIDE DEF Rotated
    <3>. QED
      BY <2>1, <3>1, <3>2, <3>3, <3>4
  <2>4. ~overlapped /\ run[p].endpoint # None => run[p].endpoint = Active
    BY <1>6 DEF Stands, Uses
  <2>5. MovesOn'
    BY <1>6, <2>2, <2>3, <2>4 DEF MovesOn
  <2>. QED
    BY <1>3, <1>6, <2>2, <2>5 DEF Stands
<1>. QED
  BY <1>4, <1>5, <1>6 DEF FailOver

\* Where a stage or an action leads, the process keeps its endpoint.
LEMMA SameEndpoint ==
  ASSUME NEW r, Shaped(r)
  PROVE  /\ NextStage(r).endpoint = r.endpoint /\ NextStage(r).flavour = r.flavour
         /\ NextAction(r).endpoint = r.endpoint /\ NextAction(r).flavour = r.flavour
         /\ Live(Entered(r)) => Entered(r).endpoint = r.endpoint /\ Entered(r).flavour = r.flavour
<1>1. NextStage(r).endpoint = r.endpoint /\ NextStage(r).flavour = r.flavour
  BY DEF Shaped, RunFields, NextStage
<1>2. NextAction(r).endpoint = r.endpoint /\ NextAction(r).flavour = r.flavour
  BY <1>1 DEF Shaped, RunFields, NextAction
<1>3. ~Live(Over)
  BY IdleKnows
<1>4. \A c : [r EXCEPT !.pc = c].endpoint = r.endpoint /\ [r EXCEPT !.pc = c].flavour = r.flavour
  BY DEF Shaped, RunFields
<1>. QED
  BY <1>1, <1>2, <1>3, <1>4 DEF Entered

\* Who sends has asked for the endpoint.
LEMMA SendingUses ==
  ASSUME NEW r, Shaped(r)
  PROVE  Live(Sending(r)) /\ Uses(Sending(r)) => Sending(r).endpoint = Active
<1>1. ~Live(Over)
  BY IdleKnows
<1>. DEFINE s == [r EXCEPT !.pc = "sending", !.endpoint = EndpointOf(r), !.sent = FALSE]
<1>2. s.endpoint = EndpointOf(r) /\ s.flavour = r.flavour
  BY DEF Shaped, RunFields
<1>3. Sending(r) \in {s, Over}
  BY DEF Sending
<1>. HIDE DEF s
<1>. QED
  BY <1>1, <1>2, <1>3 DEF EndpointOf, Uses

LEMMA StartsStand ==
  ASSUME Inv, Stands, NEW p \in Procs, NEW st \in Starts, Start(p, st)
  PROVE  Stands'
<1>. DEFINE h == IF st.flavour = "runner" THEN LoadHistory ELSE <<>>
            s == [Idle EXCEPT !.pc = "stage", !.flavour = st.flavour, !.policy = st.policy,
                    !.approver = st.approver, !.flow = st.flow, !.sums = st.sums, !.hist = h]
<1>1. Become(p, s) /\ UNCHANGED <<index, failed>> /\ (overlapped => overlapped')
  BY DEF Start, Files
<1>2. s.endpoint = None
  <2>. HIDE DEF h
  <2>. QED
    BY DEF Idle, EmptyCtx
<1>. HIDE DEF h, s
<1>. QED
  BY <1>1, <1>2, QuietStands DEF Uses

LEMMA ToolsStand ==
  ASSUME Inv, Stands, NEW p \in Procs, NEW sum, NEW ok, ToolReturns(p, sum, ok)
  PROVE  Stands'
<1>1. PICK tool, r : Returns(p, tool, r) /\ Untouched(run[p], r)
  BY ToolsReturn
<1>. DEFINE s == [r EXCEPT !.endpoint = None]
<1>2. Shaped(s) /\ s.endpoint = None
  BY <1>1 DEF Untouched, Shaped, RunFields, CtxFields
<1>3. Become(p, NextAction(s)) /\ UNCHANGED <<index, failed, overlapped>>
  BY <1>1 DEF Returns, Files, Ghosts
<1>. HIDE DEF s
<1>4. NextAction(s).endpoint = None
  BY <1>2, SameEndpoint
<1>. QED
  BY <1>3, <1>4, QuietStands DEF Uses

LEMMA GoingsStand ==
  ASSUME Inv, Solo, Stands, NEW p \in Procs, NEW ok,
         \/ RunStage(p) \/ Begin(p) \/ Accept(p) \/ Crash(p) \/ Throws(p, ok) \/ SendFails(p, ok)
  PROVE  Stands'
<1>. DEFINE r == run[p]
<1>1. Shaped(r) /\ ~Live(Over)
  BY Known, IdleKnows
<1>2. CASE RunStage(p)
  <2>1. UNCHANGED <<index, failed, overlapped>> /\ Alive(p)
    BY <1>2 DEF RunStage, Files, Ghosts, Alive
  <2>2. PICK s : Become(p, s) /\ s \in {Over, NextStage(r), Entered(r)}
    BY <1>2 DEF RunStage
  <2>3. Live(s) => s.endpoint = r.endpoint /\ s.flavour = r.flavour
    BY <1>1, <2>2, SameEndpoint
  <2>. QED
    BY <2>1, <2>2, <2>3, QuietStands
<1>3. CASE Begin(p)
  <2>. DEFINE s == [r EXCEPT !.pc = "acting", !.endpoint = EndpointOf(r)]
  <2>1. Become(p, s) /\ UNCHANGED <<index, failed, overlapped>>
    BY <1>3 DEF Begin, Files, Ghosts
  <2>2. s.endpoint = EndpointOf(r) /\ s.flavour = r.flavour
    BY <1>1 DEF Shaped, RunFields
  <2>. HIDE DEF s
  <2>3. Uses(s) => s.endpoint = Active
    BY <2>2 DEF EndpointOf, Uses
  <2>. QED
    BY <2>1, <2>3, QuietStands
<1>4. CASE Accept(p)
  <2>. DEFINE s == [r EXCEPT !.sent = TRUE]
  <2>1. Become(p, s) /\ UNCHANGED <<index, failed, overlapped>> /\ Alive(p)
    BY <1>4 DEF Accept, Files, Alive
  <2>2. s.endpoint = r.endpoint /\ s.flavour = r.flavour
    BY <1>1 DEF Shaped, RunFields
  <2>. HIDE DEF s
  <2>. QED
    BY <2>1, <2>2, QuietStands
<1>5. CASE Crash(p)
  <2>1. Become(p, Over) /\ UNCHANGED <<index, failed, overlapped>>
    BY <1>5 DEF Crash
  <2>. QED
    BY <1>1, <2>1, QuietStands
<1>6. CASE Throws(p, ok) \/ SendFails(p, ok)
  <2>1. Become(p, Over) /\ FailOver(r, ok) /\ overlapped' = overlapped /\ Alive(p)
    BY <1>6 DEF Throws, SendFails, Alive
  <2>. QED
    BY <2>1, FailOverStands
<1>. QED
  BY <1>2, <1>3, <1>4, <1>5, <1>6

LEMMA BroadcastsStand ==
  ASSUME Inv, Stands, NEW p \in Procs, NEW ok, NEW asked, NEW implied,
         Gate(p) \/ Policy(p, ok, asked, implied) \/ Answers(p, ok) \/ SendOk(p, ok)
  PROVE  Stands'
<1>. DEFINE r == run[p]
<1>1. Shaped(r) /\ ~Live(Over)
  BY Known, IdleKnows
<1>2. UNCHANGED <<index, failed, overlapped>> /\ Alive(p)
  BY DEF Gate, Policy, Answers, SendOk, Files, Ghosts, Alive
<1>3. ASSUME NEW u, Shaped(u), Become(p, Sending(u)) PROVE Stands'
  BY <1>2, <1>3, SendingUses, QuietStands
<1>4. ASSUME NEW s, Become(p, s), s.endpoint = r.endpoint, s.flavour = r.flavour PROVE Stands'
  BY <1>2, <1>4, QuietStands
<1>5. ASSUME Become(p, Over) PROVE Stands'
  BY <1>1, <1>2, <1>5, QuietStands
<1>6. CASE Gate(p)
  <2>. DEFINE h == HistoryOf(r)
              last == IF h = <<>> THEN None ELSE Last(h)
              count == Cardinality({i \in DOMAIN h : now - h[i] < Minute})
              u == [r EXCEPT !.pc = "looking", !.hist = h, !.at = now, !.said = NetworkOf(r),
                             !.last = last, !.count = count]
              v == [r EXCEPT !.at = now]
  <2>1. Become(p, Sending(v)) \/ Become(p, u)
    BY <1>6 DEF Gate
  <2>2. Shaped(v)
    BY <1>1 DEF Shaped, RunFields, CtxFields
  <2>3. u.endpoint = r.endpoint /\ u.flavour = r.flavour
    <3>. HIDE DEF h, last, count
    <3>. QED
      BY <1>1 DEF Shaped, RunFields
  <2>. HIDE DEF u, v
  <2>. QED
    BY <1>3, <1>4, <2>1, <2>2, <2>3
<1>7. CASE Policy(p, ok, asked, implied)
  <2>. DEFINE u == [r EXCEPT !.pc = "asking"]
              v == [r EXCEPT !.confirmed = FALSE]
  <2>1. Become(p, Over) \/ Become(p, u) \/ Become(p, Sending(v))
    BY <1>7 DEF Policy, Judged
  <2>2. Shaped(v) /\ u.endpoint = r.endpoint /\ u.flavour = r.flavour
    BY <1>1 DEF Shaped, RunFields, CtxFields
  <2>. HIDE DEF u, v
  <2>. QED
    BY <1>3, <1>4, <1>5, <2>1, <2>2
<1>8. CASE Answers(p, ok)
  <2>. DEFINE v == [r EXCEPT !.confirmed = TRUE]
  <2>1. Become(p, Over) \/ Become(p, NextStage(r)) \/ Become(p, Sending(v))
    BY <1>8 DEF Answers
  <2>2. Shaped(v)
    BY <1>1 DEF Shaped, RunFields, CtxFields
  <2>3. NextStage(r).endpoint = r.endpoint /\ NextStage(r).flavour = r.flavour
    BY <1>1, SameEndpoint
  <2>. HIDE DEF v
  <2>. QED
    BY <1>3, <1>4, <1>5, <2>1, <2>2, <2>3
<1>9. CASE SendOk(p, ok)
  <2>. DEFINE k == IF r.flavour = "runner" THEN Pushed(r.hist) ELSE <<>>
              s == [r EXCEPT !.ctx.submitted = TRUE, !.endpoint = None, !.sent = FALSE,
                             !.confirmed = FALSE, !.last = None, !.count = 0, !.at = 0,
                             !.said = None, !.hist = k]
  <2>1. Become(p, NextAction(s))
    BY <1>9 DEF SendOk
  <2>2. Shaped(s) /\ s.endpoint = None
    <3>. HIDE DEF k
    <3>. QED
      BY <1>1 DEF Shaped, RunFields, CtxFields
  <2>. HIDE DEF s
  <2>3. NextAction(s).endpoint = None
    BY <2>2, SameEndpoint
  <2>. QED
    BY <1>2, <2>1, <2>3, QuietStands DEF Uses
<1>. QED
  BY <1>6, <1>7, <1>8, <1>9

LEMMA StandsStarts == Init => Stands
<1>. SUFFICES ASSUME Init PROVE Stands
  OBVIOUS
<1>1. /\ index \in 0 .. Len(Endpoints) - 1 /\ failed = None
      /\ run = [p \in Procs |-> Idle] /\ ~Live(Idle)
  BY IdleKnows DEF Init
<1>. QED
  BY <1>1 DEF Stands, MovesOn, Alive, Live

LEMMA StandsStays == Inv /\ Solo /\ Stands /\ [Next]_vars => Stands'
<1>. SUFFICES ASSUME Inv, Solo, Stands, [Next]_vars PROVE Stands'
  OBVIOUS
<1>1. ASSUME NEW p \in Procs, NEW ok \in BOOLEAN,
             \/ RunStage(p) \/ Begin(p) \/ Gate(p) \/ Accept(p) \/ Crash(p)
             \/ Throws(p, ok) \/ Answers(p, ok) \/ SendOk(p, ok)
             \/ SendFails(p, ok)
      PROVE  Stands'
  BY <1>1, GoingsStand, BroadcastsStand
<1>2. ASSUME NEW p \in Procs, NEW st \in Starts, Start(p, st) PROVE Stands'
  BY <1>2, StartsStand
<1>3. ASSUME NEW p \in Procs, NEW sum, NEW ok, ToolReturns(p, sum, ok)
      PROVE  Stands'
  BY <1>3, ToolsStand
<1>4. CASE Tick \/ UNCHANGED vars
  <2>1. UNCHANGED <<index, failed, overlapped, run>>
    BY <1>4 DEF Tick, Files, Ghosts, vars
  <2>. QED
    BY <2>1 DEF Stands, MovesOn, Active, LoadIndex, Alive, Uses
<1>5. ASSUME NEW p \in Procs, NEW known \in BOOLEAN, NEW asked, NEW implied,
             Policy(p, known, asked, implied)
      PROVE  Stands'
  BY <1>5, BroadcastsStand
<1>. QED
  BY <1>1, <1>2, <1>3, <1>4, <1>5, StepsAre

\* While the runs of a user follow one another, the endpoint that failed last is not the
\* one the next run begins with: the rotation leaves the endpoint the error came from.
THEOREM MovesOnTheorem == Spec => []MovesOn
<1>1. Inv /\ [Next]_vars /\ Cool => Cool'
  BY CoolStays
<1>2. Inv /\ Cool /\ [Next]_vars /\ Solo => Solo'
  BY SoloStays
<1>3. Inv /\ Solo /\ [Next]_vars /\ Stands => Stands'
  BY StandsStays
<1>4. Stands => MovesOn
  BY DEF Stands
<1>. QED
  BY <1>1, <1>2, <1>3, <1>4, Invariance, CoolStarts, SoloStarts, StandsStarts, PTL DEF Spec

-----------------------------------------------------------------------------
(* The network of a broadcast.                                               *)

\* The network the gate was told is that of the endpoint the process takes, as long as
\* it is alone or knows one endpoint only.
Flavoured(r) == r.flavour \in {"run", "runner"}
Alike(r) == r.policy # None /\ (r.flavour = "run" \/ ~overlapped)
Told(r) ==
  /\ r.pc \in {"looking", "asking"} => r.said = NetworkOf(r)
  /\ r.pc = "sending" => r.said = Endpoints[r.endpoint + 1]
Routed ==
  /\ \A p \in Procs : Flavoured(run[p]) /\ (Alike(run[p]) => Told(run[p]))
  /\ \A i \in DOMAIN landed :
       Flavoured(landed[i]) /\ (Alike(landed[i]) => landed[i].said = landed[i].net)

\* Nothing is told outside the broadcast.
Away(s) == Flavoured(s) /\ s.pc \notin {"looking", "asking", "sending"}

LEMMA AwayIsTold == ASSUME NEW s, Away(s) PROVE Flavoured(s) /\ Told(s)
  BY DEF Away, Told

LEMMA RestIsAway == Away(Over) /\ Away(Idle)
  BY DEF Over, Idle, Away, Flavoured

\* A step of one process that leaves the fail-over and the chain alone.
LEMMA QuietRouted ==
  ASSUME Inv, Routed, NEW p \in Procs, NEW s, Become(p, s), UNCHANGED <<index, landed>>,
         overlapped => overlapped', Flavoured(s), Alike(s) => Told(s)
  PROVE  Routed'
<1>1. \A q \in Procs : run'[q] = IF q = p THEN s ELSE run[q]
  BY DEF Inv, Become
<1>2. ASSUME NEW r, Alike(r)' PROVE Alike(r)
  BY <1>2 DEF Alike
<1>3. ASSUME NEW r, Told(r) PROVE Told(r)'
  BY <1>3 DEF Told, NetworkOf, EndpointOf, Active, LoadIndex
<1>4. ASSUME NEW q \in Procs PROVE Flavoured(run'[q]) /\ (Alike(run[q])' => Told(run[q])')
  <2>1. CASE q = p
    <3>1. run'[q] = s
      BY <1>1, <2>1
    <3>2. Alike(run[q])' => Told(run[q])'
      BY <3>1 DEF Alike, Told, NetworkOf, EndpointOf, Active, LoadIndex
    <3>. QED
      BY <3>1, <3>2
  <2>2. CASE q # p
    <3>1. run'[q] = run[q]
      BY <1>1, <2>2
    <3>2. Alike(run[q])' => Told(run[q])'
      BY <3>1 DEF Routed, Alike, Told, NetworkOf, EndpointOf, Active, LoadIndex
    <3>. QED
      BY <3>1, <3>2 DEF Routed
  <2>. QED
    BY <2>1, <2>2
<1>5. \A i \in DOMAIN landed : Alike(landed[i])' => landed[i].said = landed[i].net
  BY DEF Routed, Alike
<1>. QED
  BY <1>4, <1>5 DEF Routed, Flavoured

\* Who fails goes away, and whoever else is told something has one endpoint only.
LEMMA FailOverRouted ==
  ASSUME Inv, Solo, Routed, NEW p \in Procs, Alive(p), Become(p, Over),
         UNCHANGED <<overlapped, landed>>
  PROVE  Routed'
<1>1. \A q \in Procs : run'[q] = IF q = p THEN Over ELSE run[q]
  BY DEF Inv, Become
<1>2. ASSUME NEW q \in Procs PROVE Flavoured(run'[q]) /\ (Alike(run[q])' => Told(run[q])')
  <2>1. CASE q = p
    <3>1. run'[q] = Over
      BY <1>1, <2>1
    <3>2. Told(run[q])'
      BY <3>1, RestIsAway DEF Told, Away
    <3>. QED
      BY <3>1, <3>2, RestIsAway DEF Away
  <2>2. CASE q # p
    <3>1. run'[q] = run[q] /\ Flavoured(run[q])
      BY <1>1, <2>2 DEF Routed
    <3>2. ASSUME run[q].flavour = "run", Alike(run[q]) PROVE Told(run[q])'
      BY <3>1, <3>2 DEF Routed, Told, NetworkOf, EndpointOf
    <3>3. ASSUME ~overlapped PROVE Told(run[q])'
      <4>1. ~Alive(q)
        BY <2>2, <3>3 DEF Solo, Alone
      <4>. QED
        BY <3>1, <4>1 DEF Told, Alive
    <3>4. Alike(run[q])' => Alike(run[q])
      BY <3>1 DEF Alike
    <3>5. Alike(run[q])' => Told(run[q])'
      BY <3>1, <3>2, <3>3, <3>4 DEF Alike
    <3>. QED
      BY <3>1, <3>5
  <2>. QED
    BY <2>1, <2>2
<1>3. \A i \in DOMAIN landed : Alike(landed[i])' => landed[i].said = landed[i].net
  BY DEF Routed, Alike
<1>. QED
  BY <1>2, <1>3 DEF Routed, Flavoured

\* Who sends takes the endpoint the gate was told of.
LEMMA SendingTold ==
  ASSUME NEW r, Shaped(r), Flavoured(r), r.policy = None \/ r.said = NetworkOf(r)
  PROVE  Flavoured(Sending(r)) /\ (Alike(Sending(r)) => Told(Sending(r)))
<1>. DEFINE s == [r EXCEPT !.pc = "sending", !.endpoint = EndpointOf(r), !.sent = FALSE]
<1>1. /\ s.endpoint = EndpointOf(r) /\ s.flavour = r.flavour /\ s.policy = r.policy /\ s.said = r.said
      /\ s.pc = "sending"
  BY DEF Shaped, RunFields
<1>2. Sending(r) \in {s, Over}
  BY DEF Sending
<1>. HIDE DEF s
<1>3. Flavoured(s) /\ (Alike(s) => Told(s))
  BY <1>1 DEF Flavoured, Alike, Told, NetworkOf
<1>. QED
  BY <1>2, <1>3, RestIsAway, AwayIsTold

LEMMA StartRouted ==
  ASSUME Inv, Routed, NEW p \in Procs, NEW st \in Starts, Start(p, st)
  PROVE  Routed'
<1>. DEFINE h == IF st.flavour = "runner" THEN LoadHistory ELSE <<>>
            s == [Idle EXCEPT !.pc = "stage", !.flavour = st.flavour, !.policy = st.policy,
                    !.approver = st.approver, !.flow = st.flow, !.sums = st.sums, !.hist = h]
<1>1. Become(p, s) /\ UNCHANGED <<index, landed>> /\ (overlapped => overlapped')
  BY DEF Start, Files
<1>2. s.pc = "stage" /\ s.flavour = st.flavour
  <2>. HIDE DEF h
  <2>. QED
    BY DEF Idle, EmptyCtx
<1>. HIDE DEF h, s
<1>3. Away(s)
  BY <1>2, StartsAssumption DEF Away, Flavoured
<1>. QED
  BY <1>1, <1>3, QuietRouted, AwayIsTold

\* Where a stage or an action leads is away from the gate.
LEMMA GoesAway ==
  ASSUME NEW r, Shaped(r), Flavoured(r)
  PROVE  Away(NextStage(r)) /\ Away(NextAction(r)) /\ Away(Entered(r))
<1>1. Away(NextStage(r))
  BY StageGoesOn DEF GoesOn, Away, Flavoured
<1>2. Away(NextAction(r))
  BY ActionGoesOn DEF GoesOn, Away, Flavoured
<1>3. Away([r EXCEPT !.pc = "approving"]) /\ Away([r EXCEPT !.pc = "ready"])
  BY DEF Shaped, RunFields, Away, Flavoured
<1>. QED
  BY <1>1, <1>2, <1>3, RestIsAway DEF Entered

LEMMA ToolsRouted ==
  ASSUME Inv, Routed, NEW p \in Procs, NEW sum, NEW ok, ToolReturns(p, sum, ok)
  PROVE  Routed'
<1>1. PICK tool, r : Returns(p, tool, r) /\ Untouched(run[p], r)
  BY ToolsReturn
<1>. DEFINE s == [r EXCEPT !.endpoint = None]
<1>2. Shaped(s) /\ s.flavour = run[p].flavour
  BY <1>1 DEF Untouched, Shaped, RunFields, CtxFields
<1>3. Become(p, NextAction(s)) /\ UNCHANGED <<index, landed, overlapped>>
  BY <1>1 DEF Returns, Files, Ghosts
<1>. HIDE DEF s
<1>4. Away(NextAction(s))
  BY <1>2, GoesAway DEF Routed, Flavoured
<1>. QED
  BY <1>3, <1>4, QuietRouted, AwayIsTold

LEMMA GoingsRouted ==
  ASSUME Inv, Solo, Routed, NEW p \in Procs, NEW ok,
         RunStage(p) \/ Begin(p) \/ Crash(p) \/ Throws(p, ok) \/ SendFails(p, ok)
  PROVE  Routed'
<1>. DEFINE r == run[p]
<1>1. Shaped(r) /\ Flavoured(r)
  BY Known DEF Routed
<1>2. CASE RunStage(p)
  <2>1. UNCHANGED <<index, landed, overlapped>>
    BY <1>2 DEF RunStage, Files, Ghosts
  <2>2. PICK s : Become(p, s) /\ s \in {Over, NextStage(r), Entered(r)}
    BY <1>2 DEF RunStage
  <2>3. Away(s)
    BY <1>1, <2>2, GoesAway, RestIsAway
  <2>. QED
    BY <2>1, <2>2, <2>3, QuietRouted, AwayIsTold
<1>3. CASE Begin(p)
  <2>. DEFINE s == [r EXCEPT !.pc = "acting", !.endpoint = EndpointOf(r)]
  <2>1. Become(p, s) /\ UNCHANGED <<index, landed, overlapped>>
    BY <1>3 DEF Begin, Files, Ghosts
  <2>2. Away(s)
    BY <1>1 DEF Shaped, RunFields, Away, Flavoured
  <2>. HIDE DEF s
  <2>. QED
    BY <2>1, <2>2, QuietRouted, AwayIsTold
<1>4. CASE Crash(p)
  <2>1. Become(p, Over) /\ UNCHANGED <<index, landed, overlapped>>
    BY <1>4 DEF Crash
  <2>. QED
    BY <2>1, RestIsAway, QuietRouted, AwayIsTold
<1>5. CASE Throws(p, ok) \/ SendFails(p, ok)
  <2>1. Become(p, Over) /\ UNCHANGED <<overlapped, landed>> /\ Alive(p)
    BY <1>5 DEF Throws, SendFails, Alive
  <2>. QED
    BY <2>1, FailOverRouted
<1>. QED
  BY <1>2, <1>3, <1>4, <1>5

\* Between the gate and the send the process is told nothing new.
LEMMA GatesRouted ==
  ASSUME Inv, Routed, NEW p \in Procs, NEW ok, NEW asked, NEW implied,
         Gate(p) \/ Policy(p, ok, asked, implied) \/ Answers(p, ok) \/ SendOk(p, ok)
  PROVE  Routed'
<1>. DEFINE r == run[p]
<1>1. Shaped(r) /\ Flavoured(r) /\ (Alike(r) => Told(r))
  BY Known DEF Routed
<1>2. UNCHANGED <<index, landed, overlapped>>
  BY DEF Gate, Policy, Answers, SendOk, Files, Ghosts
<1>3. ASSUME NEW s, Become(p, s), Flavoured(s), Alike(s) => Told(s) PROVE Routed'
  BY <1>2, <1>3, QuietRouted
<1>4. ASSUME NEW s, Become(p, s), Away(s) PROVE Routed'
  BY <1>3, <1>4, AwayIsTold
<1>5. CASE Gate(p)
  <2>. DEFINE h == HistoryOf(r)
              last == IF h = <<>> THEN None ELSE Last(h)
              count == Cardinality({i \in DOMAIN h : now - h[i] < Minute})
              u == [r EXCEPT !.pc = "looking", !.hist = h, !.at = now, !.said = NetworkOf(r),
                             !.last = last, !.count = count]
              v == [r EXCEPT !.at = now]
  <2>1. (r.policy = None /\ Become(p, Sending(v))) \/ Become(p, u)
    BY <1>5 DEF Gate
  <2>2. Shaped(v) /\ v.flavour = r.flavour /\ v.policy = r.policy
    BY <1>1 DEF Shaped, RunFields, CtxFields
  <2>3. u.said = NetworkOf(r) /\ u.flavour = r.flavour /\ u.pc = "looking"
    <3>. HIDE DEF h, last, count
    <3>. QED
      BY <1>1 DEF Shaped, RunFields
  <2>. HIDE DEF u, v
  <2>4. Flavoured(u) /\ Told(u)
    BY <1>1, <2>3 DEF Flavoured, Told, NetworkOf, EndpointOf
  <2>5. r.policy = None => Flavoured(Sending(v)) /\ (Alike(Sending(v)) => Told(Sending(v)))
    <3>1. Flavoured(v)
      BY <1>1, <2>2 DEF Flavoured
    <3>. QED
      BY <2>2, <3>1, SendingTold
  <2>. QED
    BY <1>3, <2>1, <2>4, <2>5
<1>6. ASSUME NEW v, Shaped(v), v.flavour = r.flavour, v.policy = r.policy, v.said = r.said,
             r.pc \in {"looking", "asking"}, Become(p, Sending(v))
      PROVE  Routed'
  <2>1. CASE Alike(r)
    <3>1. v.said = NetworkOf(v) /\ Flavoured(v)
      BY <1>1, <1>6, <2>1 DEF Told, NetworkOf, EndpointOf, Flavoured
    <3>. QED
      BY <1>3, <1>6, <3>1, SendingTold
  <2>2. CASE ~Alike(r)
    <3>. DEFINE s == [v EXCEPT !.pc = "sending", !.endpoint = EndpointOf(v), !.sent = FALSE]
    <3>1. Sending(v) \in {s, Over}
      BY DEF Sending
    <3>2. s.flavour = v.flavour /\ s.policy = v.policy
      BY <1>6 DEF Shaped, RunFields
    <3>. HIDE DEF s
    <3>3. Flavoured(s) /\ ~Alike(s)
      BY <1>1, <1>6, <2>2, <3>2 DEF Flavoured, Alike
    <3>4. Sending(v) = s \/ Sending(v) = Over
      BY <3>1
    <3>. QED
      BY <1>3, <1>4, <1>6, <3>3, <3>4, RestIsAway
  <2>. QED
    BY <2>1, <2>2
<1>7. CASE Policy(p, ok, asked, implied)
  <2>. DEFINE u == [r EXCEPT !.pc = "asking"]
              v == [r EXCEPT !.confirmed = FALSE]
  <2>1. r.pc = "looking" /\ (Become(p, Over) \/ Become(p, u) \/ Become(p, Sending(v)))
    BY <1>7 DEF Policy, Judged
  <2>2. Shaped(v) /\ v.flavour = r.flavour /\ v.policy = r.policy /\ v.said = r.said
    BY <1>1 DEF Shaped, RunFields, CtxFields
  <2>3. u.flavour = r.flavour /\ u.policy = r.policy /\ u.said = r.said /\ u.pc = "asking"
    BY <1>1 DEF Shaped, RunFields
  <2>. HIDE DEF u, v
  <2>4. Flavoured(u) /\ (Alike(u) => Told(u))
    BY <1>1, <2>1, <2>3 DEF Flavoured, Alike, Told, NetworkOf, EndpointOf
  <2>. QED
    BY <1>3, <1>4, <1>6, <2>1, <2>2, <2>4, RestIsAway
<1>8. CASE Answers(p, ok)
  <2>. DEFINE v == [r EXCEPT !.confirmed = TRUE]
  <2>1. \/ Become(p, Over) \/ Become(p, NextStage(r))
        \/ r.pc = "asking" /\ Become(p, Sending(v))
    BY <1>8 DEF Answers
  <2>2. Shaped(v) /\ v.flavour = r.flavour /\ v.policy = r.policy /\ v.said = r.said
    BY <1>1 DEF Shaped, RunFields, CtxFields
  <2>3. Away(NextStage(r))
    BY <1>1, GoesAway
  <2>. HIDE DEF v
  <2>. QED
    BY <1>4, <1>6, <2>1, <2>2, <2>3, RestIsAway
<1>9. CASE SendOk(p, ok)
  <2>. DEFINE k == IF r.flavour = "runner" THEN Pushed(r.hist) ELSE <<>>
              s == [r EXCEPT !.ctx.submitted = TRUE, !.endpoint = None, !.sent = FALSE,
                             !.confirmed = FALSE, !.last = None, !.count = 0, !.at = 0,
                             !.said = None, !.hist = k]
  <2>1. Become(p, NextAction(s))
    BY <1>9 DEF SendOk
  <2>2. Shaped(s) /\ s.flavour = r.flavour
    <3>. HIDE DEF k
    <3>. QED
      BY <1>1 DEF Shaped, RunFields, CtxFields
  <2>. HIDE DEF s
  <2>3. Away(NextAction(s))
    BY <1>1, <2>2, GoesAway DEF Flavoured
  <2>. QED
    BY <1>4, <2>1, <2>3
<1>. QED
  BY <1>5, <1>7, <1>8, <1>9

LEMMA AcceptRouted ==
  ASSUME Inv, Routed, NEW p \in Procs, Accept(p)
  PROVE  Routed'
<1>. DEFINE b == Broadcast(p)
            s == [run[p] EXCEPT !.sent = TRUE]
<1>1. /\ run[p].pc = "sending" /\ landed' = Append(landed, b) /\ Become(p, s)
      /\ UNCHANGED <<index, overlapped>>
      /\ Shaped(run[p]) /\ Flavoured(run[p]) /\ (Alike(run[p]) => Told(run[p]))
  BY Known DEF Accept, Files, Routed
<1>2. /\ s.flavour = run[p].flavour /\ s.policy = run[p].policy /\ s.said = run[p].said
      /\ s.endpoint = run[p].endpoint /\ s.pc = "sending"
  BY <1>1 DEF Shaped, RunFields
<1>3. /\ b.flavour = run[p].flavour /\ b.policy = run[p].policy /\ b.said = run[p].said
      /\ b.net = Endpoints[run[p].endpoint + 1]
  BY DEF Broadcast
<1>. HIDE DEF b, s
<1>4. /\ Len(landed) \in Nat
      /\ DOMAIN landed = 1 .. Len(landed) /\ DOMAIN landed' = 1 .. Len(landed) + 1
      /\ \A i \in DOMAIN landed : landed'[i] = landed[i]
      /\ landed'[Len(landed) + 1] = b
  BY <1>1, Appended
<1>5. Flavoured(s) /\ (Alike(s) => Told(s))
  BY <1>1, <1>2 DEF Flavoured, Alike, Told
<1>6. Flavoured(b) /\ (Alike(b) => b.said = b.net)
  BY <1>1, <1>3 DEF Flavoured, Alike, Told
<1>7. ASSUME NEW q \in Procs PROVE Flavoured(run'[q]) /\ (Alike(run[q])' => Told(run[q])')
  <2>1. run'[q] = IF q = p THEN s ELSE run[q]
    BY <1>1 DEF Inv, Become
  <2>2. CASE q = p
    <3>1. run'[q] = s
      BY <2>1, <2>2
    <3>. QED
      BY <1>1, <1>5, <3>1 DEF Alike, Told, NetworkOf, EndpointOf, Active, LoadIndex
  <2>3. CASE q # p
    <3>1. run'[q] = run[q] /\ Flavoured(run[q]) /\ (Alike(run[q]) => Told(run[q]))
      BY <2>1, <2>3 DEF Routed
    <3>. QED
      BY <1>1, <3>1 DEF Alike, Told, NetworkOf, EndpointOf, Active, LoadIndex
  <2>. QED
    BY <2>2, <2>3
<1>8. ASSUME NEW i \in DOMAIN landed'
      PROVE  Flavoured(landed'[i]) /\ (Alike(landed[i])' => landed'[i].said = landed'[i].net)
  <2>1. i \in DOMAIN landed \/ i = Len(landed) + 1
    BY <1>4
  <2>2. CASE i \in DOMAIN landed
    <3>1. landed'[i] = landed[i] /\ Flavoured(landed[i]) /\ (Alike(landed[i]) => landed[i].said = landed[i].net)
      BY <1>4, <2>2 DEF Routed
    <3>. QED
      BY <1>1, <3>1 DEF Alike
  <2>3. CASE i = Len(landed) + 1
    <3>1. landed'[i] = b
      BY <1>4, <2>3
    <3>. QED
      BY <1>1, <1>6, <3>1 DEF Alike
  <2>. QED
    BY <2>1, <2>2, <2>3
<1>. QED
  BY <1>7, <1>8 DEF Routed, Flavoured

LEMMA RoutedStarts == Init => Routed
<1>. SUFFICES ASSUME Init PROVE Routed
  OBVIOUS
<1>1. run = [p \in Procs |-> Idle] /\ DOMAIN landed = {}
  BY DEF Init
<1>. QED
  BY <1>1, RestIsAway, AwayIsTold DEF Routed

LEMMA RoutedStays == Inv /\ Solo /\ Routed /\ [Next]_vars => Routed'
<1>. SUFFICES ASSUME Inv, Solo, Routed, [Next]_vars PROVE Routed'
  OBVIOUS
<1>1. ASSUME NEW p \in Procs, NEW ok \in BOOLEAN,
             \/ RunStage(p) \/ Begin(p) \/ Gate(p) \/ Accept(p) \/ Crash(p)
             \/ Throws(p, ok) \/ Answers(p, ok) \/ SendOk(p, ok) \/ SendFails(p, ok)
      PROVE  Routed'
  BY <1>1, GoingsRouted, GatesRouted, AcceptRouted
<1>2. ASSUME NEW p \in Procs, NEW st \in Starts, Start(p, st) PROVE Routed'
  BY <1>2, StartRouted
<1>3. ASSUME NEW p \in Procs, NEW sum, NEW ok, ToolReturns(p, sum, ok) PROVE Routed'
  BY <1>3, ToolsRouted
<1>4. ASSUME NEW p \in Procs, NEW known \in BOOLEAN, NEW asked, NEW implied,
             Policy(p, known, asked, implied)
      PROVE  Routed'
  BY <1>4, GatesRouted
<1>5. CASE Tick \/ UNCHANGED vars
  <2>1. UNCHANGED <<index, overlapped, landed, run>>
    BY <1>5 DEF Tick, Files, Ghosts, vars
  <2>. QED
    BY <2>1 DEF Routed, Alike, Told, NetworkOf, EndpointOf, Active, LoadIndex
<1>. QED
  BY <1>1, <1>2, <1>3, <1>4, <1>5, StepsAre

\* What a workflow simulates before it sends it, and what the policy demands a simulation
\* of by the network it goes to, was simulated with success (the gates of runner.ts and
\* run.ts).  The fail-over may move on between the gate and the send only while another
\* process is alive; then it is the network the gate was told that counts.
THEOREM SimulationTheorem == Spec => []SimulatedIfFresh
<1>1. Inv /\ [Next]_vars /\ Cool => Cool'
  BY CoolStays
<1>2. Inv /\ Cool /\ [Next]_vars /\ Solo => Solo'
  BY SoloStays
<1>3. Inv /\ Solo /\ [Next]_vars /\ Routed => Routed'
  BY RoutedStays
<1>4. Inv /\ Routed => SimulatedIfFresh
  <2>. SUFFICES ASSUME Inv, Routed, NEW i \in DOMAIN landed, NeedsSimulation(landed[i]),
                       landed[i].fresh,
                       overlapped /\ landed[i].flavour = "runner" => landed[i].said = landed[i].net
                PROVE  landed[i].simulated
    BY DEF SimulatedIfFresh
  <2>1. landed[i].said = landed[i].net
    BY DEF Routed, Alike, Flavoured, NeedsSimulation
  <2>. QED
    BY <2>1 DEF Inv, Fine, NeedsSimulation
<1>. QED
  BY <1>1, <1>2, <1>3, <1>4, Invariance, CoolStarts, SoloStarts, RoutedStarts, PTL DEF Spec
==============================================================================
