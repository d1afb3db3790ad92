--------------------------- MODULE MonitorProofs ---------------------------
(* Proofs about Monitor: for any number of pools, requests and timers, in   *)
(* whatever order refreshes begin, are served, fail and end, the history of *)
(* a pool is in the order of time, spaced, and no longer than it may be; and *)
(* while no two refreshes overlap, the fees told of a pool whose numbers are *)
(* there are those it earned in the window.                                  *)
EXTENDS Monitor, SequenceTheorems, WellFoundedInduction, TLAPS

Snaps == [ts : Nat, fee : Nat]
Callers == Viewers \cup Timers

Sorted(h) == \A i, j \in DOMAIN h : i < j => h[j].ts - h[i].ts >= Apart
Recent(h, now) == \A i \in DOMAIN h : h[i].ts <= now /\ h[Len(h)].ts - h[i].ts <= Keep
Good(h, now) == h \in Seq(Snaps) /\ Sorted(h) /\ Recent(h, now)

\* A refresh carries a clock reading of the past, and a page of fees.
Carries(f) ==
  /\ refresh[f].now \in Nat /\ refresh[f].now <= clock
  /\ refresh[f].pc = "arriving" => \A a \in DOMAIN refresh[f].page : refresh[f].page[a] \in Nat \cup {NaN}

\* The inductive invariant.
Inv ==
  /\ clock \in Nat /\ earned \in [Addresses -> Nat]
  /\ DOMAIN refresh = Callers /\ \A f \in Callers : Carries(f)
  /\ DOMAIN hist = Addresses /\ \A a \in Addresses : Good(hist[a], clock)

------------------------------------------------------------------------------
(* The sequences of snapshots.                                              *)

LEMMA Times ==
  ASSUME NEW h \in Seq(Snaps), NEW i \in DOMAIN h
  PROVE  i \in Nat /\ i >= 1 /\ i <= Len(h) /\ h[i].ts \in Nat
<1>1. h[i] \in Snaps /\ i \in 1 .. Len(h) /\ Len(h) \in Nat
  OBVIOUS
<1>. QED BY <1>1 DEF Snaps

LEMMA Least ==
  ASSUME NEW S \in SUBSET Nat, S # {}
  PROVE  \E i \in S : \A j \in S : i <= j
<1>1. PICK i \in S : \A j \in S : ~ (<<j, i>> \in OpToRel(<, Nat))
  BY NatLessThanWellFounded, WFMin
<1>2. ASSUME NEW j \in S PROVE i <= j
  <2>1. i \in Nat /\ j \in Nat
    OBVIOUS
  <2>2. ~ (j < i)
    BY <1>1, <2>1 DEF OpToRel
  <2>. QED BY <2>1, <2>2
<1>. QED BY <1>2

LEMMA FirstSinceFound ==
  ASSUME NEW h \in Seq(Snaps), NEW moment \in Int, NEW k \in DOMAIN h, h[k].ts >= moment
  PROVE  FirstSince(h, moment) \in DOMAIN h /\ h[FirstSince(h, moment)].ts >= moment
<1>. DEFINE since == {i \in DOMAIN h : h[i].ts >= moment}
<1>1. since \in SUBSET Nat /\ since # {}
  OBVIOUS
<1>2. \E i \in since : \A j \in since : i <= j
  BY <1>1, Least
<1>3. (CHOOSE i \in since : \A j \in since : i <= j) \in since
  BY <1>2
<1>. QED BY <1>1, <1>3 DEF FirstSince

\* What is cut off at the front leaves a good history, when the rest is recent.
LEMMA CutKeeps ==
  ASSUME NEW h \in Seq(Snaps), NEW now \in Nat, NEW m \in DOMAIN h,
         Sorted(h), \A i \in DOMAIN h : h[i].ts <= now, now - h[m].ts <= Keep
  PROVE  Good(SubSeq(h, m, Len(h)), now)
<1>. DEFINE s == SubSeq(h, m, Len(h))
<1>0. Apart \in Nat /\ Keep \in Nat
  BY MonitorAssumption
<1>1. s \in Seq(Snaps) /\ Len(s) = Len(h) - m + 1 /\ \A i \in 1 .. Len(h) - m + 1 : s[i] = h[m + i - 1]
  BY SubSeqProperties
<1>2. \A i \in DOMAIN s : m + i - 1 \in DOMAIN h /\ s[i] = h[m + i - 1] /\ h[m + i - 1].ts \in Nat
  <2>. SUFFICES ASSUME NEW i \in 1 .. Len(h) - m + 1
                PROVE  m + i - 1 \in DOMAIN h /\ s[i] = h[m + i - 1] /\ h[m + i - 1].ts \in Nat
    BY <1>1
  <2>1. m + i - 1 \in DOMAIN h
    OBVIOUS
  <2>. QED BY <1>1, <2>1, Times
<1>a. s = SubSeq(h, m, Len(h))
  OBVIOUS
<1>b. Len(s) \in Nat /\ Len(s) >= 1 /\ m + Len(s) - 1 = Len(h)
  <2>1. m \in Nat /\ m >= 1 /\ m <= Len(h) /\ Len(h) \in Nat
    BY Times
  <2>2. Len(s) = Len(h) - m + 1
    BY <1>1
  <2>3. Len(h) - m + 1 \in Nat /\ Len(h) - m + 1 >= 1 /\ m + (Len(h) - m + 1) - 1 = Len(h)
    BY <2>1
  <2>. QED BY ONLY <2>2, <2>3
<1>. HIDE DEF s
<1>3. Sorted(s)
  <2>. SUFFICES ASSUME NEW i \in DOMAIN s, NEW j \in DOMAIN s, i < j PROVE s[j].ts - s[i].ts >= Apart
    BY DEF Sorted
  <2>1. i \in Nat /\ j \in Nat /\ m \in Nat
    BY <1>1
  <2>2. m + i - 1 \in DOMAIN h /\ m + j - 1 \in DOMAIN h /\ m + i - 1 < m + j - 1
    BY <1>2, <2>1
  <2>. QED BY <1>2, <2>2 DEF Sorted
<1>4. Recent(s, now)
  <2>. SUFFICES ASSUME NEW i \in DOMAIN s PROVE s[i].ts <= now /\ s[Len(s)].ts - s[i].ts <= Keep
    BY DEF Recent
  <2>1. s[i] = h[m + i - 1] /\ m + i - 1 \in DOMAIN h /\ s[Len(s)] = h[Len(h)] /\ Len(h) \in DOMAIN h
    <3>1. Len(s) \in DOMAIN s /\ m + Len(s) - 1 = Len(h) /\ i \in Nat /\ m \in Nat
      <4>1. m \in Nat /\ m >= 1 /\ m <= Len(h) /\ Len(h) \in Nat
        BY Times
      <4>3. i \in Nat /\ Len(s) \in DOMAIN s
        BY <1>b, <1>1
      <4>. QED BY <4>1, <1>b, <4>3
    <3>. QED BY <3>1, <1>2
  <2>3. h[Len(h)].ts <= now /\ h[Len(h)].ts \in Nat /\ h[m].ts \in Nat /\ h[m + i - 1].ts \in Nat
    BY <2>1, Times
  <2>2. h[m + i - 1].ts >= h[m].ts
    <3>1. i \in Nat /\ i >= 1 /\ m \in Nat
      BY <1>1
    <3>2. CASE i = 1
      BY <2>3, <3>1, <3>2
    <3>3. CASE i > 1
      <4>1. m < m + i - 1
        BY <3>1, <3>3
      <4>2. h[m + i - 1].ts - h[m].ts >= Apart
        BY <4>1, <2>1 DEF Sorted
      <4>. QED BY <1>0, <2>3, <4>2
    <3>. QED BY <3>1, <3>2, <3>3
  <2>. QED BY <1>0, <2>1, <2>2, <2>3
<1>. QED BY <1>1, <1>a, <1>3, <1>4 DEF Good

\* A history that is good stays so while the clock goes on.
LEMMA LaterGood ==
  ASSUME NEW h, NEW now \in Nat, NEW later \in Nat, now <= later, Good(h, now)
  PROVE  Good(h, later)
<1>1. \A i \in DOMAIN h : h[i].ts \in Nat
  BY Times DEF Good
<1>. QED BY <1>1 DEF Good, Recent

\* A refresh keeps a history good, whenever it began.
LEMMA ExtendedKeeps ==
  ASSUME NEW h, NEW at \in Nat, NEW now \in Nat, at <= now, NEW fee \in Nat, Good(h, now)
  PROVE  Good(Extended(h, at, fee), now)
<1>. DEFINE snap == [ts |-> at, fee |-> fee]
            longer == Append(h, snap)
            m == FirstSince(longer, at - Keep)
<1>0. Apart \in Nat /\ Keep \in Nat /\ h \in Seq(Snaps) /\ snap \in Snaps
  BY MonitorAssumption DEF Good, Snaps
<1>1. CASE TooSoon(h, at)
  BY <1>1 DEF Extended
<1>2. CASE ~TooSoon(h, at)
  <2>1. /\ longer \in Seq(Snaps) /\ Len(longer) = Len(h) + 1
        /\ longer[Len(h) + 1] = snap /\ \A i \in DOMAIN h : longer[i] = h[i] /\ h[i].ts \in Nat
    BY <1>0, Times
  <2>2. \A i \in DOMAIN h : at - h[i].ts >= Apart
    <3>. SUFFICES ASSUME NEW i \in DOMAIN h PROVE at - h[i].ts >= Apart
      OBVIOUS
    <3>1. h # <<>> /\ Len(h) \in DOMAIN h /\ h[i].ts \in Nat /\ h[Len(h)].ts \in Nat /\ i <= Len(h)
      BY <1>0, <2>1
    <3>2. at - h[Len(h)].ts >= Apart
      BY <1>0, <1>2, <3>1 DEF TooSoon
    <3>3. h[Len(h)].ts >= h[i].ts
      BY <1>0, <3>1 DEF Good, Sorted
    <3>. QED BY <1>0, <3>1, <3>2, <3>3
  <2>3. Sorted(longer)
    <3>. SUFFICES ASSUME NEW i \in DOMAIN longer, NEW j \in DOMAIN longer, i < j
                  PROVE  longer[j].ts - longer[i].ts >= Apart
      BY DEF Sorted
    <3>1. CASE j = Len(h) + 1
      <4>1. i \in DOMAIN h
        BY <3>1, <1>0, <2>1
      <4>. QED BY <3>1, <4>1, <2>1, <2>2
    <3>2. CASE j # Len(h) + 1
      <4>1. i \in DOMAIN h /\ j \in DOMAIN h
        BY <3>2, <1>0, <2>1
      <4>. QED BY <4>1, <2>1 DEF Good, Sorted
    <3>. QED BY <3>1, <3>2
  <2>4. \A i \in DOMAIN longer : longer[i].ts <= at
    <3>. SUFFICES ASSUME NEW i \in DOMAIN longer PROVE longer[i].ts <= at
      OBVIOUS
    <3>1. CASE i = Len(h) + 1
      BY <3>1, <2>1
    <3>2. CASE i # Len(h) + 1
      <4>1. i \in DOMAIN h
        BY <3>2, <1>0, <2>1
      <4>. QED BY <4>1, <1>0, <2>1, <2>2
    <3>. QED BY <3>1, <3>2
  <2>5. m \in DOMAIN longer /\ longer[m].ts >= at - Keep
    <3>1. Len(h) + 1 \in DOMAIN longer /\ longer[Len(h) + 1].ts >= at - Keep /\ at - Keep \in Int
      BY <1>0, <2>1
    <3>. HIDE DEF longer
    <3>. QED BY <2>1, <3>1, FirstSinceFound
  <2>6. Good(SubSeq(longer, m, Len(longer)), at)
    <3>1. longer[m].ts \in Nat
      BY <2>1, <2>5 DEF Snaps
    <3>2. at - longer[m].ts <= Keep
      BY <3>1, <2>5, <1>0
    <3>. HIDE DEF longer, m
    <3>. QED BY <2>1, <2>3, <2>4, <2>5, <3>2, CutKeeps
  <2>7. Extended(h, at, fee) = SubSeq(longer, m, Len(longer))
    BY <1>2 DEF Extended
  <2>. HIDE DEF longer, m
  <2>. QED BY <2>6, <2>7, LaterGood
<1>. QED BY <1>1, <1>2

------------------------------------------------------------------------------
LEMMA InvStarts == MonitorInit => Inv
<1>. SUFFICES ASSUME MonitorInit PROVE Inv
  OBVIOUS
<1>1. Good(<<>>, 0)
  BY DEF Good, Sorted, Recent
<1>2. \A f \in Callers : Carries(f)
  BY DEF MonitorInit, Carries, Quiet, At, Callers
<1>. QED BY <1>1, <1>2 DEF MonitorInit, Inv, Callers

\* While the world stands still, a caller changes only what it carries itself.
LEMMA OneMoves ==
  ASSUME Inv, NEW f \in Callers, NEW r, refresh' = [refresh EXCEPT ![f] = r], clock' = clock,
         r.now \in Nat, r.now <= clock,
         r.pc = "arriving" => \A a \in DOMAIN r.page : r.page[a] \in Nat \cup {NaN}
  PROVE  DOMAIN refresh' = Callers /\ \A g \in Callers : Carries(g)'
<1>1. DOMAIN refresh' = Callers
  BY DEF Inv
<1>2. ASSUME NEW g \in Callers PROVE Carries(g)'
  <2>1. refresh'[g] = IF g = f THEN r ELSE refresh[g]
    BY DEF Inv
  <2>2. Carries(g)
    BY DEF Inv
  <2>. QED BY <2>1, <2>2 DEF Carries
<1>. QED BY <1>1, <1>2

LEMMA StandStill ==
  ASSUME Inv, UNCHANGED <<clock, earned, hist>>, DOMAIN refresh' = Callers, \A f \in Callers : Carries(f)'
  PROVE  Inv'
BY DEF Inv

LEMMA FetchKeeps ==
  ASSUME Inv, NEW f \in Callers, Fetch(f), UNCHANGED <<clock, earned, hist>>
  PROVE  Inv'
<1>1. DOMAIN refresh' = Callers /\ \A g \in Callers : Carries(g)'
  <2>. DEFINE r == At("asking", clock, <<>>)
  <2>1. r.now \in Nat /\ r.now <= clock /\ r.pc # "arriving"
    BY DEF At, Inv
  <2>2. refresh' = [refresh EXCEPT ![f] = r]
    BY DEF Fetch
  <2>. HIDE DEF r
  <2>. QED BY <2>1, <2>2, OneMoves
<1>. QED BY <1>1, StandStill

LEMMA EndedKeeps ==
  ASSUME Inv, NEW f \in Callers, NEW pc, pc # "arriving", NEW page, Ended(f, pc, page), clock' = clock
  PROVE  DOMAIN refresh' = Callers /\ \A g \in Callers : Carries(g)'
<1>. DEFINE r == IF f \in Timers THEN Quiet ELSE At(pc, IF pc = "show" THEN refresh[f].now ELSE 0, page)
<1>1. r.now \in Nat /\ r.now <= clock /\ r.pc # "arriving"
  BY DEF At, Inv, Quiet, Carries
<1>2. refresh' = [refresh EXCEPT ![f] = r]
  BY DEF Ended
<1>. HIDE DEF r
<1>. QED BY <1>1, <1>2, OneMoves

LEMMA InvKept == Inv /\ [MonitorNext]_mvars => Inv'
<1>. SUFFICES ASSUME Inv, [MonitorNext]_mvars PROVE Inv'
  OBVIOUS
<1>1. ASSUME NEW v \in Viewers, View(v) PROVE Inv'
  <2>0. v \in Callers /\ UNCHANGED <<clock, earned, hist>>
    BY <1>1 DEF View, Callers, world, cache
  <2>1. CASE Stale
    BY <1>1, <2>0, <2>1, FetchKeeps DEF View
  <2>2. CASE ~Stale
    <3>. DEFINE r == At("show", clock, <<>>)
    <3>1. r.now \in Nat /\ r.now <= clock /\ r.pc # "arriving"
      BY DEF At, Inv
    <3>2. refresh' = [refresh EXCEPT ![v] = r]
      BY <1>1, <2>2 DEF View
    <3>. HIDE DEF r
    <3>3. DOMAIN refresh' = Callers /\ \A g \in Callers : Carries(g)'
      BY <2>0, <3>1, <3>2, OneMoves
    <3>. QED BY <2>0, <3>3, StandStill
  <2>. QED BY <2>1, <2>2
<1>2. ASSUME NEW v \in Viewers, Show(v) PROVE Inv'
  <2>0. v \in Callers /\ UNCHANGED <<clock, earned, hist>>
    BY <1>2 DEF Show, Callers, world, cache
  <2>1. PICK page : Ended(v, "done", page)
    BY <1>2 DEF Show
  <2>. QED BY <2>0, <2>1, EndedKeeps, StandStill
<1>3. ASSUME NEW t \in Timers, Fire(t) PROVE Inv'
  <2>0. t \in Callers /\ UNCHANGED <<clock, earned, hist>> /\ Fetch(t)
    BY <1>3 DEF Fire, Callers, world, cache
  <2>. QED BY <2>0, FetchKeeps
<1>4. ASSUME NEW f \in Callers, Serve(f) PROVE Inv'
  <2>0. UNCHANGED <<clock, earned, hist>>
    BY <1>4 DEF Serve, world, cache
  <2>1. PICK shown, unread, left \in SUBSET Addresses :
          refresh' = [refresh EXCEPT ![f] =
                        At("arriving", refresh[f].now, [a \in shown |-> Fees(a, unread, left)])]
    BY <1>4 DEF Serve
  <2>. DEFINE r == At("arriving", refresh[f].now, [a \in shown |-> Fees(a, unread, left)])
  <2>2. r.now \in Nat /\ r.now <= clock /\ \A a \in DOMAIN r.page : r.page[a] \in Nat \cup {NaN}
    BY DEF At, Inv, Carries, Fees
  <2>3. refresh' = [refresh EXCEPT ![f] = r]
    BY <2>1
  <2>. HIDE DEF r
  <2>4. DOMAIN refresh' = Callers /\ \A g \in Callers : Carries(g)'
    BY <2>0, <2>2, <2>3, OneMoves
  <2>. QED BY <2>0, <2>4, StandStill
<1>5. ASSUME NEW f \in Callers, FetchFails(f) PROVE Inv'
  <2>0. UNCHANGED <<clock, earned, hist>> /\ Ended(f, "failed", <<>>)
    BY <1>5 DEF FetchFails, world, cache
  <2>. QED BY <2>0, EndedKeeps, StandStill
<1>6. ASSUME NEW f \in Callers, Arrive(f) PROVE Inv'
  <2>0. UNCHANGED <<clock, earned>> /\ Ended(f, "show", <<>>)
    BY <1>6 DEF Arrive, world
  <2>1. DOMAIN refresh' = Callers /\ \A g \in Callers : Carries(g)'
    BY <2>0, EndedKeeps
  <2>2. hist' = [a \in Addresses |->
          IF a \in DOMAIN refresh[f].page THEN Taken(hist[a], refresh[f].now, refresh[f].page[a]) ELSE <<>>]
    BY <1>6 DEF Arrive
  <2>3. refresh[f].now \in Nat /\ refresh[f].now <= clock /\ clock \in Nat
        /\ \A a \in DOMAIN refresh[f].page : refresh[f].page[a] \in Nat \cup {NaN}
    BY <1>6 DEF Arrive, Inv, Carries
  <2>4. ASSUME NEW a \in Addresses PROVE Good(hist'[a], clock)
    <3>1. CASE a \in DOMAIN refresh[f].page
      <4>1. Good(hist[a], clock) /\ refresh[f].page[a] \in Nat \cup {NaN}
        BY <2>3, <3>1 DEF Inv
      <4>2. refresh[f].page[a] # NaN => Good(Extended(hist[a], refresh[f].now, refresh[f].page[a]), clock)
        BY <2>3, <4>1, ExtendedKeeps
      <4>. QED BY <2>2, <3>1, <4>1, <4>2 DEF Taken
    <3>2. CASE a \notin DOMAIN refresh[f].page
      <4>1. Good(<<>>, clock)
        BY DEF Good, Sorted, Recent
      <4>. QED BY <2>2, <3>2, <4>1
    <3>. QED BY <3>1, <3>2
  <2>5. DOMAIN hist' = Addresses
    BY <2>2
  <2>. QED BY <2>0, <2>1, <2>4, <2>5 DEF Inv
<1>7. ASSUME BotAsks \/ BotAnswers PROVE Inv'
  BY <1>7 DEF BotAsks, BotAnswers, world, cache, Inv, Carries
<1>8. ASSUME NEW a \in Addresses, Earn(a) PROVE Inv'
  <2>1. UNCHANGED <<clock, hist, refresh>>
    BY <1>8 DEF Earn, cache
  <2>2. earned' \in [Addresses -> Nat]
    BY <1>8 DEF Earn, Inv
  <2>. QED BY <2>1, <2>2 DEF Inv, Carries
<1>9. ASSUME Pass PROVE Inv'
  <2>1. clock' = clock + 1 /\ UNCHANGED <<earned, hist, refresh>>
    BY <1>9 DEF Pass, cache
  <2>2. \A f \in Callers : Carries(f)'
    BY <2>1 DEF Inv, Carries
  <2>3. \A a \in Addresses : Good(hist[a], clock')
    BY <2>1, LaterGood DEF Inv
  <2>. QED BY <2>1, <2>2, <2>3 DEF Inv
<1>10. CASE UNCHANGED mvars
  BY <1>10 DEF mvars, Inv, Carries
<1>. QED BY <1>1, <1>2, <1>3, <1>4, <1>5, <1>6, <1>7, <1>8, <1>9, <1>10 DEF MonitorNext, Callers

\* For any number of pools, requests and timers, and in whatever order refreshes end,
\* a history is in the order of time, spaced, and no longer than it may be.
THEOREM HistoryTheorem == MonitorSpec => []HistoryIsSpaced
<1>1. Inv => HistoryIsSpaced
  BY DEF Inv, Good, Sorted, Recent, HistoryIsSpaced
<1>. QED BY InvStarts, InvKept, <1>1, PTL DEF MonitorSpec

------------------------------------------------------------------------------
(* The fees of a window.  What a history says of a moment is bounded by what *)
(* had been earned before and after it, and, as long as refreshes that began *)
(* at different times do not overlap, its fees grow and its stamp does.      *)

\* What each pool had earned at the beginning of each tick.
Grown ==
  /\ clock <= MaxClock /\ past \in [0 .. MaxClock -> [Addresses -> Nat]]
  /\ \A a \in Addresses : \A t \in 0 .. clock :
       /\ past[t][a] <= earned[a]
       /\ \A u \in t .. clock : past[t][a] <= past[u][a]

\* A fee was earned, and all that was earned before its moment is in it.
Honest(a, ts, fee) == fee <= earned[a] /\ past[ts][a] <= fee

\* Pages and histories say it of a pool whose fees were left out of no page; of one whose
\* numbers the last catalogue has, the history is recent.
Seen ==
  /\ \A a \in Addresses \ gaps : \A i \in DOMAIN hist[a] : Honest(a, hist[a][i].ts, hist[a][i].fee)
  /\ \A f \in Callers : refresh[f].pc = "arriving" =>
       \A a \in DOMAIN refresh[f].page :
         /\ a \in Addresses
         /\ a \notin gaps /\ refresh[f].page[a] # NaN => Honest(a, refresh[f].now, refresh[f].page[a])
  /\ stamp \in Nat /\ stamp <= clock /\ catalog \subseteq Addresses
  /\ \A a \in catalog \ silent : hist[a] # <<>> /\ hist[a][Len(hist[a])].ts + Apart > stamp

Growing(h) == \A i, j \in DOMAIN h : i < j => h[i].fee <= h[j].fee
Over(h, ts, fee) == \A i \in DOMAIN h : h[i].ts < ts => h[i].fee <= fee

Orderly ==
  /\ \A f, g \in Callers : Out(f) /\ Out(g) => refresh[f].now = refresh[g].now
  /\ \A f \in Callers : Out(f) => stamp <= refresh[f].now
  /\ \A a \in Addresses \ gaps : Growing(hist[a])
  /\ \A f \in Callers : refresh[f].pc = "arriving" =>
       \A a \in DOMAIN refresh[f].page :
         a \notin gaps /\ refresh[f].page[a] # NaN => Over(hist[a], refresh[f].now, refresh[f].page[a])
  /\ \A v \in Callers : refresh[v].pc = "show" => refresh[v].now < stamp + GoodFor

FeesInv == Grown /\ Seen /\ (~raced => Orderly)

\* What a refresh leaves of a history: snapshots it had, in their order, and possibly a last
\* one that is later than all of them; the last one is recent.
Follows(e, h, snap) ==
  /\ e # <<>> /\ e[Len(e)].ts + Apart > snap.ts
  /\ \A i \in DOMAIN e : e[i] = snap \/ \E k \in DOMAIN h : e[i] = h[k]
  /\ \A i, j \in DOMAIN e : i < j =>
       \/ \E k, l \in DOMAIN h : k < l /\ e[i] = h[k] /\ e[j] = h[l]
       \/ e[j] = snap /\ \E k \in DOMAIN h : e[i] = h[k] /\ h[k].ts < snap.ts

LEMMA ExtendedFrom ==
  ASSUME NEW h, NEW at \in Nat, NEW now \in Nat, at <= now, NEW fee \in Nat, Good(h, now)
  PROVE  Follows(Extended(h, at, fee), h, [ts |-> at, fee |-> fee])
<1>. DEFINE snap == [ts |-> at, fee |-> fee]
            longer == Append(h, snap)
            m == FirstSince(longer, at - Keep)
            e == Extended(h, at, fee)
<1>0. Apart \in Nat /\ Apart > 0 /\ Keep \in Nat /\ h \in Seq(Snaps) /\ snap \in Snaps /\ Len(h) \in Nat
  BY MonitorAssumption DEF Good, Snaps
<1>1. CASE TooSoon(h, at)
  <2>1. e = h /\ h # <<>> /\ at - h[Len(h)].ts < Apart
    BY <1>1 DEF Extended, TooSoon
  <2>2. Len(h) \in DOMAIN h /\ h[Len(h)].ts \in Nat
    <3>1. Len(h) \in DOMAIN h
      BY <1>0, <2>1
    <3>. QED
      BY <1>0, <3>1, Times
  <2>3. e[Len(e)].ts + Apart > at
    BY <1>0, <2>1, <2>2
  <2>4. snap.ts = at
    OBVIOUS
  <2>. HIDE DEF e, snap
  <2>5. Follows(e, h, snap)
    BY <2>1, <2>3, <2>4 DEF Follows
  <2>. QED
    BY <2>5 DEF e, snap
<1>2. CASE ~TooSoon(h, at)
  <2>1. /\ longer \in Seq(Snaps) /\ Len(longer) = Len(h) + 1
        /\ longer[Len(h) + 1] = snap /\ \A i \in DOMAIN h : longer[i] = h[i] /\ h[i].ts \in Nat
    BY <1>0, Times
  <2>2. \A i \in DOMAIN h : h[i].ts < at
    <3>. SUFFICES ASSUME NEW i \in DOMAIN h PROVE h[i].ts < at
      OBVIOUS
    <3>1. h # <<>> /\ Len(h) \in DOMAIN h /\ h[i].ts \in Nat /\ h[Len(h)].ts \in Nat /\ i <= Len(h)
      BY <1>0, <2>1
    <3>2. at - h[Len(h)].ts >= Apart
      BY <1>0, <1>2, <3>1 DEF TooSoon
    <3>3. h[Len(h)].ts >= h[i].ts
      BY <1>0, <3>1 DEF Good, Sorted
    <3>. QED
      BY <1>0, <3>1, <3>2, <3>3
  <2>3. m \in DOMAIN longer
    <3>1. Len(h) + 1 \in DOMAIN longer /\ longer[Len(h) + 1].ts >= at - Keep /\ at - Keep \in Int
      BY <1>0, <2>1
    <3>. HIDE DEF longer
    <3>. QED
      BY <2>1, <3>1, FirstSinceFound
  <2>4. e = SubSeq(longer, m, Len(longer))
    BY <1>2 DEF Extended
  <2>5. m \in Nat /\ m >= 1 /\ m <= Len(h) + 1
    BY <1>0, <2>1, <2>3
  <2>. HIDE DEF longer, m, e
  <2>6. Len(e) = Len(h) + 2 - m /\ \A i \in 1 .. Len(h) + 2 - m : e[i] = longer[m + i - 1]
    <3>1. \A i, j \in Nat : i >= 1 /\ i <= j /\ j = Len(longer) =>
            /\ Len(SubSeq(longer, i, j)) = j - i + 1
            /\ \A k \in 1 .. j - i + 1 : SubSeq(longer, i, j)[k] = longer[i + k - 1]
      BY <2>1, SubSeqProperties
    <3>. QED
      BY <1>0, <2>1, <2>4, <2>5, <3>1
  <2>7. DOMAIN e = 1 .. Len(h) + 2 - m
    <3>1. e \in Seq(Snaps)
      BY <2>1, <2>3, <2>4, SubSeqProperties
    <3>. QED
      BY <2>6, <3>1
  <2>8. ASSUME NEW i \in DOMAIN e
        PROVE  \/ i = Len(h) + 2 - m /\ e[i] = snap
               \/ m + i - 1 \in DOMAIN h /\ e[i] = h[m + i - 1] /\ i < Len(h) + 2 - m
    <3>1. i \in Nat /\ i >= 1 /\ i <= Len(h) + 2 - m /\ e[i] = longer[m + i - 1]
      BY <1>0, <2>5, <2>6, <2>7
    <3>2. CASE i = Len(h) + 2 - m
      <4>1. m + i - 1 = Len(h) + 1
        BY <1>0, <2>5, <3>2
      <4>. QED
        BY <2>1, <3>1, <3>2, <4>1
    <3>3. CASE i < Len(h) + 2 - m
      <4>1. m + i - 1 \in 1 .. Len(h)
        BY <1>0, <2>5, <3>1, <3>3
      <4>2. m + i - 1 \in DOMAIN h
        BY <1>0, <4>1
      <4>. QED
        BY <2>1, <3>1, <3>3, <4>2
    <3>. QED
      BY <1>0, <2>5, <3>1, <3>2, <3>3
  <2>9. e # <<>> /\ e[Len(e)].ts + Apart > at
    <3>1. Len(e) \in DOMAIN e /\ Len(e) = Len(h) + 2 - m
      BY <1>0, <2>5, <2>6, <2>7
    <3>2. e[Len(e)] = snap
      BY <1>0, <2>5, <2>8, <3>1
    <3>3. e # <<>>
      BY <3>1
    <3>. QED
      BY <1>0, <3>2, <3>3
  <2>10. ASSUME NEW i \in DOMAIN e, NEW j \in DOMAIN e, i < j
         PROVE  \/ \E k, l \in DOMAIN h : k < l /\ e[i] = h[k] /\ e[j] = h[l]
                \/ e[j] = snap /\ \E k \in DOMAIN h : e[i] = h[k] /\ h[k].ts < at
    <3>1. i \in Nat /\ j \in Nat /\ j <= Len(h) + 2 - m
      BY <1>0, <2>5, <2>7
    <3>2. m + i - 1 \in DOMAIN h /\ e[i] = h[m + i - 1]
      BY <1>0, <2>5, <2>8, <2>10, <3>1
    <3>3. m + i - 1 < m + j - 1
      BY <2>5, <2>10, <3>1
    <3>. HIDE DEF snap
    <3>. QED
      BY <2>2, <2>8, <3>2, <3>3 DEF snap
  <2>11. \A i \in DOMAIN e : e[i] = snap \/ \E k \in DOMAIN h : e[i] = h[k]
    BY <2>8
  <2>12. snap.ts = at
    OBVIOUS
  <2>. HIDE DEF snap
  <2>13. Follows(e, h, snap)
    BY <2>9, <2>10, <2>11, <2>12 DEF Follows
  <2>. QED
    BY <2>13 DEF e, snap
<1>. QED
  BY <1>1, <1>2

LEMMA FeesStart == MonitorInit => FeesInv
<1>. SUFFICES ASSUME MonitorInit PROVE FeesInv
  OBVIOUS
<1>0. MaxClock \in Nat /\ Apart \in Nat /\ GoodFor \in Nat
  BY MonitorAssumption
<1>1. Grown
  BY <1>0 DEF MonitorInit, Grown
<1>2. \A f \in Callers : refresh[f].pc = "idle"
  BY DEF MonitorInit, Callers, Quiet, At
<1>3. Seen
  BY <1>2 DEF MonitorInit, Seen
<1>4. Orderly
  BY <1>2 DEF MonitorInit, Orderly, Growing, Out
<1>. QED
  BY <1>1, <1>3, <1>4 DEF FeesInv

\* A step of one caller that leaves the world and the cache alone.
LEMMA OneTells ==
  ASSUME Inv, FeesInv, UNCHANGED <<world, cache>>, NEW f \in Callers, NEW r, refresh' = [refresh EXCEPT ![f] = r],
         ~raced' => ~raced, gaps \subseteq gaps',
         r.pc = "arriving" =>
           \A a \in DOMAIN r.page :
             /\ a \in Addresses
             /\ a \notin gaps' /\ r.page[a] # NaN =>
                  Honest(a, r.now, r.page[a]) /\ (~raced => Over(hist[a], r.now, r.page[a])),
         ~raced' /\ r.pc \in {"asking", "arriving"} =>
           stamp <= r.now /\ \A g \in Callers : Out(g) => refresh[g].now = r.now,
         ~raced' /\ r.pc = "show" => r.now < stamp + GoodFor
  PROVE  FeesInv'
<1>0. UNCHANGED <<clock, earned, past, catalog, stamp, silent, hist>>
  BY DEF world, cache
<1>1. \A g \in Callers : refresh'[g] = IF g = f THEN r ELSE refresh[g]
  BY DEF Inv
<1>2. Grown'
  BY <1>0 DEF FeesInv, Grown
<1>3. Seen'
  <2>1. \A g \in Callers : refresh'[g].pc = "arriving" =>
          \A a \in DOMAIN refresh'[g].page :
            /\ a \in Addresses
            /\ a \notin gaps' /\ refresh'[g].page[a] # NaN => Honest(a, refresh'[g].now, refresh'[g].page[a])
    BY <1>1 DEF FeesInv, Seen
  <2>. QED
    BY <1>0, <2>1 DEF FeesInv, Seen, Honest
<1>4. ASSUME ~raced' PROVE Orderly'
  <2>0. Orderly /\ ~raced
    BY <1>4 DEF FeesInv
  <2>1. \A g \in Callers : refresh'[g].pc \in {"asking", "arriving"} => stamp <= refresh'[g].now
    BY <1>1, <1>4, <2>0 DEF Orderly, Out
  <2>2. \A g, h \in Callers :
          refresh'[g].pc \in {"asking", "arriving"} /\ refresh'[h].pc \in {"asking", "arriving"}
            => refresh'[g].now = refresh'[h].now
    BY <1>1, <1>4, <2>0 DEF Orderly, Out
  <2>3. \A g \in Callers : refresh'[g].pc = "arriving" =>
          \A a \in DOMAIN refresh'[g].page :
            a \notin gaps' /\ refresh'[g].page[a] # NaN => Over(hist[a], refresh'[g].now, refresh'[g].page[a])
    BY <1>1, <2>0 DEF Orderly
  <2>4. \A v \in Callers : refresh'[v].pc = "show" => refresh'[v].now < stamp + GoodFor
    BY <1>1, <1>4, <2>0 DEF Orderly
  <2>5. \A a \in Addresses \ gaps' : Growing(hist[a])
    BY <2>0 DEF Orderly
  <2>. QED
    BY <1>0, <2>1, <2>2, <2>3, <2>4, <2>5 DEF Orderly, Out, Over, Growing
<1>. QED
  BY <1>2, <1>3, <1>4 DEF FeesInv

LEMMA FetchTells ==
  ASSUME Inv, FeesInv, UNCHANGED <<world, cache, gaps>>, NEW f \in Callers, Fetch(f)
  PROVE  FeesInv'
<1>. DEFINE r == At("asking", clock, <<>>)
<1>1. refresh' = [refresh EXCEPT ![f] = r] /\ r.pc = "asking" /\ r.now = clock
  BY DEF Fetch, At
<1>2. ~raced' => ~raced /\ \A g \in Callers : Out(g) => refresh[g].now = clock
  BY DEF Fetch, Callers
<1>3. stamp <= clock
  BY DEF FeesInv, Seen
<1>. HIDE DEF r
<1>. QED
  BY <1>1, <1>2, <1>3, OneTells

LEMMA EndedTells ==
  ASSUME Inv, FeesInv, UNCHANGED <<world, cache, raced, gaps>>, NEW f \in Callers, NEW pc \in {"failed", "done"}, NEW page,
         Ended(f, pc, page)
  PROVE  FeesInv'
<1>. DEFINE r == IF f \in Timers THEN Quiet ELSE At(pc, IF pc = "show" THEN refresh[f].now ELSE 0, page)
<1>1. refresh' = [refresh EXCEPT ![f] = r] /\ r.pc \in {"idle", "failed", "done"}
  BY DEF Ended, At, Quiet
<1>. HIDE DEF r
<1>. QED
  BY <1>1, OneTells

LEMMA ServeTells ==
  ASSUME Inv, FeesInv, NEW f \in Callers, Serve(f)
  PROVE  FeesInv'
<1>1. UNCHANGED <<world, cache, raced>> /\ refresh[f].pc = "asking"
  BY DEF Serve
<1>2. PICK shown, unread, left \in SUBSET Addresses :
        /\ refresh' = [refresh EXCEPT ![f] =
                         At("arriving", refresh[f].now, [a \in shown |-> Fees(a, unread, left)])]
        /\ gaps' = gaps \cup {a \in left : earned[a] # 0}
  <2>1. PICK shown \in SUBSET Addresses : \E unread \in SUBSET shown : \E left \in SUBSET (shown \ unread) :
          /\ refresh' = [refresh EXCEPT ![f] =
                           At("arriving", refresh[f].now, [a \in shown |-> Fees(a, unread, left)])]
          /\ gaps' = gaps \cup {a \in left : earned[a] # 0}
    BY Zenon DEF Serve
  <2>2. PICK unread \in SUBSET shown : \E left \in SUBSET (shown \ unread) :
          /\ refresh' = [refresh EXCEPT ![f] =
                           At("arriving", refresh[f].now, [a \in shown |-> Fees(a, unread, left)])]
          /\ gaps' = gaps \cup {a \in left : earned[a] # 0}
    BY <2>1
  <2>3. PICK left \in SUBSET (shown \ unread) :
          /\ refresh' = [refresh EXCEPT ![f] =
                           At("arriving", refresh[f].now, [a \in shown |-> Fees(a, unread, left)])]
          /\ gaps' = gaps \cup {a \in left : earned[a] # 0}
    BY <2>2
  <2>4. unread \in SUBSET Addresses /\ left \in SUBSET Addresses
    OBVIOUS
  <2>. QED
    BY <2>3, <2>4, Zenon
<1>. DEFINE r == At("arriving", refresh[f].now, [a \in shown |-> Fees(a, unread, left)])
<1>3. /\ r.pc = "arriving" /\ r.now = refresh[f].now /\ DOMAIN r.page = shown
      /\ \A a \in shown : a \notin gaps' /\ r.page[a] # NaN => r.page[a] = earned[a]
  BY <1>2 DEF At, Fees
<1>4. refresh' = [refresh EXCEPT ![f] = r]
  BY <1>2
<1>. HIDE DEF r
<1>5. refresh[f].now \in 0 .. clock
  BY DEF Inv, Carries
<1>6. ASSUME NEW a \in shown PROVE Honest(a, r.now, earned[a])
  <2>1. earned[a] \in Nat /\ past[r.now][a] <= earned[a]
    BY <1>3, <1>5 DEF Inv, FeesInv, Grown
  <2>. QED
    BY <2>1 DEF Honest
<1>7. ASSUME NEW a \in shown \ gaps PROVE Over(hist[a], r.now, earned[a])
  BY DEF Over, FeesInv, Seen, Honest
<1>8. ASSUME ~raced' PROVE stamp <= r.now /\ \A g \in Callers : Out(g) => refresh[g].now = r.now
  BY <1>1, <1>3, <1>8 DEF FeesInv, Orderly, Out
<1>9. gaps \subseteq gaps' /\ shown \subseteq Addresses
  BY <1>2
<1>10. ASSUME NEW a \in DOMAIN r.page
       PROVE  /\ a \in Addresses
              /\ a \notin gaps' /\ r.page[a] # NaN =>
                   Honest(a, r.now, r.page[a]) /\ Over(hist[a], r.now, r.page[a])
  BY <1>3, <1>6, <1>7, <1>9
<1>. QED
  BY <1>1, <1>3, <1>4, <1>8, <1>9, <1>10, OneTells

LEMMA ArriveTells ==
  ASSUME Inv, FeesInv, NEW f \in Callers, Arrive(f)
  PROVE  FeesInv'
<1>. DEFINE now == refresh[f].now
            page == refresh[f].page
            r == IF f \in Timers THEN Quiet ELSE At("show", refresh[f].now, <<>>)
            numbers == {a \in DOMAIN page : page[a] # NaN}
<1>1. /\ refresh[f].pc = "arriving" /\ UNCHANGED <<clock, earned, past, raced, gaps>>
      /\ catalog' = DOMAIN page /\ stamp' = now /\ silent' = {a \in DOMAIN page : page[a] = NaN}
      /\ hist' = [a \in Addresses |-> IF a \in DOMAIN page THEN Taken(hist[a], now, page[a]) ELSE <<>>]
      /\ refresh' = [refresh EXCEPT ![f] = r]
  BY DEF Arrive, Ended, world
<1>2. r.pc \in {"idle", "show"} /\ (r.pc = "show" => r.now = now)
  BY DEF At, Quiet
<1>3. now \in Nat /\ now <= clock /\ clock \in Nat
  BY DEF Inv, Carries
<1>4. \A a \in DOMAIN page :
        /\ a \in Addresses /\ page[a] \in Nat \cup {NaN}
        /\ a \notin gaps /\ a \in numbers => Honest(a, now, page[a])
  BY <1>1 DEF FeesInv, Seen, Inv, Carries
<1>5. \A g \in Callers : refresh'[g] = IF g = f THEN r ELSE refresh[g]
  BY <1>1 DEF Inv
<1>. HIDE DEF now, page, r
<1>6. ASSUME NEW a \in numbers
      PROVE  a \in DOMAIN page /\ Follows(hist'[a], hist[a], [ts |-> now, fee |-> page[a]])
  <2>1. Good(hist[a], clock) /\ a \in Addresses /\ page[a] \in Nat /\ page[a] # NaN
    BY <1>4 DEF Inv
  <2>2. hist'[a] = Extended(hist[a], now, page[a])
    BY <1>1, <2>1 DEF Taken
  <2>. QED
    BY <1>3, <2>1, <2>2, ExtendedFrom
<1>7. ASSUME NEW a \in Addresses, a \notin numbers PROVE hist'[a] = <<>> \/ hist'[a] = hist[a]
  BY <1>1, <1>7 DEF Taken
<1>a. catalog' \ silent' \subseteq numbers
  BY <1>1
<1>. HIDE DEF numbers
<1>8. Grown'
  BY <1>1 DEF FeesInv, Grown
<1>9. Seen'
  <2>1. ASSUME NEW a \in Addresses \ gaps, NEW i \in DOMAIN hist'[a]
        PROVE  Honest(a, hist'[a][i].ts, hist'[a][i].fee)
    <3>1. \A k \in DOMAIN hist[a] : Honest(a, hist[a][k].ts, hist[a][k].fee)
      BY DEF FeesInv, Seen
    <3>2. CASE a \notin numbers
      BY <1>7, <2>1, <3>1, <3>2
    <3>3. CASE a \in numbers
      <4>1. hist'[a][i] = [ts |-> now, fee |-> page[a]] \/ \E k \in DOMAIN hist[a] : hist'[a][i] = hist[a][k]
        BY <1>6, <2>1, <3>3 DEF Follows
      <4>2. Honest(a, now, page[a])
        BY <1>4, <1>6, <3>3
      <4>. QED
        BY <3>1, <4>1, <4>2
    <3>. QED
      BY <3>2, <3>3
  <2>2. \A g \in Callers : refresh'[g].pc = "arriving" =>
          \A a \in DOMAIN refresh'[g].page :
            /\ a \in Addresses
            /\ a \notin gaps /\ refresh'[g].page[a] # NaN => Honest(a, refresh'[g].now, refresh'[g].page[a])
    BY <1>2, <1>5 DEF FeesInv, Seen
  <2>3. stamp' \in Nat /\ stamp' <= clock /\ catalog' \subseteq Addresses
    BY <1>1, <1>3, <1>4
  <2>4. \A a \in catalog' \ silent' : hist'[a] # <<>> /\ hist'[a][Len(hist'[a])].ts + Apart > stamp'
    BY <1>1, <1>6, <1>a DEF Follows
  <2>5. gaps' = gaps /\ earned' = earned /\ past' = past /\ clock' = clock
    BY <1>1
  <2>. QED
    BY <2>1, <2>2, <2>3, <2>4, <2>5 DEF Seen, Honest
<1>10. ASSUME ~raced' PROVE Orderly'
  <2>1. Orderly
    BY <1>1, <1>10 DEF FeesInv
  <2>2. stamp <= now /\ \A g \in Callers : refresh[g].pc \in {"asking", "arriving"} => refresh[g].now = now
    BY <1>1, <2>1 DEF Orderly, Out, now
  <2>3. \A g \in Callers : refresh'[g].pc \in {"asking", "arriving"} =>
          g # f /\ refresh'[g] = refresh[g] /\ refresh'[g].now = now
    BY <1>2, <1>5, <2>2
  <2>4. ASSUME NEW a \in Addresses \ gaps PROVE Growing(hist'[a])
    <3>1. CASE a \notin numbers
      <4>1. Growing(hist[a]) /\ Growing(<<>>)
        BY <2>1 DEF Orderly, Growing
      <4>. QED
        BY <1>7, <3>1, <4>1
    <3>2. CASE a \in numbers
      <4>1. Growing(hist[a]) /\ Over(hist[a], now, page[a])
        BY <1>1, <2>1, <3>2 DEF Orderly, now, page, numbers
      <4>. SUFFICES ASSUME NEW i \in DOMAIN hist'[a], NEW j \in DOMAIN hist'[a], i < j
                    PROVE  hist'[a][i].fee <= hist'[a][j].fee
        BY DEF Growing
      <4>2. \/ \E k, l \in DOMAIN hist[a] : k < l /\ hist'[a][i] = hist[a][k] /\ hist'[a][j] = hist[a][l]
            \/ /\ hist'[a][j] = [ts |-> now, fee |-> page[a]]
               /\ \E k \in DOMAIN hist[a] : hist'[a][i] = hist[a][k] /\ hist[a][k].ts < now
        BY <1>6, <3>2 DEF Follows
      <4>. QED
        BY <4>1, <4>2 DEF Growing, Over
    <3>. QED
      BY <3>1, <3>2
  <2>5. ASSUME NEW g \in Callers, refresh'[g].pc = "arriving", NEW a \in DOMAIN refresh'[g].page,
               a \notin gaps, refresh'[g].page[a] # NaN
        PROVE  Over(hist'[a], refresh'[g].now, refresh'[g].page[a])
    <3>1. g # f /\ refresh'[g] = refresh[g] /\ refresh[g].now = now /\ refresh[g].pc = "arriving"
      BY <2>3, <2>5
    <3>2. Over(hist[a], now, refresh[g].page[a]) /\ a \in Addresses
      BY <2>1, <2>5, <3>1 DEF Orderly, FeesInv, Seen
    <3>3. CASE a \notin numbers
      <4>1. Over(<<>>, now, refresh[g].page[a])
        BY DEF Over
      <4>. QED
        BY <1>7, <3>1, <3>2, <3>3, <4>1
    <3>4. CASE a \in numbers
      <4>1. \A i \in DOMAIN hist'[a] : hist'[a][i] = [ts |-> now, fee |-> page[a]]
                                       \/ \E k \in DOMAIN hist[a] : hist'[a][i] = hist[a][k]
        BY <1>6, <3>4 DEF Follows
      <4>2. \A i \in DOMAIN hist'[a] : hist'[a][i].ts < now => \E k \in DOMAIN hist[a] : hist'[a][i] = hist[a][k]
        BY <1>3, <4>1
      <4>. QED
        BY <3>1, <3>2, <4>2 DEF Over
    <3>. QED
      BY <3>3, <3>4
  <2>6. ASSUME NEW v \in Callers, refresh'[v].pc = "show"
        PROVE  refresh'[v].now < stamp' + GoodFor
    <3>1. GoodFor \in Nat /\ GoodFor > 0 /\ stamp \in Nat /\ refresh[v].now \in Nat
      BY <2>6, MonitorAssumption DEF FeesInv, Seen, Inv, Carries
    <3>2. CASE v = f
      BY <1>1, <1>2, <1>3, <1>5, <2>6, <3>1, <3>2
    <3>3. CASE v # f
      <4>1. refresh'[v] = refresh[v] /\ refresh[v].now < stamp + GoodFor
        BY <1>5, <2>1, <2>6, <3>3 DEF Orderly
      <4>. QED
        BY <1>1, <1>3, <2>2, <3>1, <4>1
    <3>. QED
      BY <3>2, <3>3
  <2>7. \A g \in Callers : refresh'[g].pc \in {"asking", "arriving"} => stamp' <= refresh'[g].now
    BY <1>1, <1>3, <2>3
  <2>8. \A g, h \in Callers :
          refresh'[g].pc \in {"asking", "arriving"} /\ refresh'[h].pc \in {"asking", "arriving"}
            => refresh'[g].now = refresh'[h].now
    BY <2>3
  <2>. QED
    BY <1>1, <2>4, <2>5, <2>6, <2>7, <2>8 DEF Orderly, Out
<1>. QED
  BY <1>8, <1>9, <1>10 DEF FeesInv

LEMMA WorldTells ==
  ASSUME Inv, FeesInv, Pass \/ \E a \in Addresses : Earn(a)
  PROVE  FeesInv'
<1>0. UNCHANGED <<catalog, stamp, silent, hist, refresh, raced, gaps>>
  BY DEF Pass, Earn, cache
<1>1. /\ clock \in Nat /\ earned \in [Addresses -> Nat] /\ MaxClock \in Nat /\ clock <= MaxClock
      /\ past \in [0 .. MaxClock -> [Addresses -> Nat]]
      /\ \A a \in Addresses : \A t \in 0 .. clock :
           past[t][a] <= earned[a] /\ \A u \in t .. clock : past[t][a] <= past[u][a]
  BY MonitorAssumption DEF Inv, FeesInv, Grown
<1>2. /\ clock' \in Nat /\ clock <= clock' /\ clock' <= MaxClock /\ earned' \in [Addresses -> Nat]
      /\ \A a \in Addresses : earned[a] <= earned'[a]
      /\ past' \in [0 .. MaxClock -> [Addresses -> Nat]]
      /\ \A t \in 0 .. clock : past'[t] = past[t]
      /\ clock' = clock \/ (clock' = clock + 1 /\ past'[clock + 1] = earned /\ earned' = earned)
  <2>1. CASE Pass
    BY <1>1, <2>1 DEF Pass
  <2>2. CASE \E a \in Addresses : Earn(a)
    <3>1. PICK a \in Addresses : earned' = [earned EXCEPT ![a] = @ + 1] /\ clock' = clock /\ past' = past
      BY <2>2 DEF Earn
    <3>2. earned' \in [Addresses -> Nat]
      BY <1>1, <3>1
    <3>3. \A b \in Addresses : earned[b] <= earned'[b]
      BY <1>1, <3>1
    <3>. QED
      BY <1>1, <3>1, <3>2, <3>3
  <2>. QED
    BY <2>1, <2>2
<1>3. Grown'
  <2>1. ASSUME NEW a \in Addresses, NEW t \in 0 .. clock'
        PROVE  past'[t][a] <= earned'[a] /\ \A u \in t .. clock' : past'[t][a] <= past'[u][a]
    <3>1. CASE t \in 0 .. clock
      <4>1. past'[t][a] = past[t][a] /\ past[t][a] <= earned[a] /\ past[t][a] \in Nat
            /\ earned[a] \in Nat /\ earned'[a] \in Nat
        BY <1>1, <1>2, <3>1
      <4>2. ASSUME NEW u \in t .. clock' PROVE past'[t][a] <= past'[u][a]
        <5>1. CASE u \in 0 .. clock
          <6>1. past'[u] = past[u] /\ past'[t] = past[t]
            BY <1>1, <1>2, <3>1, <5>1
          <6>2. u \in t .. clock
            BY <1>1, <3>1, <5>1
          <6>. QED
            BY <1>1, <3>1, <6>1, <6>2
        <5>2. CASE u \notin 0 .. clock
          <6>1. u = clock + 1 /\ clock' = clock + 1
            BY <1>1, <1>2, <3>1, <5>2
          <6>. QED
            BY <1>1, <1>2, <4>1, <6>1
        <5>. QED
          BY <5>1, <5>2
      <4>. QED
        BY <1>1, <1>2, <4>1, <4>2
    <3>2. CASE t \notin 0 .. clock
      <4>1. t = clock + 1 /\ clock' = clock + 1
        BY <1>1, <1>2, <3>2
      <4>2. past'[t][a] = earned[a] /\ earned'[a] = earned[a] /\ earned[a] \in Nat
        BY <1>1, <1>2, <4>1
      <4>3. \A u \in t .. clock' : u = t
        BY <1>1, <4>1
      <4>. QED
        BY <4>2, <4>3
    <3>. QED
      BY <3>1, <3>2
  <2>. QED
    BY <1>2, <2>1 DEF Grown
<1>4. ASSUME NEW a \in Addresses, NEW ts \in 0 .. clock, NEW fee \in Nat, Honest(a, ts, fee)
      PROVE  Honest(a, ts, fee)'
  <2>1. earned[a] \in Nat /\ earned'[a] \in Nat /\ earned[a] <= earned'[a] /\ past'[ts] = past[ts]
    BY <1>1, <1>2
  <2>. QED
    BY <1>4, <2>1 DEF Honest
<1>5. Seen'
  <2>1. ASSUME NEW a \in Addresses \ gaps, NEW i \in DOMAIN hist[a]
        PROVE  Honest(a, hist[a][i].ts, hist[a][i].fee)'
    <3>1. Honest(a, hist[a][i].ts, hist[a][i].fee) /\ Good(hist[a], clock)
      BY DEF FeesInv, Seen, Inv
    <3>2. hist[a][i].ts \in 0 .. clock /\ hist[a][i].fee \in Nat
      <4>1. hist[a] \in Seq(Snaps)
        BY <3>1 DEF Good
      <4>2. hist[a][i] \in Snaps
        BY <4>1
      <4>3. hist[a][i].ts \in Nat /\ hist[a][i].fee \in Nat
        BY <4>2 DEF Snaps
      <4>4. hist[a][i].ts <= clock
        BY <3>1 DEF Good, Recent
      <4>. QED
        BY <1>1, <4>3, <4>4
    <3>3. PICK ts \in 0 .. clock, fee \in Nat : ts = hist[a][i].ts /\ fee = hist[a][i].fee
      BY <3>2
    <3>4. Honest(a, ts, fee)'
      BY <1>4, <3>1, <3>3
    <3>. QED
      BY <1>0, <3>3, <3>4 DEF Honest
  <2>2. ASSUME NEW f \in Callers, refresh[f].pc = "arriving", NEW a \in DOMAIN refresh[f].page
        PROVE  a \in Addresses /\ (a \notin gaps /\ refresh[f].page[a] # NaN =>
                                      Honest(a, refresh[f].now, refresh[f].page[a])')
    <3>0. a \in Addresses
      BY <2>2 DEF FeesInv, Seen
    <3>. SUFFICES ASSUME a \notin gaps, refresh[f].page[a] # NaN
                  PROVE  Honest(a, refresh[f].now, refresh[f].page[a])'
      BY <3>0
    <3>1. /\ a \in Addresses /\ Honest(a, refresh[f].now, refresh[f].page[a])
          /\ refresh[f].now \in 0 .. clock /\ refresh[f].page[a] \in Nat
      BY <1>1, <2>2 DEF FeesInv, Seen, Inv, Carries
    <3>3. PICK ts \in 0 .. clock, fee \in Nat : ts = refresh[f].now /\ fee = refresh[f].page[a]
      BY <3>1
    <3>4. Honest(a, ts, fee)'
      BY <1>4, <3>1, <3>3
    <3>. QED
      BY <1>0, <3>1, <3>3, <3>4 DEF Honest
  <2>3. stamp \in Nat /\ stamp <= clock' /\ catalog \subseteq Addresses
    BY <1>1, <1>2 DEF FeesInv, Seen
  <2>4. \A a \in catalog \ silent : hist[a] # <<>> /\ hist[a][Len(hist[a])].ts + Apart > stamp
    BY DEF FeesInv, Seen
  <2>. QED
    BY <1>0, <2>1, <2>2, <2>3, <2>4 DEF Seen, Honest
<1>6. ~raced' => Orderly'
  BY <1>0 DEF FeesInv, Orderly, Out, Growing, Over
<1>. QED
  BY <1>3, <1>5, <1>6 DEF FeesInv

LEMMA FeesStay == Inv /\ FeesInv /\ [MonitorNext]_mvars => FeesInv'
<1>. SUFFICES ASSUME Inv, FeesInv, [MonitorNext]_mvars PROVE FeesInv'
  OBVIOUS
<1>1. ASSUME NEW v \in Viewers, View(v) PROVE FeesInv'
  <2>0. v \in Callers /\ UNCHANGED <<world, cache, gaps>>
    BY <1>1 DEF View, Callers
  <2>1. CASE Stale
    BY <1>1, <2>0, <2>1, FetchTells DEF View
  <2>2. CASE ~Stale
    <3>. DEFINE r == At("show", clock, <<>>)
    <3>1. refresh' = [refresh EXCEPT ![v] = r] /\ raced' = raced /\ r.pc = "show" /\ r.now = clock
      BY <1>1, <2>2 DEF View, At
    <3>2. clock < stamp + GoodFor
      <4>1. ~(clock - stamp >= GoodFor)
        BY <2>2 DEF Stale
      <4>. QED
        BY <4>1, MonitorAssumption DEF Inv, FeesInv, Seen
    <3>. HIDE DEF r
    <3>. QED
      BY <2>0, <3>1, <3>2, OneTells
  <2>. QED
    BY <2>1, <2>2
<1>2. ASSUME NEW v \in Viewers, Show(v) PROVE FeesInv'
  <2>1. v \in Callers /\ UNCHANGED <<world, cache, raced, gaps>> /\ \E page : Ended(v, "done", page)
    BY <1>2 DEF Show, Callers
  <2>. QED
    BY <2>1, EndedTells
<1>3. ASSUME NEW t \in Timers, Fire(t) PROVE FeesInv'
  <2>1. t \in Callers /\ UNCHANGED <<world, cache, gaps>> /\ Fetch(t)
    BY <1>3 DEF Fire, Callers
  <2>. QED
    BY <2>1, FetchTells
<1>4. ASSUME NEW f \in Callers, FetchFails(f) PROVE FeesInv'
  <2>1. UNCHANGED <<world, cache, raced, gaps>> /\ Ended(f, "failed", <<>>)
    BY <1>4 DEF FetchFails
  <2>. QED
    BY <2>1, EndedTells
<1>5. CASE BotAsks \/ BotAnswers \/ UNCHANGED mvars
  <2>1. UNCHANGED <<clock, earned, past, catalog, stamp, silent, hist, refresh, raced, gaps>>
    BY <1>5 DEF BotAsks, BotAnswers, mvars, world, cache
  <2>2. Grown' /\ Seen'
    BY <2>1 DEF FeesInv, Grown, Seen, Honest
  <2>3. ~raced' => Orderly'
    BY <2>1 DEF FeesInv, Orderly, Out, Growing, Over
  <2>. QED
    BY <2>2, <2>3 DEF FeesInv
<1>. QED
  BY <1>1, <1>2, <1>3, <1>4, <1>5, ServeTells, ArriveTells, WorldTells DEF MonitorNext, Callers

\* The first snapshot of a window is one of the history.
LEMMA FirstSinceIsThere ==
  ASSUME NEW h \in Seq(Snaps), h # <<>>, NEW moment \in Int
  PROVE  FirstSince(h, moment) \in DOMAIN h
<1>1. CASE \E k \in DOMAIN h : h[k].ts >= moment
  BY <1>1, FirstSinceFound
<1>2. CASE ~ \E k \in DOMAIN h : h[k].ts >= moment
  <2>1. FirstSince(h, moment) = 1
    BY <1>2 DEF FirstSince
  <2>2. Len(h) \in Nat /\ Len(h) # 0 /\ DOMAIN h = 1 .. Len(h)
    OBVIOUS
  <2>. QED
    BY <2>1, <2>2
<1>. QED
  BY <1>1, <1>2

\* What a viewer tells, of a pool with two snapshots or more.
LEMMA DeltaIsOfTheWindow ==
  ASSUME Inv, FeesInv, Orderly, NEW v \in Callers, refresh[v].pc = "show",
         NEW a \in catalog \ gaps, Len(hist[a]) >= 2
  PROVE  /\ DeltaFor(hist[a], clock) >= 0
         /\ a \notin silent /\ clock - refresh[v].now <= Window - GoodFor - Apart =>
              DeltaFor(hist[a], clock) <= EarnedInWindow(a)
<1>. DEFINE h == hist[a]
            k == FirstSince(h, clock - Window)
            w == IF clock >= Window THEN clock - Window ELSE 0
<1>0. Window \in Nat /\ GoodFor \in Nat /\ Apart \in Nat
  BY MonitorAssumption
<1>1. clock \in Nat /\ clock - Window \in Int /\ clock <= MaxClock /\ a \in Addresses
  BY <1>0 DEF Inv, FeesInv, Seen, Grown
<1>2. h \in Seq(Snaps) /\ h # <<>> /\ Recent(h, clock) /\ Len(h) \in DOMAIN h /\ Len(h) \in Nat
  <2>1. Good(h, clock)
    BY <1>1 DEF Inv
  <2>. QED
    BY <2>1 DEF Good
<1>3. k \in DOMAIN h
  <2>. HIDE DEF h
  <2>. QED
    BY <1>1, <1>2, FirstSinceIsThere
<1>4. DeltaFor(h, clock) = h[Len(h)].fee - h[k].fee
  BY DEF DeltaFor
<1>5. \A i \in DOMAIN h : /\ h[i].ts \in Nat /\ h[i].fee \in Nat /\ h[i].ts <= clock
                          /\ h[i].fee <= earned[a] /\ past[h[i].ts][a] <= h[i].fee
  <2>1. \A i \in DOMAIN h : h[i].fee <= earned[a] /\ past[h[i].ts][a] <= h[i].fee
    BY <1>1 DEF FeesInv, Seen, Honest
  <2>2. \A i \in DOMAIN h : h[i].ts <= clock
    BY <1>2 DEF Recent
  <2>. HIDE DEF h
  <2>3. \A i \in DOMAIN h : h[i] \in Snaps
    BY <1>2
  <2>. QED
    BY <2>1, <2>2, <2>3 DEF Snaps
<1>6. h[k].fee <= h[Len(h)].fee
  <2>1. Growing(h)
    BY <1>1 DEF Orderly
  <2>. HIDE DEF h, k
  <2>2. k \in Nat /\ k <= Len(h)
    BY <1>2, <1>3, Times
  <2>3. k = Len(h) \/ k < Len(h)
    BY <1>2, <2>2
  <2>. QED
    BY <1>2, <1>3, <1>5, <2>1, <2>3 DEF Growing
<1>7. ASSUME a \notin silent, clock - refresh[v].now <= Window - GoodFor - Apart
      PROVE  h[Len(h)].fee - h[k].fee <= earned[a] - past[w][a]
  <2>1. /\ refresh[v].now \in Nat /\ stamp \in Nat /\ refresh[v].now < stamp + GoodFor
        /\ h[Len(h)].ts + Apart > stamp
    BY <1>7 DEF Inv, Carries, Orderly, FeesInv, Seen
  <2>2. h[Len(h)].ts >= clock - Window
    <3>. DEFINE ts == h[Len(h)].ts
    <3>1. ts \in Nat /\ ts + Apart > stamp /\ stamp \in Nat
          /\ refresh[v].now \in Nat /\ refresh[v].now < stamp + GoodFor
      <4>. HIDE DEF h
      <4>. QED
        BY <1>2, <1>5, <2>1
    <3>2. Window \in Nat /\ GoodFor \in Nat /\ Apart \in Nat /\ clock \in Nat
      BY <1>0, <1>1
    <3>. HIDE DEF ts
    <3>3. ts >= clock - Window
      BY <1>7, <3>1, <3>2
    <3>. QED
      BY <3>3 DEF ts
  <2>3. h[k].ts >= clock - Window
    <3>. HIDE DEF h
    <3>. QED
      BY <1>1, <1>2, <2>2, FirstSinceFound
  <2>4. w \in 0 .. clock /\ h[k].ts \in w .. clock
    <3>. HIDE DEF h, k
    <3>. QED
      BY <1>0, <1>1, <1>3, <1>5, <2>3
  <2>5. past[w][a] <= past[h[k].ts][a] /\ past[w][a] \in Nat /\ past[h[k].ts][a] \in Nat /\ earned[a] \in Nat
    <3>1. \A t \in 0 .. clock : past[t][a] \in Nat /\ \A u \in t .. clock : past[t][a] <= past[u][a]
      <4>1. MaxClock \in Nat /\ 0 .. clock \subseteq 0 .. MaxClock
        BY <1>1, MonitorAssumption
      <4>2. past \in [0 .. MaxClock -> [Addresses -> Nat]]
        BY DEF FeesInv, Grown
      <4>3. \A t \in 0 .. clock : past[t][a] \in Nat
        BY <1>1, <4>1, <4>2
      <4>. QED
        BY <1>1, <4>3 DEF FeesInv, Grown
    <3>2. earned[a] \in Nat
      BY <1>1 DEF Inv
    <3>. HIDE DEF h, k, w
    <3>3. w \in 0 .. clock /\ h[k].ts \in 0 .. clock
      BY <1>1, <2>4
    <3>4. past[w][a] <= past[h[k].ts][a]
      BY <2>4, <3>1, <3>3
    <3>. QED
      BY <3>1, <3>2, <3>3, <3>4
  <2>. HIDE DEF h, k, w
  <2>6. past[h[k].ts][a] <= h[k].fee /\ h[Len(h)].fee <= earned[a] /\ h[k].fee \in Nat /\ h[Len(h)].fee \in Nat
    BY <1>2, <1>3, <1>5
  <2>7. ASSUME NEW p \in Nat, NEW q \in Nat, NEW x \in Nat, NEW y \in Nat, NEW e \in Nat, p <= q, q <= x, y <= e
        PROVE  y - x <= e - p
    BY <2>7
  <2>. QED
    BY <2>5, <2>6, <2>7, Zenon
<1>8. EarnedInWindow(a) = earned[a] - past[w][a]
  BY DEF EarnedInWindow
<1>9. h[k].fee \in Nat /\ h[Len(h)].fee \in Nat
  BY <1>2, <1>3, <1>5
<1>. HIDE DEF k, w
<1>10. h[Len(h)].fee - h[k].fee >= 0
  BY <1>6, <1>9
<1>. QED
  BY <1>4, <1>7, <1>8, <1>10

\* A pool that earned what it earned in a window earned nothing negative.
LEMMA WindowIsNat == Inv /\ FeesInv => \A a \in Addresses : EarnedInWindow(a) >= 0
<1>. SUFFICES ASSUME Inv, FeesInv, NEW a \in Addresses PROVE EarnedInWindow(a) >= 0
  OBVIOUS
<1>. DEFINE w == IF clock >= Window THEN clock - Window ELSE 0
<1>1. w \in 0 .. clock /\ clock \in Nat /\ clock <= MaxClock
  BY MonitorAssumption DEF Inv, FeesInv, Grown
<1>2. past[w][a] <= earned[a] /\ past[w][a] \in Nat /\ earned[a] \in Nat
  <2>1. past \in [0 .. MaxClock -> [Addresses -> Nat]] /\ earned \in [Addresses -> Nat]
    BY DEF Inv, FeesInv, Grown
  <2>2. w \in 0 .. MaxClock
    BY <1>1, MonitorAssumption
  <2>. HIDE DEF w
  <2>. QED
    BY <1>1, <2>1, <2>2 DEF FeesInv, Grown
<1>. HIDE DEF w
<1>. QED
  BY <1>2 DEF EarnedInWindow, w

\* What a viewer is told of a pool is not negative, and was earned in the window if the catalogue
\* has numbers for the pool and the answer is in time: for any number of pools, requests and
\* timers, while refreshes that began at different ticks do not overlap and fees are not left out.
THEOREM FeesTheorem == MonitorSpec => FeesOfTheWindow
<1>1. ASSUME Inv, FeesInv, [MonitorNext]_mvars, ~raced, NEW v \in Viewers, Tells(v),
             NEW a \in DOMAIN refresh'[v].page \ gaps
      PROVE  /\ refresh'[v].page[a] >= 0
             /\ a \notin silent /\ clock - refresh[v].now <= Window - GoodFor - Apart =>
                  refresh'[v].page[a] <= EarnedInWindow(a)
  <2>1. v \in Callers /\ Orderly /\ refresh[v].pc = "show" /\ refresh'[v].pc = "done"
    BY <1>1 DEF Callers, FeesInv, Tells
  <2>2. Show(v)
    <3>1. \A pc, now, page : At(pc, now, page).pc = pc
      BY DEF At
    <3>2. \A f \in Callers : \A pc, page : Ended(f, pc, page) /\ pc # "done" => refresh'[v].pc # "done"
      BY <2>1, <3>1 DEF Ended, Quiet, Inv
    <3>3. \A f \in Callers : Fetch(f) => refresh'[v].pc # "done"
      BY <2>1, <3>1 DEF Fetch, Inv
    <3>4. \A u \in Viewers : View(u) => refresh'[v].pc # "done"
      <4>. SUFFICES ASSUME NEW u \in Viewers, View(u) PROVE refresh'[v].pc # "done"
        OBVIOUS
      <4>1. Fetch(u) \/ refresh' = [refresh EXCEPT ![u] = At("show", clock, <<>>)]
        BY DEF View
      <4>2. CASE Fetch(u)
        BY <3>3, <4>2 DEF Callers
      <4>3. CASE refresh' = [refresh EXCEPT ![u] = At("show", clock, <<>>)]
        <5>1. refresh'[v] = IF v = u THEN At("show", clock, <<>>) ELSE refresh[v]
          BY <2>1, <4>3 DEF Inv
        <5>. QED
          BY <2>1, <3>1, <5>1
      <4>. QED
        BY <4>1, <4>2, <4>3
    <3>5. \A u \in Viewers : Show(u) /\ u # v => refresh'[v].pc # "done"
      BY <2>1 DEF Show, Ended, Inv
    <3>6. \A f \in Callers : ~Serve(f)
      <4>. SUFFICES ASSUME NEW f \in Callers, Serve(f) PROVE FALSE
        OBVIOUS
      <4>1. PICK r : r.pc = "arriving" /\ refresh' = [refresh EXCEPT ![f] = r]
        BY <3>1 DEF Serve
      <4>2. refresh'[v] = IF v = f THEN r ELSE refresh[v]
        BY <2>1, <4>1 DEF Inv
      <4>. QED
        BY <2>1, <4>1, <4>2
    <3>7. \A f \in Callers : ~FetchFails(f) /\ ~Arrive(f)
      BY <2>1, <3>2 DEF FetchFails, Arrive
    <3>8. ~(BotAsks \/ BotAnswers \/ Pass \/ UNCHANGED mvars \/ \E b \in Addresses : Earn(b))
      BY <2>1 DEF BotAsks, BotAnswers, Pass, Earn, mvars
    <3>9. \A t \in Timers : ~Fire(t)
      BY <2>1, <3>3 DEF Fire, Callers
    <3>. QED
      BY <1>1, <2>1, <3>4, <3>5, <3>6, <3>7, <3>8, <3>9 DEF MonitorNext, Callers
  <2>3. refresh'[v].page = [b \in catalog |-> IF Len(hist[b]) < 2 THEN 0 ELSE DeltaFor(hist[b], clock)]
    <3>1. Quiet.pc # "done" /\ \A pc, now, page : At(pc, now, page).page = page
      BY DEF Quiet, At
    <3>2. v \notin Timers
      BY <2>1, <2>2, <3>1 DEF Show, Ended, Inv
    <3>. QED
      BY <2>1, <2>2, <3>1, <3>2 DEF Show, Ended, Inv
  <2>4. a \in catalog /\ a \in Addresses
    BY <1>1, <2>3 DEF FeesInv, Seen
  <2>5. CASE Len(hist[a]) < 2
    <3>1. refresh'[v].page[a] = 0
      BY <2>3, <2>4, <2>5
    <3>2. EarnedInWindow(a) >= 0
      BY <1>1, <2>4, WindowIsNat
    <3>. QED
      BY <3>1, <3>2
  <2>6. CASE Len(hist[a]) >= 2
    <3>1. ~(Len(hist[a]) < 2)
      <4>1. Len(hist[a]) \in Nat
        BY <1>1, <2>4 DEF Inv, Good
      <4>. QED
        BY <2>6, <4>1
    <3>2. refresh'[v].page[a] = DeltaFor(hist[a], clock)
      BY <2>3, <2>4, <3>1
    <3>. QED
      BY <1>1, <2>1, <2>4, <2>6, <3>2, DeltaIsOfTheWindow
  <2>7. Len(hist[a]) \in Nat
    BY <1>1, <2>4 DEF Inv, Good
  <2>. QED
    BY <2>5, <2>6, <2>7
<1>2. Inv /\ FeesInv /\ [MonitorNext]_mvars =>
        [~raced => \A v \in Viewers : Tells(v) =>
           \A a \in DOMAIN refresh'[v].page \ gaps :
             /\ refresh'[v].page[a] >= 0
             /\ a \notin silent /\ clock - refresh[v].now <= Window - GoodFor - Apart =>
                  refresh'[v].page[a] <= EarnedInWindow(a)]_mvars
  BY <1>1
<1>3. MonitorSpec => []Inv
  BY InvStarts, InvKept, PTL DEF MonitorSpec
<1>4. MonitorSpec => []FeesInv
  BY <1>3, FeesStart, FeesStay, PTL DEF MonitorSpec
<1>. QED
  BY <1>2, <1>3, <1>4, PTL DEF MonitorSpec, FeesOfTheWindow
==============================================================================
