------------------------------ MODULE Monitor ------------------------------
(***************************************************************************)
(* The daemon's Meteora monitor: GET /v1/meteora/monitor/top keeps the last *)
(* catalogue of the indexer and a history of snapshots per pool, and tells  *)
(* what a pool earned in a window of time; a timer refreshes both, and      *)
(* GET /v1/meteora/monitor/telegram asks the daemon itself for two bases.   *)
(*                                                                         *)
(* A refresh reads the clock, waits for the indexer, and only then writes:  *)
(* refreshes overlap and may end in another order.  The indexer gives a     *)
(* pool it lists its fees since it exists, leaves them out, or gives        *)
(* something that is not a number.  A tick is the least distance of         *)
(* snapshots or less; hidden pools and pools without a side in SOL or USDC  *)
(* are not listed here.                                                     *)
(***************************************************************************)
EXTENDS Integers, Sequences

CONSTANTS
  Addresses,   \* pools
  Viewers,     \* requests for .../top, one for each base
  Timers,      \* runs of the interval that may be under way at a time
  GoodFor,     \* ticks a catalogue is good for (60 s)
  Apart,       \* least ticks between two snapshots (30 s)
  Window,      \* ticks that are asked for (5, 15 or 60 minutes)
  Keep,        \* ticks of history (2 hours)
  MaxClock, MaxFee,    \* bounds
  MaxOdd       \* bound: pages in which some pool has no number for its fees

ASSUME MonitorAssumption ==
  /\ {GoodFor, Apart, Window, Keep, MaxClock} \subseteq Nat \ {0}
  /\ Apart <= GoodFor /\ GoodFor < Window /\ Window <= Keep

VARIABLES
  clock,
  earned,              \* what each pool has earned, as the indexer knows it
  catalog, stamp,      \* st.pairs, st.ts
  silent,              \* pools of st.pairs that have no number for their fees or their volume
  hist,                \* st.hist: per pool its snapshots; <<>> stands for no entry
  started,             \* st.refresherStarted
  refresh,             \* refreshPairs, per caller
  bot,                 \* the telegram request
  past, raced,         \* observed: what each pool had earned at the beginning of each tick;
                       \* whether a refresh began at another tick than one still under way;
  gaps,                \* pools a page has left fees out of
  odd                  \* pages in which some pool had no number

mvars == <<clock, earned, catalog, stamp, silent, hist, started, refresh, bot, past, raced, gaps, odd>>
world == <<clock, earned, past>>
cache == <<catalog, stamp, silent, hist>>

(* Of a caller: its clock reading, the page the indexer gave, and for a     *)
(* request that is done the fees it told.                                   *)
At(pc, now, page) == [pc |-> pc, now |-> now, page |-> page]
Quiet == At("idle", 0, <<>>)

MonitorInit ==
  /\ clock = 0 /\ earned = [a \in Addresses |-> 0]
  /\ catalog = {} /\ stamp = 0 /\ silent = {} /\ hist = [a \in Addresses |-> <<>>]
  /\ started = FALSE /\ refresh = [f \in Viewers \cup Timers |-> Quiet]
  /\ bot = "idle"
  /\ past = [t \in 0 .. MaxClock |-> earned] /\ raced = FALSE /\ gaps = {} /\ odd = 0

Stale == catalog = {} \/ clock - stamp >= GoodFor
Out(f) == refresh[f].pc \in {"asking", "arriving"}

(* The clock is read and the indexer asked.                                 *)
Fetch(f) ==
  /\ refresh' = [refresh EXCEPT ![f] = At("asking", clock, <<>>)]
  /\ raced' = (raced \/ \E g \in Viewers \cup Timers : Out(g) /\ refresh[g].now # clock)

(* A request: the first one starts the timer.                               *)
View(v) ==
  /\ refresh[v].pc = "idle" /\ bot = "asked"
  /\ started' = TRUE
  /\ IF Stale THEN Fetch(v)
     ELSE refresh' = [refresh EXCEPT ![v] = At("show", clock, <<>>)] /\ UNCHANGED raced
  /\ UNCHANGED <<world, cache, bot, gaps, odd>>

(* The interval fires; its phase is left open.                              *)
Fire(t) ==
  /\ started /\ refresh[t].pc = "idle" /\ Stale
  /\ Fetch(t)
  /\ UNCHANGED <<world, cache, started, bot, gaps, odd>>

(* The indexer answers with the pools it lists at that moment; what is not  *)
(* a list counts as an empty one, and fees that are left out count as zero. *)
NaN == -1     \* stands for what is not a finite number
Fees(a, unread, left) == IF a \in unread THEN NaN ELSE IF a \in left THEN 0 ELSE earned[a]

Serve(f) ==
  /\ refresh[f].pc = "asking"
  /\ \E shown \in SUBSET Addresses : \E unread \in SUBSET shown : \E left \in SUBSET (shown \ unread) :
       /\ refresh' = [refresh EXCEPT ![f] =
                        At("arriving", refresh[f].now, [a \in shown |-> Fees(a, unread, left)])]
       /\ odd' = odd + (IF unread \cup left = {} THEN 0 ELSE 1) /\ odd' <= MaxOdd
       /\ gaps' = gaps \cup {a \in left : earned[a] # 0}
  /\ UNCHANGED <<world, cache, started, bot, raced>>

(* After a refresh a request goes on to its answer.                         *)
Ended(f, pc, page) ==
  refresh' = [refresh EXCEPT ![f] =
    IF f \in Timers THEN Quiet ELSE At(pc, IF pc = "show" THEN refresh[f].now ELSE 0, page)]

FetchFails(f) ==
  /\ Out(f)
  /\ Ended(f, "failed", <<>>)
  /\ UNCHANGED <<world, cache, started, bot, raced, gaps, odd>>

(* The first snapshot not older than a moment, or else the first of all.    *)
FirstSince(h, moment) ==
  LET since == {i \in DOMAIN h : h[i].ts >= moment}
  IN  IF since = {} THEN 1 ELSE CHOOSE i \in since : \A j \in since : i <= j

TooSoonEitherWay(h, now) ==     \* mutant: the distance, whichever is the later
  h # <<>> /\ now - h[Len(h)].ts < Apart /\ h[Len(h)].ts - now < Apart
TooSoon(h, now) == h # <<>> /\ now - h[Len(h)].ts < Apart

Extended(h, now, fee) ==
  IF TooSoon(h, now) THEN h
  ELSE LET longer == Append(h, [ts |-> now, fee |-> fee])
       IN  SubSeq(longer, FirstSince(longer, now - Keep), Len(longer))

(* The catalogue is replaced, the listed pools with numbers get a snapshot  *)
(* with the time at which the refresh began, those without keep the history *)
(* they have, and the others lose theirs.                                   *)
Taken(h, now, fee) == IF fee = NaN THEN h ELSE Extended(h, now, fee)

Arrive(f) ==
  /\ refresh[f].pc = "arriving"
  /\ LET page == refresh[f].page
         now == refresh[f].now
     IN  /\ catalog' = DOMAIN page
         /\ stamp' = now
         /\ silent' = {a \in DOMAIN page : page[a] = NaN}
         /\ hist' = [a \in Addresses |-> IF a \in DOMAIN page THEN Taken(hist[a], now, page[a]) ELSE <<>>]
  /\ Ended(f, "show", <<>>)
  /\ UNCHANGED <<world, started, bot, raced, gaps, odd>>

(* deltaFor: what was earned from the first snapshot in the window to the   *)
(* last one.                                                                *)
DeltaOfAll(h, now) == h[Len(h)].fee - h[1].fee     \* mutant: the whole history
DeltaFor(h, now) == h[Len(h)].fee - h[FirstSince(h, now - Window)].fee

(* A pool with a single snapshot is told to have earned nothing.            *)
Show(v) ==
  /\ refresh[v].pc = "show"
  /\ Ended(v, "done", [a \in catalog |-> IF Len(hist[a]) < 2 THEN 0 ELSE DeltaFor(hist[a], clock)])
  /\ UNCHANGED <<world, cache, started, bot, raced, gaps, odd>>

(* The telegram request asks for its two bases at once; a request that      *)
(* failed counts as one without pools.  Its two requests stand for any two. *)
BotAsks ==
  /\ bot = "idle" /\ bot' = "asked"
  /\ UNCHANGED <<world, cache, started, refresh, raced, gaps, odd>>
BotAnswers ==
  /\ bot = "asked" /\ \A v \in Viewers : refresh[v].pc \in {"done", "failed"}
  /\ bot' = IF \E v \in Viewers : \E a \in DOMAIN refresh[v].page : refresh[v].page[a] > 0
            THEN "news" ELSE "no news"
  /\ UNCHANGED <<world, cache, started, refresh, raced, gaps, odd>>

(* The indexer and the clock.                                               *)
Earn(a) ==
  /\ earned[a] < MaxFee
  /\ earned' = [earned EXCEPT ![a] = @ + 1]
  /\ UNCHANGED <<clock, past, cache, started, refresh, bot, raced, gaps, odd>>
Pass ==
  /\ clock < MaxClock /\ clock' = clock + 1
  /\ past' = [past EXCEPT ![clock + 1] = earned]
  /\ UNCHANGED <<earned, cache, started, refresh, bot, raced, gaps, odd>>

MonitorNext ==
  \/ \E v \in Viewers : View(v) \/ Show(v)
  \/ \E t \in Timers : Fire(t)
  \/ \E f \in Viewers \cup Timers : Serve(f) \/ FetchFails(f) \/ Arrive(f)
  \/ BotAsks \/ BotAnswers
  \/ \E a \in Addresses : Earn(a)
  \/ Pass

MonitorSpec == MonitorInit /\ [][MonitorNext]_mvars
------------------------------------------------------------------------------
(* A history has its snapshots in the order of time and at a distance,      *)
(* and none is older than the history is long, in whatever order refreshes  *)
(* end: the first snapshot in a window is the earliest one.                 *)
HistoryIsSpaced ==
  \A a \in Addresses : LET h == hist[a] IN
    /\ \A i, j \in DOMAIN h : i < j => h[j].ts - h[i].ts >= Apart
    /\ \A i \in DOMAIN h : h[i].ts <= clock /\ h[Len(h)].ts - h[i].ts <= Keep

(* What a viewer is told of a pool is not negative, and was earned in the   *)
(* window, as long as refreshes that began at different times do not        *)
(* overlap and the indexer has left its fees out of no page.  The second    *)
(* holds only if the catalogue of the answer has numbers for the pool and   *)
(* the request is answered before the last snapshot it is sure of leaves    *)
(* the window: deltaFor takes the whole history of a pool whose last        *)
(* snapshot is older than the window, so one the indexer goes on listing    *)
(* without a number is told with fees of before the window.                 *)
Tells(v) == refresh[v].pc = "show" /\ refresh'[v].pc = "done"
EarnedInWindow(a) == earned[a] - past[IF clock >= Window THEN clock - Window ELSE 0][a]
FeesOfTheWindow ==
  [][~raced => \A v \in Viewers : Tells(v) =>
       \A a \in DOMAIN refresh'[v].page \ gaps :
         /\ refresh'[v].page[a] >= 0
         /\ a \notin silent /\ clock - refresh[v].now <= Window - GoodFor - Apart =>
              refresh'[v].page[a] <= EarnedInWindow(a)]_mvars
==============================================================================
