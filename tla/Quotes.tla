------------------------------- MODULE Quotes -------------------------------
(***************************************************************************)
(* How the daemon's resolver weighs the offers of trading venues: what an   *)
(* offer promises, what a venue's recent failures cost it, and which offer  *)
(* wins.  Amounts are base units of the bought token.                       *)
(***************************************************************************)
EXTENDS Integers, Sequences, FiniteSets

CONSTANTS None,     \* no value
          Window    \* events of a venue remembered (RESOLVE_STATS_WINDOW)

Jupiter == "jupiter"
Pools == {"meteora", "raydium"}        \* compared when Jupiter has no answer
Venues == {Jupiter} \cup Pools
EventKinds == {"ok", "fail", "429", "timeout"}

(* A quote gives the amount expected and, if the venue computes one, the    *)
(* least amount: the resolver prefers the latter.                           *)
EffectiveOut(q) == IF q.minOut # None THEN q.minOut ELSE q.out

Count(events, kinds) == Cardinality({i \in DOMAIN events : events[i] \in kinds})

(* Basis points taken off a venue for its remembered events: up to 200, a   *)
(* 429 or a timeout counting twice, rounded half up.                        *)
PenaltyBps(events) ==
  IF events = <<>> THEN 0
  ELSE LET n == Len(events)
           bad == Count(events, {"fail"}) + 2 * Count(events, {"429", "timeout"})
           bps == (2 * 200 * bad + n) \div (2 * n)
       IN  IF bps > 200 THEN 200 ELSE bps

ApplyPenalty(out, bps) == (out * (10000 - bps)) \div 10000

Score(q, events) == ApplyPenalty(EffectiveOut(q), PenaltyBps(events))

(* What remembering one more event leaves.                                  *)
Remember(events, kind) ==
  LET all == Append(events, kind)
  IN  IF Len(all) > Window THEN Tail(all) ELSE all

(* Mutant: the sort is the wrong way round.                                 *)
WorstPool(offers, stats) ==
  LET score(v) == Score(offers[v], stats[v])
  IN  IF offers["raydium"] = None THEN "meteora"
      ELSE IF offers["meteora"] = None THEN "raydium"
      ELSE IF score("raydium") < score("meteora") THEN "raydium" ELSE "meteora"

(* The pool whose offer scores best; on a tie the sort keeps Meteora first. *)
(* offers maps each pool to a quote or None, stats each to its events.      *)
BestPool(offers, stats) ==
  LET score(v) == Score(offers[v], stats[v])
  IN  IF offers["raydium"] = None THEN "meteora"
      ELSE IF offers["meteora"] = None THEN "raydium"
      ELSE IF score("raydium") > score("meteora") THEN "raydium" ELSE "meteora"
==============================================================================
