----------------------------- MODULE MCPlanOrder -----------------------------
(* PlanOrder and PlanCompile on every plan up to a size.  The ids are        *)
(* interchangeable: a plan mentions them in the order a, b, c.               *)
EXTENDS PlanCompile

CONSTANTS a, b, c, MaxActions, MaxDeps

MCIds == {a, b, c}
SeqsUpTo(S, n) == UNION {[1 .. k -> S] : k \in 0 .. n}
Earlier(p, i, id) == \E j \in 1 .. i - 1 : p[j].id = id
MCPlans ==
  {p \in SeqsUpTo([id: MCIds, dependsOn: SeqsUpTo(MCIds, MaxDeps)], MaxActions) :
     \A i \in DOMAIN p : (p[i].id = b => Earlier(p, i, a)) /\ (p[i].id = c => Earlier(p, i, b))}
=============================================================================
