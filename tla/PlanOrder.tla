------------------------------ MODULE PlanOrder ------------------------------
(***************************************************************************)
(* topoOrderActions (packages/runtime/src/daemon.ts): the order in which   *)
(* run_v0 and plan/compile work through the actions of a plan.             *)
(*                                                                         *)
(* The plan comes from a client and passes normalizeActions only: ids may  *)
(* repeat, dependencies may repeat, name the action itself or nothing at   *)
(* all.  Of the actions with one id the last counts (byId), but every one  *)
(* of them adds its dependencies.                                          *)
(*                                                                         *)
(* The function is one synchronous piece of code.  A behaviour is a call   *)
(* of it, a step is one turn of one of its loops.                          *)
(***************************************************************************)
EXTENDS Integers, Sequences, FiniteSets

CONSTANTS
  Ids,    \* the ids a plan may use
  Plans   \* the plans the daemon may be given

Action == [id: Ids, dependsOn: Seq(Ids)]

ASSUME PlansAssumption == \A p \in Plans : p \in Seq(Action)

VARIABLES
  plan,     \* the argument
  indeg,    \* of each id, how many dependencies are not yet met
  next,     \* the index the seeding of the queue has reached
  q,        \* the queue of ids that may come next
  todo,     \* the edges out of the id just taken that are still to be followed
  ordered   \* the result so far, as ids

vars == <<plan, indeg, next, q, todo, ordered>>

-----------------------------------------------------------------------------
\* The keys of byId.
Known == {plan[i].id : i \in DOMAIN plan}

\* An edge is a place in the plan: the k-th dependency of the i-th action.
Places == UNION {{i} \X DOMAIN plan[i].dependsOn : i \in DOMAIN plan}

Target(e) == plan[e[1]].id
Source(e) == plan[e[1]].dependsOn[e[2]]

\* Mutant of Edges: missing dependencies are counted as well.
AllPlaces == Places

\* "ignore missing deps for now"
Edges == {e \in Places : Source(e) \in Known}

Incoming(id) == {e \in Edges : Target(e) = id}
Outgoing(id) == {e \in Edges : Source(e) = id}

\* The order in which the edges were pushed.
Before(e, f) == e[1] < f[1] \/ (e[1] = f[1] /\ e[2] <= f[2])

Init ==
  /\ plan \in Plans
  /\ indeg = [id \in Known |-> Cardinality(Incoming(id))]
  /\ next = 1 /\ q = <<>> /\ todo = {} /\ ordered = <<>>

\* indeg.entries() lists every id once, where the plan first mentions it.
First(i) == \A j \in 1 .. i - 1 : plan[j].id # plan[i].id

Seed ==
  /\ next <= Len(plan)
  /\ q' = IF First(next) /\ indeg[plan[next].id] = 0 THEN Append(q, plan[next].id) ELSE q
  /\ next' = next + 1
  /\ UNCHANGED <<plan, indeg, todo, ordered>>

Seeded == next > Len(plan)

Take ==
  /\ Seeded /\ todo = {} /\ q # <<>>
  /\ ordered' = Append(ordered, Head(q))
  /\ todo' = Outgoing(Head(q))
  /\ q' = Tail(q)
  /\ UNCHANGED <<plan, indeg, next>>

\* Mutant of Follow: an id is pushed as soon as one of its dependencies is met.
FollowEager(e) ==
  /\ e \in todo /\ \A f \in todo : Before(e, f)
  /\ indeg' = [indeg EXCEPT ![Target(e)] = @ - 1]
  /\ q' = IF \E i \in DOMAIN q : q[i] = Target(e) THEN q ELSE Append(q, Target(e))
  /\ todo' = todo \ {e}
  /\ UNCHANGED <<plan, next, ordered>>

Follow(e) ==
  /\ e \in todo /\ \A f \in todo : Before(e, f)
  /\ indeg' = [indeg EXCEPT ![Target(e)] = @ - 1]
  /\ q' = IF indeg'[Target(e)] = 0 THEN Append(q, Target(e)) ELSE q
  /\ todo' = todo \ {e}
  /\ UNCHANGED <<plan, next, ordered>>

Next == Seed \/ Take \/ \E e \in todo : Follow(e)

Spec == Init /\ [][Next]_vars

Finished == Seeded /\ todo = {} /\ q = <<>>

\* What topoOrderActions returns as cycles; run_v0 refuses the plan if there are any.
Cycles == {id \in Known : indeg[id] > 0}

Accepted == Finished /\ Cycles = {}

-----------------------------------------------------------------------------
(* Properties.                                                               *)

TypeOK ==
  /\ plan \in Seq(Action)
  /\ indeg \in [Known -> Nat]
  /\ next \in 1 .. Len(plan) + 1
  /\ q \in Seq(Known) /\ ordered \in Seq(Known)
  /\ todo \subseteq Edges

Index(id) == {i \in DOMAIN ordered : ordered[i] = id}

\* Whatever the plan looks like, an id comes after all it depends on, and once: also
\* while the queue holds ids that became free in the wrong order, and also in the
\* part that is ordered before a cycle is found.
DependenciesFirst ==
  /\ \A i, j \in DOMAIN ordered : ordered[i] = ordered[j] => i = j
  /\ \A e \in Edges : \A j \in Index(Target(e)) : \E i \in Index(Source(e)) : i < j

\* What run_v0 relies on for a plan it accepts: every id of the plan is ordered.
AcceptedIsComplete == Accepted => \A id \in Known : Index(id) # {}

\* A plan is refused for a reason: each id reported as part of a cycle depends on
\* another that is reported as well, so following these dependencies never ends.
CyclesAreReal ==
  Finished => \A id \in Cycles : \E e \in Edges : Target(e) = id /\ Source(e) \in Cycles

\* topoOrderActions either orders the whole plan or reports real cycles.
OrdersOrReports == AcceptedIsComplete /\ CyclesAreReal
=============================================================================
