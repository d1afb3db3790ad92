---------------------------- MODULE PlanCompile ----------------------------
(***************************************************************************)
(* POST /v1/plan/compile (packages/runtime/src/daemon.ts): the actions of a *)
(* plan are put in order (PlanOrder) and built, simulated and judged one    *)
(* after the other.  What becomes of an action is kept by its id; an action *)
(* whose dependency did not become anything, or was denied, is skipped.     *)
(*                                                                         *)
(* What is prepared goes to the daemon's map at once, a denied artifact     *)
(* too: executing it asks the policy again (DaemonExec).                    *)
(***************************************************************************)
EXTENDS PlanOrder

VARIABLES
  at,       \* the place in the order that is next
  results,  \* resultById: "failed", "denied" or "allowed"
  stored,   \* the actions with an artifact in the map of prepared actions
  answer    \* of the request: "none" while it runs

cvars == <<vars, at, results, stored, answer>>

CompileInit == Init /\ at = 1 /\ results = <<>> /\ stored = {} /\ answer = "none"

(* Nothing is built for an empty plan, a cycle or without a key.            *)
Refuse ==
  /\ Finished /\ answer = "none" /\ at = 1
  /\ answer' \in (IF plan = <<>> THEN {"missing"} ELSE IF Cycles # {} THEN {"cycle"} ELSE {"no key"})
  /\ UNCHANGED <<vars, at, results, stored>>

Compiling == Accepted /\ plan # <<>> /\ answer = "none"

\* byId: of the actions with one id the last counts.
Last(i) == \A j \in i + 1 .. Len(plan) : plan[j].id # plan[i].id
Deps(id) == {Source(e) : e \in {f \in Places : Target(f) = id /\ Last(f[1])}}

\* Mutant of Blocking: a dependency that was denied does not count.
BlockingOnFailure == {"failed"}

Blocking == {"failed", "denied"}

\* depFailed: a dependency without a result does not count.
DepFailed(id) == \E d \in Deps(id) \cap DOMAIN results : results[d] \in Blocking

Becomes(id, result) ==
  /\ results' = [i \in DOMAIN results \cup {id} |-> IF i = id THEN result ELSE results[i]]
  /\ at' = at + 1
  /\ UNCHANGED <<vars, answer>>

Skip ==
  /\ Compiling /\ at <= Len(ordered) /\ DepFailed(ordered[at])
  /\ Becomes(ordered[at], "failed")
  /\ UNCHANGED stored

\* No driver for its chain, or the adapter cannot build it.
NotBuilt ==
  /\ Compiling /\ at <= Len(ordered) /\ ~DepFailed(ordered[at])
  /\ Becomes(ordered[at], "failed")
  /\ UNCHANGED stored

\* Allowed stands for a decision to confirm as well; without a policy it is the only one.
Prepare(result) ==
  /\ Compiling /\ at <= Len(ordered) /\ ~DepFailed(ordered[at])
  /\ Becomes(ordered[at], result)
  /\ stored' = stored \cup {ordered[at]}

\* A call of the driver or a line of the trace throws: what was stored stays.
Throws ==
  /\ Compiling
  /\ answer' = "error"
  /\ UNCHANGED <<vars, at, results, stored>>

Answer ==
  /\ Compiling /\ at > Len(ordered)
  /\ answer' = "ok"
  /\ UNCHANGED <<vars, at, results, stored>>

CompileNext ==
  \/ Next /\ UNCHANGED <<at, results, stored, answer>>
  \/ Refuse \/ Skip \/ NotBuilt \/ Throws \/ Answer
  \/ \E result \in {"denied", "allowed"} : Prepare(result)

CompileSpec == CompileInit /\ [][CompileNext]_cvars

-----------------------------------------------------------------------------
\* An artifact is made only when everything the action rests on was made and not
\* denied: its dependencies in the plan, theirs, and so on, in whatever order the plan
\* lists them and however often it repeats an id.
RestsOnAllowed ==
  \A id \in stored : \A d \in Deps(id) \cap Known :
    d \in stored /\ results[d] = "allowed"
=============================================================================
