------------------------------ MODULE Scheduler ------------------------------
(***************************************************************************)
(* The workflow scheduler (ocaml-scheduler/lib): it checks a workflow and   *)
(* compiles it into a plan, a set of steps with the ids each depends on.    *)
(* A plan that executes a swap gets a balance step before its quotes and    *)
(* one after its executions.                                                *)
(***************************************************************************)
EXTENDS Integers, Sequences, FiniteSets

CONSTANT None     \* no value

Balance == "w3rt_balance"
SwapQuote == "w3rt_swap_quote"
SwapExec == "w3rt_swap_exec"
Before == "balance_before"
After == "balance_after"

(* A workflow is a sequence of actions; an action's dependencies are a      *)
(* sequence, as they are written.                                           *)
IdsOf(actions) == {actions[i].id : i \in DOMAIN actions}
DepsOf(a) == {a.dependsOn[i] : i \in DOMAIN a.dependsOn}
IdsWith(actions, tool) == {actions[i].id : i \in {j \in DOMAIN actions : actions[j].tool = tool}}

UniqIds(actions) == \A i, j \in DOMAIN actions : actions[i].id = actions[j].id => i = j
DepsExist(actions) == \A i \in DOMAIN actions : DepsOf(actions[i]) \subseteq IdsOf(actions)

(* Kahn's algorithm counts an action's dependencies as they are written and *)
(* takes one off when an action it depends on comes out, once however often *)
(* it is written: with a repetition the count never reaches zero.           *)
CountsDown(a) == Len(a.dependsOn) = Cardinality(DepsOf(a))
ComesOutOnAny(a, out) == a.dependsOn = <<>> \/ DepsOf(a) \cap out # {}     \* mutant
ComesOut(a, out) == CountsDown(a) /\ DepsOf(a) \subseteq out
TopoSort(actions) ==
  LET out[n \in 0..Len(actions)] ==
        IF n = 0 THEN {}
        ELSE {actions[i].id : i \in {j \in DOMAIN actions : ComesOut(actions[j], out[n - 1])}}
  IN  out[Len(actions)]
HasCycle(actions) == TopoSort(actions) # IdsOf(actions)

(* A swap is executed after a quote and with the confirm phrase.            *)
ValidSwapExec(actions) ==
  \A i \in DOMAIN actions : actions[i].tool = SwapExec =>
    /\ DepsOf(actions[i]) \cap IdsWith(actions, SwapQuote) # {}
    /\ actions[i].confirm = "I_CONFIRM"

Validate(actions) ==
  IF ~UniqIds(actions) THEN "duplicate"
  ELSE IF ~DepsExist(actions) THEN "missing"
  ELSE IF HasCycle(actions) THEN "cycle"
  ELSE IF ~ValidSwapExec(actions) THEN "swap"
  ELSE "ok"

(* hard_insert_balance_steps.                                               *)
BalanceStep(id, deps) == [id |-> id, tool |-> Balance, quoteId |-> None, confirm |-> None, deps |-> deps]

PatchedQuotes(s, execs) ==     \* mutant: a balance_after of the user is left as it is
  [s EXCEPT !.deps = @ \cup (IF s.tool = SwapQuote THEN {Before} ELSE {})]
PatchedAll(s, execs) ==        \* mutant: every step waits for balance_before
  [s EXCEPT !.deps = @ \cup {Before} \cup (IF s.id = After THEN execs ELSE {})]
Patched(s, execs) ==
  [s EXCEPT !.deps = @ \cup (IF s.tool = SwapQuote THEN {Before} ELSE {})
                       \cup (IF s.id = After THEN execs ELSE {})]

WithBalances(steps) ==
  LET execs == {s.id : s \in {t \in steps : t.tool = SwapExec}}
      ids == {s.id : s \in steps}
  IN  IF execs = {} THEN steps
      ELSE {Patched(s, execs) : s \in steps}
           \cup (IF Before \in ids THEN {} ELSE {BalanceStep(Before, {})})
           \cup (IF After \in ids THEN {} ELSE {BalanceStep(After, execs)})

StepOf(a) == [id |-> a.id, tool |-> a.tool, quoteId |-> a.quoteId, confirm |-> a.confirm, deps |-> DepsOf(a)]
ToPlan(actions) == WithBalances({StepOf(actions[i]) : i \in DOMAIN actions})
==============================================================================
