----------------------------- MODULE PlanRunner -----------------------------
(***************************************************************************)
(* Compiled plans and who runs them: w3rt_plan_run.mjs takes the steps of a *)
(* plan one by one and starts a process for each; w3rt_swap_safe.mjs, one   *)
(* such process, quotes a swap and keeps the quote in a file, or looks a    *)
(* quote up in the file, simulates it, sends it and takes it out.           *)
(*                                                                         *)
(* Several plans may run at a time and share the file.  A write is a        *)
(* truncation and then the new content, and the content is what the process *)
(* read before it waited for the network.  Any process may be killed.       *)
(***************************************************************************)
EXTENDS Scheduler

CONSTANTS
  Procs,      \* plan runs
  Setups,     \* the situations a behaviour may start in
  Order,      \* the ids of steps in the order localeCompare gives them
  QuoteLife,  \* ticks a quote is good for (2 minutes)
  Corrupt     \* a file that does not parse

(* localeCompare knows a place for the id of every step.                    *)
ASSUME OrderAssumption ==
  /\ DOMAIN Order \subseteq Nat
  /\ \A s \in Setups, p \in Procs : \A t \in ToPlan(s.jobs[p].workflow) : \E i \in DOMAIN Order : Order[i] = t.id

(* The actions of a workflow are an array.                                  *)
ASSUME WorkflowsAssumption ==
  \A s \in Setups, p \in Procs :
    LET w == s.jobs[p].workflow IN Len(w) \in Nat /\ DOMAIN w = 1 .. Len(w)

VARIABLES
  setup,      \* each run's workflow, the phrase of the configuration, bounds
  run,        \* each run's state; newest is observed: the quote it built last
  file,       \* swap-quotes.json: a set of quotes, or Corrupt
  now, crashes,
  issued,     \* observed: the quotes made
  sent,       \* observed: what was handed to the chain, in order
  broken      \* observed: quotes whose execution was sent and did not finish;
              \* None among them once two processes held copies of the file

vars == <<setup, run, file, now, crashes, issued, sent, broken>>

Job(p) == setup.jobs[p]
Idle == [pc |-> "new", remaining |-> {}, done |-> {}, lastQuote |-> None, step |-> None,
         copy |-> {}, quote |-> None, newest |-> None]

Init ==
  /\ setup \in Setups
  /\ run = [p \in Procs |-> Idle]
  /\ file = {} /\ now = 0 /\ crashes = 0
  /\ issued = {} /\ sent = <<>> /\ broken = {}

Goto(p, pc) == run' = [run EXCEPT ![p].pc = pc]
------------------------------------------------------------------------------
(* The plan.                                                                *)

(* A workflow the scheduler refuses has no plan.                            *)
Compile(p) ==
  /\ run[p].pc = "new" /\ Job(p).workflow # <<>>
  /\ run' = IF Validate(Job(p).workflow) = "ok"
            THEN [run EXCEPT ![p].pc = "ready", ![p].remaining = ToPlan(Job(p).workflow)]
            ELSE [run EXCEPT ![p].pc = "rejected"]
  /\ UNCHANGED <<setup, file, now, crashes, issued, sent, broken>>

Ready(p) == {s \in run[p].remaining : s.deps \subseteq run[p].done}
Place(id) == CHOOSE i \in DOMAIN Order : Order[i] = id
First(steps) == CHOOSE s \in steps : \A t \in steps : Place(s.id) <= Place(t.id)

(* A step is done: its output is written and it leaves the map.             *)
Done(r, lastQuote) ==
  [r EXCEPT !.pc = "ready", !.done = @ \cup {r.step.id}, !.remaining = @ \ {r.step},
            !.lastQuote = lastQuote, !.step = None, !.copy = {}, !.quote = None]

AllDone(p) ==
  /\ run[p].pc = "ready" /\ run[p].remaining = {}
  /\ Goto(p, "done")
  /\ UNCHANGED <<setup, file, now, crashes, issued, sent, broken>>

NothingRunnable(p) ==
  /\ run[p].pc = "ready" /\ run[p].remaining # {} /\ Ready(p) = {}
  /\ Goto(p, "stuck")
  /\ UNCHANGED <<setup, file, now, crashes, issued, sent, broken>>

(* The quote an execution is for: the one named, else the last one made.    *)
QuoteIdOf(p, s) == IF s.quoteId # None THEN s.quoteId ELSE run[p].lastQuote

(* Where a step begins; a tool the runner does not know, or an execution    *)
(* without a quote, ends the run.                                           *)
EntryOf(p, s) ==
  CASE s.tool = Balance -> "balance"
    [] s.tool = SwapQuote -> "quote"
    [] s.tool = SwapExec /\ QuoteIdOf(p, s) # None -> IF Job(p).dryRun THEN "skipped" ELSE "exec"
    [] OTHER -> "failed"

StartStep(p) ==
  /\ run[p].pc = "ready" /\ Ready(p) # {}
  /\ LET s == First(Ready(p))
     IN  run' = [run EXCEPT ![p].step = s, ![p].pc = EntryOf(p, s)]
  /\ UNCHANGED <<setup, file, now, crashes, issued, sent, broken>>

(* A step that touches nothing shared: a balance, or a swap of a dry run.   *)
StepEnds(p) ==
  /\ run[p].pc \in {"balance", "skipped"}
  /\ run' = [run EXCEPT ![p] = Done(@, @.lastQuote)]
  /\ UNCHANGED <<setup, file, now, crashes, issued, sent, broken>>

(* The process of a step fails, and with it the run.                        *)
StepFails(p) ==
  /\ run[p].pc \in {"balance", "quote", "simulate"}
  /\ Goto(p, "failed")
  /\ UNCHANGED <<setup, file, now, crashes, issued, sent, broken>>
------------------------------------------------------------------------------
(* The file of quotes.                                                      *)

ReadQuoteStore == IF file = Corrupt THEN {} ELSE file
Holding(p) == run[p].pc \in {"toWrite", "writing", "simulate", "send", "confirm", "toDelete", "deleting"}
Shared(p) == IF \E o \in Procs \ {p} : Holding(o) THEN broken \cup {None} ELSE broken

(* Quotes are numbered by the clock: two of one millisecond get one id.     *)
NewIds(p) == {Cardinality({q.id : q \in issued}) + 1}
             \cup {q.id : q \in {i \in issued : i.by[1] # p /\ i.expiresAt = now + QuoteLife}}

(* The swap is built and the file read at once.                             *)
QuoteBuilt(p) ==
  /\ run[p].pc = "quote"
  /\ \E id \in NewIds(p) :
       LET q == [id |-> id, by |-> <<p, run[p].step.id>>, expiresAt |-> now + QuoteLife]
       IN  /\ run' = [run EXCEPT ![p].pc = "toWrite", ![p].quote = q, ![p].newest = q,
                                 ![p].copy = ReadQuoteStore]
           /\ issued' = issued \cup {q}
  /\ broken' = Shared(p)
  /\ UNCHANGED <<setup, file, now, crashes, sent>>

(* Either kind of write begins with an empty file.                          *)
Truncate(p) ==
  /\ run[p].pc \in {"toWrite", "toDelete"}
  /\ file' = Corrupt
  /\ Goto(p, IF run[p].pc = "toWrite" THEN "writing" ELSE "deleting")
  /\ UNCHANGED <<setup, now, crashes, issued, sent, broken>>

Without(quotes, q) == {o \in quotes : o.id # q.id}

(* The id that later steps find as __lastQuoteId.                           *)
FirstQuoteId(p) == IF run[p].lastQuote = None THEN run[p].quote.id ELSE run[p].lastQuote   \* mutant
LastQuoteId(p) == run[p].quote.id

QuoteWritten(p) ==
  /\ run[p].pc = "writing"
  /\ file' = Without(run[p].copy, run[p].quote) \cup {run[p].quote}
  /\ run' = [run EXCEPT ![p] = Done(@, LastQuoteId(p))]
  /\ UNCHANGED <<setup, now, crashes, issued, sent, broken>>

(* exec: the phrase, the look-up and the expiry.                            *)
Found(p) == {q \in ReadQuoteStore : q.id = QuoteIdOf(p, run[p].step) /\ now <= q.expiresAt}

LookUp(p) ==
  /\ run[p].pc = "exec" /\ run[p].step.confirm = setup.phrase /\ Found(p) # {}
  /\ run' = [run EXCEPT ![p].pc = "simulate", ![p].quote = CHOOSE q \in Found(p) : TRUE,
                        ![p].copy = ReadQuoteStore]
  /\ broken' = Shared(p)
  /\ UNCHANGED <<setup, file, now, crashes, issued, sent>>

Refused(p) ==
  /\ run[p].pc = "exec" /\ (run[p].step.confirm = setup.phrase => Found(p) = {})
  /\ Goto(p, "failed")
  /\ UNCHANGED <<setup, file, now, crashes, issued, sent, broken>>

Simulated(p) ==
  /\ run[p].pc = "simulate"
  /\ Goto(p, "send")
  /\ UNCHANGED <<setup, file, now, crashes, issued, sent, broken>>

Accepted(p) == sent' = Append(sent, [by |-> p, step |-> run[p].step.id, quote |-> run[p].quote,
                                     newest |-> run[p].newest])

Sent(p) ==
  /\ run[p].pc = "send"
  /\ Accepted(p)
  /\ Goto(p, "confirm")
  /\ UNCHANGED <<setup, file, now, crashes, issued, broken>>

(* The send fails, or its answer is lost: the quote stays in the file.      *)
SendFails(p) ==
  /\ run[p].pc = "send"
  /\ \/ UNCHANGED <<sent, broken>>
     \/ Accepted(p) /\ broken' = broken \cup {run[p].quote.by}
  /\ Goto(p, "failed")
  /\ UNCHANGED <<setup, file, now, crashes, issued>>

(* The chain's verdict is only reported, whatever it is.                    *)
Confirmed(p) ==
  /\ run[p].pc = "confirm"
  /\ Goto(p, "toDelete")
  /\ UNCHANGED <<setup, file, now, crashes, issued, sent, broken>>

ConfirmFails(p) ==
  /\ run[p].pc = "confirm"
  /\ Goto(p, "failed")
  /\ broken' = broken \cup {run[p].quote.by}
  /\ UNCHANGED <<setup, file, now, crashes, issued, sent>>

(* The copy read before the swap is written back without the quote.         *)
LeftAsRead(p) == run[p].copy     \* mutant: the quote is not taken out
LeftOver(p) == Without(run[p].copy, run[p].quote)

QuoteDeleted(p) ==
  /\ run[p].pc = "deleting"
  /\ file' = LeftOver(p)
  /\ run' = [run EXCEPT ![p] = Done(@, @.lastQuote)]
  /\ UNCHANGED <<setup, now, crashes, issued, sent, broken>>
------------------------------------------------------------------------------
Active(p) == run[p].pc \notin {"new", "rejected", "done", "stuck", "failed", "killed"}

Crash(p) ==
  /\ Active(p) /\ crashes < setup.maxCrashes
  /\ crashes' = crashes + 1
  /\ broken' = IF run[p].pc \in {"confirm", "toDelete", "deleting"} THEN broken \cup {run[p].quote.by} ELSE broken
  /\ Goto(p, "killed")
  /\ UNCHANGED <<setup, file, now, issued, sent>>

Tick ==
  /\ now < setup.maxTime /\ now' = now + 1
  /\ UNCHANGED <<setup, run, file, crashes, issued, sent, broken>>

Next ==
  \/ Tick
  \/ \E p \in Procs :
       \/ Compile(p) \/ AllDone(p) \/ NothingRunnable(p) \/ StartStep(p) \/ StepEnds(p) \/ StepFails(p)
       \/ QuoteBuilt(p) \/ Truncate(p) \/ QuoteWritten(p)
       \/ LookUp(p) \/ Refused(p) \/ Simulated(p) \/ Sent(p) \/ SendFails(p)
       \/ Confirmed(p) \/ ConfirmFails(p) \/ QuoteDeleted(p) \/ Crash(p)

Spec == Init /\ [][Next]_vars
------------------------------------------------------------------------------
(* What lies below an id in a workflow, in one step or more.                *)
Below(actions, id) ==
  LET under(ids) == UNION {DepsOf(actions[i]) : i \in {j \in DOMAIN actions : actions[j].id \in ids}}
      reach[n \in 0..Len(actions)] == IF n = 0 THEN under({id}) ELSE reach[n - 1] \cup under(reach[n - 1])
  IN  reach[Len(actions)]
Cyclic(actions) == \E id \in IdsOf(actions) : id \in Below(actions, id)

Workflow(p) == Job(p).workflow
PlanIds(p, tool) == IdsWith(Workflow(p), tool)

(* The scheduler refuses as cyclic only a workflow with a cycle or with a   *)
(* dependency written twice, and lets no cycle pass.                        *)
CyclesAreRefused ==
  \A p \in Procs : Workflow(p) # <<>> /\ UniqIds(Workflow(p)) /\ DepsExist(Workflow(p)) =>
    /\ run[p].pc = "rejected" /\ Validate(Workflow(p)) = "cycle" =>
         Cyclic(Workflow(p)) \/ \E i \in DOMAIN Workflow(p) : ~CountsDown(Workflow(p)[i])
    /\ run[p].pc \notin {"new", "rejected"} => ~Cyclic(Workflow(p))

(* A compiled plan is carried through: the runner finds nothing to run only *)
(* when the workflow has a balance of its own in the wrong place, a         *)
(* balance_before that waits for a quote or for balance_after, or a         *)
(* balance_after that an execution waits for.                               *)
UpTo(actions, id) == {id} \cup Below(actions, id)
StuckOnlyByOwnBalance ==
  \A p \in Procs : run[p].pc = "stuck" =>
    \/ Before \in IdsOf(Workflow(p)) /\ UpTo(Workflow(p), Before) \cap (PlanIds(p, SwapQuote) \cup {After}) # {}
    \/ \E x \in PlanIds(p, SwapExec) : After \in UpTo(Workflow(p), x)

(* The balances bracket the swaps: no swap is quoted or executed before     *)
(* balance_before, and balance_after comes after every execution.           *)
SwapsAreBracketed ==
  \A p \in Procs : PlanIds(p, SwapExec) # {} =>
    LET begun == run[p].done \cup (IF run[p].step = None THEN {} ELSE {run[p].step.id})
    IN  /\ begun \cap (PlanIds(p, SwapExec) \cup PlanIds(p, SwapQuote)) # {} => Before \in run[p].done
        /\ After \in begun => PlanIds(p, SwapExec) \subseteq run[p].done

Collided == \E q1, q2 \in issued : q1.id = q2.id /\ q1 # q2

(* An execution that names no quote swaps the one that its own run had made *)
(* last by then, whatever it depends on - with one quote step in the plan,  *)
(* a step it depends on - unless two quotes were given one id.              *)
ExecutesItsQuote ==
  ~Collided => \A i \in DOMAIN sent :
    LET p == sent[i].by
        exec == {s \in ToPlan(Workflow(p)) : s.id = sent[i].step}
        from == sent[i].quote.by
    IN  \A s \in exec : s.quoteId = None =>
          /\ sent[i].quote = sent[i].newest
          /\ from[1] = p /\ from[2] \in PlanIds(p, SwapQuote)
          /\ PlanIds(p, SwapQuote) = {from[2]} => from[2] \in s.deps

(* A quote is sent once, unless an execution of it was sent and did not     *)
(* finish or two processes worked on copies of the file at a time.          *)
SentOnce ==
  \A i, j \in DOMAIN sent :
    i # j /\ sent[i].quote = sent[j].quote => sent[i].quote.by \in broken \/ None \in broken
==============================================================================
