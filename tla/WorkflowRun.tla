----------------------------- MODULE WorkflowRun -----------------------------
(***************************************************************************)
(* One workflow run of the daemon (packages/runtime/src/daemon.ts):        *)
(* run_v0 prepares the steps of a plan one after the other, confirm_v0 and *)
(* actions/execute broadcast them, retry_v0 prepares a step again, and     *)
(* runs/<runId>/status.json remembers what became of each step.            *)
(*                                                                         *)
(* The execute path itself is BroadcastLedger, which DaemonExec            *)
(* implements: every action here that touches an artifact or the chain is  *)
(* a step of the ledger.                                                   *)
(***************************************************************************)
EXTENDS Integers, Sequences, FiniteSets

CONSTANTS
  Steps,       \* the ids of the plan's actions
  DependsOn,   \* of each step, the steps of the plan it depends on
  Order,       \* the sequence topoOrderActions makes of them
  Refused,     \* the steps run_v0 refuses: above the cap (exceedsDefaultUsdcLimit), or of a
               \* chain without a driver
  Callers,     \* request slots for confirm_v0, actions/execute and retry_v0
  Routes,      \* how clients execute: "step", "id" (confirm_v0), "execute"
  Retries,     \* do clients call retry_v0
  Torn,        \* can a write of status.json or the trace fail or be cut off
  Ids,         \* the preparedIds randomUUID may return
  Hashes,      \* the blockhashes a transaction may be signed with
  MaxBoots,    \* bound: how many times the process restarts
  None

ASSUME PlanAssumption ==
  /\ DependsOn \in [Steps -> SUBSET Steps]
  /\ Refused \subseteq Steps
  /\ Order \in Seq(Steps)
  /\ \A s \in Steps : \E i \in DOMAIN Order : Order[i] = s
  /\ \A i, j \in DOMAIN Order : Order[i] = Order[j] => i = j
  /\ \A i, j \in DOMAIN Order : Order[j] \in DependsOn[Order[i]] => j < i

Signature == [id: Ids, hash: Hashes]

ASSUME ConstantsAssumption ==
  /\ Routes \subseteq {"step", "id", "execute"}
  /\ Retries \in BOOLEAN /\ Torn \in BOOLEAN /\ MaxBoots \in Nat

VARIABLES
  artifact, trying, landed,  \* the ledger: artifacts, attempts and the chain
  step,      \* of each preparedId, the step it was made for
  executed,  \* the executed map
  run,       \* the run_v0 handler: where it is in the plan, and its results
  plan,      \* is plan.json there and readable
  file,      \* status.json, or None while it is missing or unreadable
  call,      \* the other handlers
  told,      \* what confirm_v0 answered to (runId, stepId)
  boots

vars == <<artifact, trying, landed, step, executed, run, plan, file, call, told, boots>>

Ledger == INSTANCE BroadcastLedger WITH status <- artifact

ledgerVars == <<artifact, trying, landed>>
-----------------------------------------------------------------------------
\* A step of status.json: what writeRunStatus was last given for it.
Entry == [state: {"prepared", "failed", "executed"}, id: Ids \cup {None},
          sig: Signature \cup {None}]

\* status.json: the state of the run and its steps.
StatusFile == [run: {"preparing", "needs_confirm", "failed", "executed"},
               steps: [Steps -> Entry \cup {None}]]

\* ok and allowed, ok but not allowed by the policy, not ok.
Results == {"ready", "denied", "failed"}

\* None stands for the absence of a value.
ASSUME NoneAssumption ==
  None \notin Ids \cup Steps \cup Signature \cup Entry \cup StatusFile \cup Results

NoSteps == [s \in Steps |-> None]

Idle == [pc |-> "idle", route |-> None, step |-> None, id |-> None, sig |-> None]

Call == [pc: {"idle", "building", "trying", "landed"}, route: Routes \cup {None},
         step: Steps \cup {None}, id: Ids \cup {None}, sig: Signature \cup {None}]

\* What the steps are for loadRunStatus: none at all if the file cannot be read.
Recorded == IF file = None THEN NoSteps ELSE file.steps

\* The content writeRunStatus gives status.json: the patch over what was there.
Patched(state, s, entry) == [run |-> state, steps |-> [Recorded EXCEPT ![s] = entry]]

\* writeFileSync: done, not done, or cut off.
Written(new) == file' = new
Botched      == Torn /\ file' \in {file, None}

\* The signature status.json knows for a step.
KnownSig(s) == IF Recorded[s] = None THEN None ELSE Recorded[s].sig
KnownId(s)  == IF Recorded[s] = None THEN None ELSE Recorded[s].id

Init ==
  /\ Ledger!Init
  /\ step = [id \in Ids |-> None] /\ executed = [id \in Ids |-> None]
  /\ run = [pc |-> "new", next |-> 1, results |-> NoSteps]
  /\ plan = FALSE /\ file = None
  /\ call = [c \in Callers |-> Idle]
  /\ told = {} /\ boots = 1

-----------------------------------------------------------------------------
(* run_v0.  A failing write of status.json throws, and ends the handler.     *)

RunStart ==
  /\ run.pc = "new"
  /\ \/ /\ Written([run |-> "preparing", steps |-> NoSteps])
        /\ run' = [run EXCEPT !.pc = "running"]
        /\ plan' = TRUE \/ (Torn /\ plan' = FALSE)
     \/ Botched /\ run' = [run EXCEPT !.pc = "ended"] /\ UNCHANGED plan
  /\ UNCHANGED <<ledgerVars, step, executed, call, told, boots>>

Running == run.pc = "running" /\ run.next \in DOMAIN Order

\* The loop goes on with the next action.
Proceed(result) ==
  run' = [run EXCEPT !.next = run.next + 1, !.results[Order[run.next]] = result]

\* Mutant of DepFailed: what the policy does not allow is good enough.
DepFailedOnly(s) == \E d \in DependsOn[s] : run.results[d] = "failed"

\* depFailed: a result that is not ok, or not allowed, among those of dependsOn.
DepFailed(s) == \E d \in DependsOn[s] : run.results[d] \in {"failed", "denied"}

\* DEP_FAILED, RISK_LIMIT_EXCEEDED and UNSUPPORTED_CHAIN leave no trace in status.json.
RunSkip ==
  /\ Running
  /\ DepFailed(Order[run.next]) \/ Order[run.next] \in Refused
  /\ Proceed("failed")
  /\ UNCHANGED <<ledgerVars, step, executed, plan, file, call, told, boots>>

Preparing == Running /\ ~DepFailed(Order[run.next]) /\ Order[run.next] \notin Refused

RunBuildFailed ==
  LET s == Order[run.next]
  IN  /\ Preparing
      /\ \/ /\ Written(Patched("failed", s, [state |-> "failed", id |-> None, sig |-> None]))
            /\ Proceed("failed")
         \/ Botched /\ run' = [run EXCEPT !.pc = "ended"]
      /\ UNCHANGED <<ledgerVars, step, executed, plan, call, told, boots>>

\* Built, simulated and stored under a fresh id; the policy decides what the
\* client is told, not whether it is stored.
RunPrepared(id, allowed) ==
  LET s == Order[run.next]
  IN  /\ Preparing
      /\ Ledger!Open(id)
      /\ step' = [step EXCEPT ![id] = s]
      /\ \/ /\ Written(Patched("needs_confirm", s,
                               [state |-> "prepared", id |-> id, sig |-> None]))
            /\ Proceed(IF allowed THEN "ready" ELSE "denied")
         \/ Botched /\ run' = [run EXCEPT !.pc = "ended"]
      /\ UNCHANGED <<executed, plan, call, told, boots>>

\* The simulation throws, or the plan is done: the client has its answer.
RunEnds ==
  /\ run.pc = "running"
  /\ Preparing \/ ~Running
  /\ run' = [run EXCEPT !.pc = "ended"]
  /\ UNCHANGED <<ledgerVars, step, executed, plan, file, call, told, boots>>

-----------------------------------------------------------------------------
(* confirm_v0 and actions/execute.  Nobody knows the runId or a preparedId   *)
(* before run_v0 has answered.                                               *)

Free(c) == call[c].pc = "idle" /\ run.pc = "ended"

Tell(route, s, sig) ==
  told' = IF route = "step" THEN told \cup {[step |-> s, sig |-> sig]} ELSE told

\* The artifact a client names: by the step it belongs to, or directly.
Named(route, s, id) ==
  /\ id # None
  /\ IF route = "step" THEN KnownSig(s) = None /\ id = KnownId(s) ELSE step[id] = s

\* "If already executed for this run+step, return idempotently."
ConfirmKnown(c, s) ==
  /\ Free(c) /\ "step" \in Routes
  /\ KnownSig(s) # None
  /\ Tell("step", s, KnownSig(s))
  /\ UNCHANGED <<ledgerVars, step, executed, run, plan, file, call, boots>>

ConfirmRepeated(c, route, s, id) ==
  /\ Free(c) /\ Named(route, s, id)
  /\ executed[id] # None
  /\ Tell(route, s, executed[id])
  /\ UNCHANGED <<ledgerVars, step, executed, run, plan, file, call, boots>>

ConfirmAccepted(c, route, s, id) ==
  /\ Free(c) /\ Named(route, s, id)
  /\ Ledger!Try(c, id)
  /\ call' = [call EXCEPT ![c] =
       [Idle EXCEPT !.pc = "trying", !.route = route, !.step = s, !.id = id]]
  /\ UNCHANGED <<step, executed, run, plan, file, told, boots>>

ConfirmLand(c, hash) ==
  /\ call[c].pc = "trying"
  /\ Ledger!Land(c, hash)
  /\ call' = [call EXCEPT ![c] =
       [@ EXCEPT !.pc = "landed", !.sig = [id |-> call[c].id, hash |-> hash]]]
  /\ UNCHANGED <<step, executed, run, plan, file, told, boots>>

\* The blockhash or the send fails, or its answer is lost.
ConfirmError(c) ==
  /\ call[c].pc \in {"trying", "landed"}
  /\ Ledger!Retire({c}, {})
  /\ call' = [call EXCEPT ![c] = Idle]
  /\ UNCHANGED <<step, executed, run, plan, file, told, boots>>

\* Mutant of RecordStatus: the step is the one the id was made for.
RecordStatusOfStep(id, sig) ==
  IF Recorded[step[id]] # None
    THEN Written(Patched("executed", step[id],
                         [Recorded[step[id]] EXCEPT !.state = "executed", !.sig = sig]))
    ELSE UNCHANGED file

\* The status update of confirm_v0 looks for the step that names this id now.
RecordStatus(id, sig) ==
  IF \E s \in Steps : KnownId(s) = id
    THEN LET s == CHOOSE s \in Steps : KnownId(s) = id
         IN  \/ Written(Patched("executed", s, [Recorded[s] EXCEPT !.state = "executed", !.sig = sig]))
             \/ Botched
    ELSE UNCHANGED file

\* sendTransaction returned.  actions/execute leaves status.json alone; what
\* confirm_v0 polls afterwards changes nothing.  If the trace cannot be written,
\* the handler ends between executed.set and the status update.
ConfirmRecord(c) ==
  LET q == call[c]
  IN  /\ q.pc = "landed"
      /\ executed' = [executed EXCEPT ![q.id] = q.sig]
      /\ Ledger!Retire({c}, {q.id} \cap {id \in Ids : artifact[id] = "open"})
      /\ \/ /\ IF q.route = "execute" THEN UNCHANGED file ELSE RecordStatus(q.id, q.sig)
            /\ Tell(q.route, q.step, q.sig)
         \/ Torn /\ UNCHANGED <<file, told>>
      /\ call' = [call EXCEPT ![c] = Idle]
      /\ UNCHANGED <<step, run, plan, boots>>

\* A deadline passes, and the cleanup timer or the next execute drops the artifact.
Expire(id) ==
  /\ artifact[id] = "open"
  /\ Ledger!Retire({}, {id})
  /\ UNCHANGED <<step, executed, run, plan, file, call, told, boots>>

-----------------------------------------------------------------------------
(* retry_v0: the step of plan.json, without dependsOn and without the cap.   *)

RetryBegin(c, s) ==
  /\ Retries /\ Free(c) /\ plan
  /\ call' = [call EXCEPT ![c] = [Idle EXCEPT !.pc = "building", !.step = s]]
  /\ UNCHANGED <<ledgerVars, step, executed, run, plan, file, told, boots>>

RetryError(c) ==
  /\ call[c].pc = "building"
  /\ call' = [call EXCEPT ![c] = Idle]
  /\ UNCHANGED <<ledgerVars, step, executed, run, plan, file, told, boots>>

\* Mutant of RetryFinish: the entry starts afresh.
RetryFinishAfresh(c, id) ==
  LET s == call[c].step
  IN  /\ call[c].pc = "building"
      /\ Ledger!Open(id)
      /\ step' = [step EXCEPT ![id] = s]
      /\ Written(Patched("needs_confirm", s, [state |-> "prepared", id |-> id, sig |-> None]))
      /\ call' = [call EXCEPT ![c] = Idle]
      /\ UNCHANGED <<executed, run, plan, told, boots>>

\* The entry of the step keeps the fields the retry does not set: its signature.
RetryFinish(c, id) ==
  LET s == call[c].step
  IN  /\ call[c].pc = "building"
      /\ Ledger!Open(id)
      /\ step' = [step EXCEPT ![id] = s]
      /\ \/ Written(Patched("needs_confirm", s,
                            [state |-> "prepared", id |-> id, sig |-> KnownSig(s)]))
         \/ Botched
      /\ call' = [call EXCEPT ![c] = Idle]
      /\ UNCHANGED <<executed, run, plan, told, boots>>

\* The process dies: the prepared map and the handlers are gone, executed.json has
\* at most what was in memory, and a write may have been cut off.
Restart ==
  /\ boots < MaxBoots /\ boots' = boots + 1
  /\ Ledger!Retire(Callers, {id \in Ids : artifact[id] = "open"})
  /\ \E lost \in SUBSET Ids :
       executed' = [id \in Ids |-> IF id \in lost THEN None ELSE executed[id]]
  /\ run' = IF run.pc = "running" THEN [run EXCEPT !.pc = "ended"] ELSE run
  /\ call' = [c \in Callers |-> Idle]
  /\ file' = file \/ Botched
  /\ UNCHANGED <<step, plan, told>>

-----------------------------------------------------------------------------
Run == \/ RunStart \/ RunSkip \/ RunBuildFailed \/ RunEnds
       \/ \E id \in Ids, allowed \in BOOLEAN : RunPrepared(id, allowed)

Confirm(c) ==
  \/ \E s \in Steps : ConfirmKnown(c, s)
  \/ \E route \in Routes, s \in Steps, id \in Ids :
       ConfirmRepeated(c, route, s, id) \/ ConfirmAccepted(c, route, s, id)
  \/ \E hash \in Hashes : ConfirmLand(c, hash)
  \/ ConfirmError(c) \/ ConfirmRecord(c)

Retry(c) ==
  \/ \E s \in Steps : RetryBegin(c, s)
  \/ \E id \in Ids : RetryFinish(c, id)
  \/ RetryError(c)

Next ==
  \/ Run \/ Restart
  \/ \E c \in Callers : Confirm(c) \/ Retry(c)
  \/ \E id \in Ids : Expire(id)

Spec == Init /\ [][Next]_vars

-----------------------------------------------------------------------------
(* Properties.                                                               *)

TypeOK ==
  /\ artifact \in [Ids -> {"new", "open", "closed"}]
  /\ trying \in [Callers -> Ids \cup {None}]
  /\ landed \subseteq Signature
  /\ step \in [Ids -> Steps \cup {None}]
  /\ executed \in [Ids -> Signature \cup {None}]
  /\ run \in [pc: {"new", "running", "ended"}, next: Nat \ {0},
              results: [Steps -> Results \cup {None}]]
  /\ plan \in BOOLEAN
  /\ file \in StatusFile \cup {None}
  /\ call \in [Callers -> Call]
  /\ told \subseteq [step: Steps, sig: Signature]
  /\ boots \in Nat

\* What status.json says of a step is so: the signature it shows is on the chain and
\* belongs to the step, and a step marked executed names the artifact that was.
\* Retries may replace the entry while a confirmation of the old artifact is still
\* waiting for its answer.
EntryOK(s) ==
  LET e == Recorded[s]
  IN  e # None =>
        /\ e.id # None => step[e.id] = s
        /\ e.sig # None => e.sig \in landed /\ step[e.sig.id] = s
        /\ e.state = "executed" => e.sig # None /\ e.sig.id = e.id

StatusIsTrue == \A s \in Steps : EntryOK(s)

\* run_v0 offers a step for confirmation only when it has offered, with the policy's
\* consent, every step of the plan that step depends on, directly or not, and never
\* one above the cap or of a chain without a driver.
OffersInOrder ==
  \A s \in Steps : run.results[s] \in {"ready", "denied"} =>
    s \notin Refused /\ \A d \in DependsOn[s] : run.results[d] = "ready"

KeepsSignatures ==
  \A s \in Steps : KnownSig(s) # None /\ file' # None => KnownSig(s)' # None

\* A step once recorded as executed keeps a signature in status.json, whatever is
\* retried or confirmed later, unless the file itself is lost: this is all that
\* stops confirm_v0 from broadcasting the step again.
SignaturesAreKept == [][KeepsSignatures]_vars

\* "If already executed for this run+step, return idempotently" (daemon.ts,
\* confirm_v0): all the confirmations of one step that succeed return one signature.
SameAnswer == \A a, b \in told : a.step = b.step => a.sig = b.sig
=============================================================================
