-------------------------- MODULE WorkflowRunProofs --------------------------
(***************************************************************************)
(* For every plan, every number of handlers and every order of their       *)
(* steps: status.json tells the truth about what was broadcast, and run_v0 *)
(* offers the steps of a plan in the order of their dependencies.          *)
(***************************************************************************)
EXTENDS WorkflowRun, TLAPS

\* A preparedId was handed out for a step, or is new.
ArtifactOK == \A id \in Ids : artifact[id] # "new" <=> step[id] \in Steps

\* What a suspended confirmation or retry relies on when it resumes.
CallOK(c) ==
  LET q == call[c]
  IN  /\ q.pc = "building" => q.step \in Steps
      /\ q.pc \in {"trying", "landed"} =>
           /\ q.id \in Ids /\ q.step \in Steps /\ step[q.id] = q.step
           /\ trying[c] = q.id /\ q.route \in Routes
      /\ q.pc = "landed" => q.sig \in landed /\ q.sig.id = q.id

CallsOK == \A c \in Callers : CallOK(c)

ExecutedOK == \A id \in Ids : executed[id] # None => executed[id] \in landed /\ executed[id].id = id

Inv == TypeOK /\ ArtifactOK /\ CallsOK /\ StatusIsTrue

\* What no step takes away: a preparedId keeps its step, the chain its signatures.
Monotone == /\ \A id \in Ids : step[id] \in Steps => step'[id] = step[id]
            /\ landed \subseteq landed'

-----------------------------------------------------------------------------
(* Entries of status.json.                                                   *)

LEMMA RecordedType ==
  ASSUME TypeOK PROVE Recorded \in [Steps -> Entry \cup {None}]
  BY NoneAssumption DEF TypeOK, Recorded, StatusFile, NoSteps

\* Writing one entry leaves the others as they were.
LEMMA PatchedType ==
  ASSUME TypeOK, NEW state \in {"preparing", "needs_confirm", "failed", "executed"},
         NEW s \in Steps, NEW e \in Entry
  PROVE  /\ Patched(state, s, e) \in StatusFile
         /\ Patched(state, s, e) # None
         /\ Patched(state, s, e).steps[s] = e
         /\ \A t \in Steps \ {s} : Patched(state, s, e).steps[t] = Recorded[t]
<1>1. Recorded \in [Steps -> Entry \cup {None}]
  BY RecordedType
<1>2. Patched(state, s, e) \in StatusFile
  BY <1>1 DEF Patched, StatusFile
<1>. QED BY <1>1, <1>2, NoneAssumption DEF Patched

LEMMA KnownTypes ==
  ASSUME TypeOK, NEW s \in Steps
  PROVE  KnownSig(s) \in Signature \cup {None} /\ KnownId(s) \in Ids \cup {None}
  BY RecordedType DEF KnownSig, KnownId, Entry

\* A write that is not done, or destroys the file.
LEMMA LostWrite ==
  ASSUME TypeOK, StatusIsTrue, Monotone, file' \in {file, None}
  PROVE  StatusIsTrue'
<1> SUFFICES ASSUME NEW s \in Steps PROVE EntryOK(s)'
  BY DEF StatusIsTrue
<1>1. CASE file' = None
  BY <1>1 DEF EntryOK, Recorded, NoSteps
<1>2. CASE file' = file
  <2>1. Recorded' = Recorded
    BY <1>2 DEF Recorded
  <2>2. Recorded[s] \in Entry \cup {None}
    BY RecordedType
  <2>3. EntryOK(s)
    BY DEF StatusIsTrue
  <2>. QED BY <2>1, <2>2, <2>3, NoneAssumption DEF EntryOK, Entry, Monotone, Signature
<1>. QED BY <1>1, <1>2

\* A write of one entry that is true itself.
LEMMA TrueWrite ==
  ASSUME TypeOK, StatusIsTrue, Monotone,
         NEW state \in {"preparing", "needs_confirm", "failed", "executed"},
         NEW s \in Steps, NEW e \in Entry, file' = Patched(state, s, e),
         e.id # None => step'[e.id] = s,
         e.sig # None => e.sig \in landed' /\ step'[e.sig.id] = s,
         e.state = "executed" => e.sig # None /\ e.sig.id = e.id
  PROVE  StatusIsTrue'
<1>1. Recorded'[s] = e /\ \A t \in Steps \ {s} : Recorded'[t] = Recorded[t]
  BY PatchedType DEF Recorded
<1>2. EntryOK(s)'
  BY <1>1 DEF EntryOK
<1>3. ASSUME NEW t \in Steps \ {s} PROVE EntryOK(t)'
  <2>1. Recorded[t] \in Entry \cup {None}
    BY RecordedType
  <2>2. EntryOK(t)
    BY DEF StatusIsTrue
  <2>. QED BY <1>1, <2>1, <2>2, NoneAssumption DEF EntryOK, Entry, Monotone, Signature
<1>. QED BY <1>2, <1>3 DEF StatusIsTrue

-----------------------------------------------------------------------------
(* Types.                                                                    *)

\* The ledger's steps keep the types of its variables.
LedgerTypeOK ==
  /\ artifact \in [Ids -> {"new", "open", "closed"}]
  /\ trying \in [Callers -> Ids \cup {None}]
  /\ landed \subseteq Signature

LEMMA LedgerTypes ==
  ASSUME LedgerTypeOK
  PROVE  /\ \A id \in Ids : Ledger!Open(id) => LedgerTypeOK'
         /\ \A c \in Callers, id \in Ids : Ledger!Try(c, id) => LedgerTypeOK'
         /\ \A c \in Callers, hash \in Hashes : Ledger!Land(c, hash) => LedgerTypeOK'
         /\ \A cs \in SUBSET Callers, ids \in SUBSET Ids : Ledger!Retire(cs, ids) => LedgerTypeOK'
<1>1. ASSUME NEW id \in Ids, Ledger!Open(id) PROVE LedgerTypeOK'
  BY <1>1 DEF LedgerTypeOK, Ledger!Open
<1>2. ASSUME NEW c \in Callers, NEW id \in Ids, Ledger!Try(c, id) PROVE LedgerTypeOK'
  BY <1>2 DEF LedgerTypeOK, Ledger!Try
<1>3. ASSUME NEW c \in Callers, NEW hash \in Hashes, Ledger!Land(c, hash) PROVE LedgerTypeOK'
  <2>1. trying[c] \in Ids
    BY <1>3 DEF LedgerTypeOK, Ledger!Land
  <2>. QED BY <1>3, <2>1 DEF LedgerTypeOK, Ledger!Land, Signature
<1>4. ASSUME NEW cs \in SUBSET Callers, NEW ids \in SUBSET Ids, Ledger!Retire(cs, ids)
      PROVE LedgerTypeOK'
  BY <1>4 DEF LedgerTypeOK, Ledger!Retire
<1>. QED BY <1>1, <1>2, <1>3, <1>4

LEMMA IdleType == Idle \in Call
  BY DEF Idle, Call

\* The entries the handlers write are entries.
LEMMA EntryTypes ==
  ASSUME TypeOK, NEW s \in Steps, NEW id \in Ids, NEW sig \in Signature
  PROVE  /\ [state |-> "failed", id |-> None, sig |-> None] \in Entry
         /\ [state |-> "prepared", id |-> id, sig |-> None] \in Entry
         /\ [state |-> "prepared", id |-> id, sig |-> KnownSig(s)] \in Entry
         /\ Recorded[s] # None =>
              /\ [Recorded[s] EXCEPT !.state = "executed", !.sig = sig] \in Entry
              /\ Recorded[s].id = KnownId(s)
  BY KnownTypes, RecordedType DEF Entry, KnownId

LEMMA RunTypes ==
  ASSUME TypeOK, Run PROVE TypeOK'
<1> USE DEF ledgerVars
<1>1. LedgerTypeOK
  BY DEF TypeOK, LedgerTypeOK
<1>2. CASE RunStart
  <2>1. [run |-> "preparing", steps |-> NoSteps] \in StatusFile
    BY DEF StatusFile, NoSteps
  <2>. QED BY <1>2, <2>1 DEF RunStart, TypeOK, Written, Botched
<1>3. ASSUME Running, NEW result \in Results, Proceed(result)
      PROVE run' \in [pc: {"new", "running", "ended"}, next: Nat \ {0},
                       results: [Steps -> Results \cup {None}]]
  <2>1. Order[run.next] \in Steps
    BY <1>3, PlanAssumption DEF Running
  <2> DEFINE results == [run.results EXCEPT ![Order[run.next]] = result]
  <2>2. results \in [Steps -> Results \cup {None}]
    BY <1>3, <2>1 DEF TypeOK
  <2>3. run.next + 1 \in Nat \ {0}
    BY DEF TypeOK
  <2>4. run' = [run EXCEPT !.next = run.next + 1, !.results = results]
    BY <1>3 DEF Proceed, TypeOK
  <2> HIDE DEF results
  <2>. QED BY <2>2, <2>3, <2>4 DEF TypeOK
<1>4. CASE RunSkip
  BY <1>3, <1>4 DEF RunSkip, TypeOK, Results
<1>5. CASE RunEnds
  BY <1>5 DEF RunEnds, TypeOK
<1>6. ASSUME Running PROVE Order[run.next] \in Steps
  BY <1>6, PlanAssumption DEF Running
<1>7. CASE RunBuildFailed
  <2> DEFINE e == [state |-> "failed", id |-> None, sig |-> None]
  <2>1. Patched("failed", Order[run.next], e) \in StatusFile
    <3>1. e \in Entry
      BY DEF Entry
    <3>. QED BY <1>6, <1>7, <3>1, PatchedType DEF RunBuildFailed, Preparing
  <2>2. file' \in StatusFile \cup {None}
    BY <1>7, <2>1 DEF RunBuildFailed, Written, Botched, TypeOK
  <2>3. run' \in [pc: {"new", "running", "ended"}, next: Nat \ {0},
                  results: [Steps -> Results \cup {None}]]
    BY <1>3, <1>7 DEF RunBuildFailed, Preparing, Results, TypeOK
  <2>. QED BY <1>7, <2>2, <2>3 DEF RunBuildFailed, TypeOK
<1>8. ASSUME NEW id \in Ids, NEW allowed \in BOOLEAN, RunPrepared(id, allowed) PROVE TypeOK'
  <2> DEFINE e == [state |-> "prepared", id |-> id, sig |-> None]
  <2>0. Order[run.next] \in Steps
    BY <1>6, <1>8 DEF RunPrepared, Preparing
  <2>1. Patched("needs_confirm", Order[run.next], e) \in StatusFile
    <3>1. e \in Entry
      BY DEF Entry
    <3>. QED BY <2>0, <3>1, PatchedType
  <2>2. file' \in StatusFile \cup {None}
    BY <1>8, <2>1 DEF RunPrepared, Written, Botched, TypeOK
  <2>3. run' \in [pc: {"new", "running", "ended"}, next: Nat \ {0},
                  results: [Steps -> Results \cup {None}]]
    BY <1>3, <1>8 DEF RunPrepared, Preparing, Results, TypeOK
  <2>4. LedgerTypeOK'
    BY <1>1, <1>8, LedgerTypes DEF RunPrepared
  <2>5. step' \in [Ids -> Steps \cup {None}]
    BY <1>8, <2>0 DEF RunPrepared, TypeOK
  <2>. QED BY <1>8, <2>2, <2>3, <2>4, <2>5 DEF RunPrepared, TypeOK, LedgerTypeOK
<1>. QED BY <1>2, <1>4, <1>5, <1>7, <1>8 DEF Run

LEMMA RecordStatusType ==
  ASSUME TypeOK, NEW id \in Ids, NEW sig \in Signature, RecordStatus(id, sig)
  PROVE  file' \in StatusFile \cup {None}
<1>1. CASE \E s \in Steps : KnownId(s) = id
  <2> DEFINE s == CHOOSE s \in Steps : KnownId(s) = id
             e == [Recorded[s] EXCEPT !.state = "executed", !.sig = sig]
  <2>1. s \in Steps /\ KnownId(s) = id
    BY <1>1
  <2>2. Recorded[s] # None
    BY <2>1, NoneAssumption DEF KnownId
  <2>3. Patched("executed", s, e) \in StatusFile
    BY <2>1, <2>2, EntryTypes, PatchedType
  <2>. QED BY <1>1, <2>3 DEF RecordStatus, Written, Botched, TypeOK
<1>2. CASE ~(\E s \in Steps : KnownId(s) = id)
  BY <1>2 DEF RecordStatus, TypeOK
<1>. QED BY <1>1, <1>2

LEMMA ConfirmTypes ==
  ASSUME TypeOK, NEW c \in Callers, CallOK(c), Confirm(c) PROVE TypeOK'
<1> USE DEF ledgerVars
<1>1. LedgerTypeOK
  BY DEF TypeOK, LedgerTypeOK
<1>2. ASSUME NEW s \in Steps, ConfirmKnown(c, s) PROVE TypeOK'
  <2>1. KnownSig(s) \in Signature
    BY <1>2, KnownTypes DEF ConfirmKnown
  <2>. QED BY <1>2, <2>1 DEF ConfirmKnown, Tell, TypeOK
<1>3. ASSUME NEW route \in Routes, NEW s \in Steps, NEW id \in Ids, ConfirmRepeated(c, route, s, id)
      PROVE TypeOK'
  <2>1. executed[id] \in Signature
    BY <1>3 DEF ConfirmRepeated, TypeOK
  <2>. QED BY <1>3, <2>1 DEF ConfirmRepeated, Tell, TypeOK
<1>4. ASSUME NEW route \in Routes, NEW s \in Steps, NEW id \in Ids, ConfirmAccepted(c, route, s, id)
      PROVE TypeOK'
  <2>1. LedgerTypeOK'
    BY <1>1, <1>4, LedgerTypes DEF ConfirmAccepted
  <2>2. call' \in [Callers -> Call]
    BY <1>4 DEF ConfirmAccepted, TypeOK, Call, Idle
  <2>. QED BY <1>4, <2>1, <2>2 DEF ConfirmAccepted, TypeOK, LedgerTypeOK
<1>5. ASSUME NEW hash \in Hashes, ConfirmLand(c, hash) PROVE TypeOK'
  <2>1. LedgerTypeOK'
    BY <1>1, <1>5, LedgerTypes DEF ConfirmLand
  <2>2. call[c].id \in Ids
    BY <1>5 DEF ConfirmLand, CallOK
  <2>3. call' \in [Callers -> Call]
    <3> DEFINE sig == [id |-> call[c].id, hash |-> hash]
               q == [call[c] EXCEPT !.pc = "landed", !.sig = sig]
    <3>1. sig \in Signature
      BY <2>2 DEF Signature
    <3>2. q \in Call
      <4> HIDE DEF sig
      <4>1. call[c] \in Call
        BY DEF TypeOK
      <4>. QED BY <3>1, <4>1 DEF Call
    <3>3. call' = [call EXCEPT ![c] = q]
      BY <1>5 DEF ConfirmLand, TypeOK
    <3>. QED BY <3>2, <3>3 DEF TypeOK
  <2>. QED BY <1>5, <2>1, <2>3 DEF ConfirmLand, TypeOK, LedgerTypeOK
<1>6. CASE ConfirmError(c)
  <2>1. LedgerTypeOK'
    BY <1>1, <1>6, LedgerTypes DEF ConfirmError
  <2>2. call' \in [Callers -> Call]
    BY <1>6, IdleType DEF ConfirmError, TypeOK
  <2>. QED BY <1>6, <2>1, <2>2 DEF ConfirmError, TypeOK, LedgerTypeOK
<1>7. CASE ConfirmRecord(c)
  <2> DEFINE q == call[c]
  <2>1. q.id \in Ids /\ q.step \in Steps /\ q.sig \in Signature
    BY <1>7 DEF ConfirmRecord, CallOK, TypeOK
  <2>2. LedgerTypeOK'
    BY <1>1, <1>7, LedgerTypes DEF ConfirmRecord
  <2>3. call' \in [Callers -> Call]
    BY <1>7, IdleType DEF ConfirmRecord, TypeOK
  <2>4. file' \in StatusFile \cup {None}
    BY <1>7, <2>1, RecordStatusType DEF ConfirmRecord, TypeOK
  <2>5. executed' \in [Ids -> Signature \cup {None}] /\ told' \subseteq [step: Steps, sig: Signature]
    BY <1>7, <2>1 DEF ConfirmRecord, Tell, TypeOK
  <2>. QED BY <1>7, <2>2, <2>3, <2>4, <2>5 DEF ConfirmRecord, TypeOK, LedgerTypeOK
<1>. QED BY <1>2, <1>3, <1>4, <1>5, <1>6, <1>7 DEF Confirm

LEMMA RetryTypes ==
  ASSUME TypeOK, NEW c \in Callers, CallOK(c), Retry(c) PROVE TypeOK'
<1> USE DEF ledgerVars
<1>1. ASSUME NEW s \in Steps, RetryBegin(c, s) PROVE TypeOK'
  <2>1. call' \in [Callers -> Call]
    BY <1>1 DEF RetryBegin, TypeOK, Call, Idle
  <2>. QED BY <1>1, <2>1 DEF RetryBegin, TypeOK
<1>2. CASE RetryError(c)
  <2>1. call' \in [Callers -> Call]
    BY <1>2, IdleType DEF RetryError, TypeOK
  <2>. QED BY <1>2, <2>1 DEF RetryError, TypeOK
<1>3. ASSUME NEW id \in Ids, RetryFinish(c, id) PROVE TypeOK'
  <2> DEFINE s == call[c].step
             e == [state |-> "prepared", id |-> id, sig |-> KnownSig(s)]
  <2>1. s \in Steps
    BY <1>3 DEF RetryFinish, CallOK
  <2>2. Patched("needs_confirm", s, e) \in StatusFile
    <3>1. e \in Entry
      BY <2>1, KnownTypes DEF Entry
    <3>. QED BY <2>1, <3>1, PatchedType
  <2>3. LedgerTypeOK'
    BY <1>3, LedgerTypes DEF RetryFinish, TypeOK, LedgerTypeOK
  <2>4. call' \in [Callers -> Call] /\ step' \in [Ids -> Steps \cup {None}]
    BY <1>3, <2>1, IdleType DEF RetryFinish, TypeOK
  <2>5. file' \in StatusFile \cup {None}
    BY <1>3, <2>2 DEF RetryFinish, Written, Botched, TypeOK
  <2>. QED BY <1>3, <2>3, <2>4, <2>5 DEF RetryFinish, TypeOK, LedgerTypeOK
<1>. QED BY <1>1, <1>2, <1>3 DEF Retry

LEMMA RestartTypes ==
  ASSUME TypeOK, Restart PROVE TypeOK'
<1>1. LedgerTypeOK'
  BY LedgerTypes DEF Restart, TypeOK, LedgerTypeOK
<1>2. call' \in [Callers -> Call] /\ file' \in StatusFile \cup {None} /\ boots' \in Nat
  BY IdleType DEF Restart, Botched, TypeOK
<1>3. executed' \in [Ids -> Signature \cup {None}]
  BY DEF Restart, TypeOK
<1>4. run' \in [pc: {"new", "running", "ended"}, next: Nat \ {0},
                results: [Steps -> Results \cup {None}]]
  BY DEF Restart, TypeOK
<1>. QED BY <1>1, <1>2, <1>3, <1>4 DEF Restart, TypeOK, LedgerTypeOK

LEMMA TypeStep ==
  ASSUME TypeOK, CallsOK, [Next]_vars PROVE TypeOK'
<1>1. CASE Run
  BY <1>1, RunTypes
<1>2. ASSUME NEW c \in Callers, Confirm(c) PROVE TypeOK'
  BY <1>2, ConfirmTypes DEF CallsOK
<1>3. ASSUME NEW c \in Callers, Retry(c) PROVE TypeOK'
  BY <1>3, RetryTypes DEF CallsOK
<1>4. CASE Restart
  BY <1>4, RestartTypes
<1>5. ASSUME NEW id \in Ids, Expire(id) PROVE TypeOK'
  <2>1. LedgerTypeOK'
    BY <1>5, LedgerTypes DEF Expire, TypeOK, LedgerTypeOK
  <2>. QED BY <1>5, <2>1 DEF Expire, TypeOK, LedgerTypeOK
<1>6. CASE UNCHANGED vars
  BY <1>6 DEF vars, TypeOK
<1>. QED BY <1>1, <1>2, <1>3, <1>4, <1>5, <1>6 DEF Next

-----------------------------------------------------------------------------
(* Artifacts, the chain and the suspended handlers.                          *)

\* Only two actions open an artifact; every other step leaves the preparedIds alone.
Opens(id, s) == /\ Ledger!Open(id) /\ s \in Steps
                /\ step' = [step EXCEPT ![id] = s]

LEMMA OpenOrKeep ==
  ASSUME TypeOK, CallsOK, [Next]_vars
  PROVE  \/ \E id \in Ids, s \in Steps : Opens(id, s)
         \/ /\ step' = step
            /\ \A id \in Ids : artifact'[id] = "new" <=> artifact[id] = "new"
            /\ landed \subseteq landed'
<1> DEFINE Keep == /\ step' = step
                   /\ \A id \in Ids : artifact'[id] = "new" <=> artifact[id] = "new"
                   /\ landed \subseteq landed'
           Open == \E id \in Ids, s \in Steps : Opens(id, s)
<1> SUFFICES Open \/ Keep
  OBVIOUS
<1>1. ASSUME NEW cs \in SUBSET Callers, NEW ids \in SUBSET Ids, Ledger!Retire(cs, ids), step' = step
      PROVE Keep
  BY <1>1 DEF Ledger!Retire, TypeOK
<1>2. ASSUME NEW c \in Callers, Confirm(c) PROVE Keep
  <2>1. ASSUME NEW s \in Steps, ConfirmKnown(c, s) PROVE Keep
    BY <2>1 DEF ConfirmKnown, ledgerVars
  <2>2. ASSUME NEW route \in Routes, NEW s \in Steps, NEW id \in Ids,
               ConfirmRepeated(c, route, s, id) PROVE Keep
    BY <2>2 DEF ConfirmRepeated, ledgerVars
  <2>3. ASSUME NEW route \in Routes, NEW s \in Steps, NEW id \in Ids,
               ConfirmAccepted(c, route, s, id) PROVE Keep
    BY <2>3 DEF ConfirmAccepted, Ledger!Try
  <2>4. ASSUME NEW hash \in Hashes, ConfirmLand(c, hash) PROVE Keep
    BY <2>4 DEF ConfirmLand, Ledger!Land
  <2>5. CASE ConfirmError(c)
    BY <2>5, <1>1 DEF ConfirmError
  <2>6. CASE ConfirmRecord(c)
    <3>1. {call[c].id} \cap {id \in Ids : artifact[id] = "open"} \in SUBSET Ids
      OBVIOUS
    <3>. QED BY <2>6, <1>1, <3>1 DEF ConfirmRecord
  <2>. QED BY <1>2, <2>1, <2>2, <2>3, <2>4, <2>5, <2>6 DEF Confirm
<1>3. ASSUME NEW c \in Callers, Retry(c) PROVE Open \/ Keep
  <2>1. ASSUME NEW s \in Steps, RetryBegin(c, s) PROVE Keep
    BY <2>1 DEF RetryBegin, ledgerVars
  <2>2. CASE RetryError(c)
    BY <2>2 DEF RetryError, ledgerVars
  <2>3. ASSUME NEW id \in Ids, RetryFinish(c, id) PROVE Open
    <3>1. call[c].step \in Steps
      BY <2>3 DEF RetryFinish, CallsOK, CallOK
    <3>. QED BY <2>3, <3>1 DEF RetryFinish, Opens
  <2>. QED BY <1>3, <2>1, <2>2, <2>3 DEF Retry
<1>4. CASE Run
  <2>1. ASSUME NEW id \in Ids, NEW allowed \in BOOLEAN, RunPrepared(id, allowed) PROVE Open
    <3>1. Order[run.next] \in Steps
      BY <2>1, PlanAssumption DEF RunPrepared, Preparing, Running
    <3>. QED BY <2>1, <3>1 DEF RunPrepared, Opens
  <2>2. CASE RunStart \/ RunSkip \/ RunBuildFailed \/ RunEnds
    BY <2>2 DEF RunStart, RunSkip, RunBuildFailed, RunEnds, ledgerVars
  <2>. QED BY <1>4, <2>1, <2>2 DEF Run
<1>5. CASE Restart
  BY <1>5, <1>1 DEF Restart
<1>6. ASSUME NEW id \in Ids, Expire(id) PROVE Keep
  BY <1>6, <1>1 DEF Expire
<1>7. CASE UNCHANGED vars
  BY <1>7 DEF vars
<1>. QED BY <1>2, <1>3, <1>4, <1>5, <1>6, <1>7 DEF Next

LEMMA ArtifactStep ==
  ASSUME TypeOK, CallsOK, ArtifactOK, [Next]_vars
  PROVE  ArtifactOK' /\ Monotone
<1>1. ASSUME NEW id \in Ids, NEW s \in Steps, Opens(id, s) PROVE ArtifactOK' /\ Monotone
  BY <1>1 DEF Opens, Ledger!Open, ArtifactOK, Monotone, TypeOK
<1>2. CASE /\ step' = step
           /\ \A id \in Ids : artifact'[id] = "new" <=> artifact[id] = "new"
           /\ landed \subseteq landed'
  BY <1>2 DEF ArtifactOK, Monotone
<1>. QED BY <1>1, <1>2, OpenOrKeep

LEMMA CallFrame ==
  ASSUME TypeOK, NEW c \in Callers, CallOK(c), Monotone,
         call'[c] = call[c], trying'[c] = trying[c]
  PROVE  CallOK(c)'
  BY DEF CallOK, Monotone

LEMMA IdleCall == ASSUME NEW c \in Callers, call'[c] = Idle PROVE CallOK(c)'
  BY DEF CallOK, Idle

\* An artifact named by its step is the one status.json shows for the step.
LEMMA NamedStep ==
  ASSUME TypeOK, StatusIsTrue, NEW route \in Routes, NEW s \in Steps, NEW id \in Ids,
         Named(route, s, id)
  PROVE  step[id] = s
<1>1. CASE route = "step"
  <2>1. id = KnownId(s) /\ id # None
    BY <1>1 DEF Named
  <2>. QED BY <2>1 DEF KnownId, StatusIsTrue, EntryOK
<1>. QED BY <1>1 DEF Named

LEMMA CallStep ==
  ASSUME Inv, Monotone, [Next]_vars PROVE CallsOK'
<1> USE DEF Inv, ledgerVars
<1> SUFFICES ASSUME NEW d \in Callers PROVE CallOK(d)'
  BY DEF CallsOK
<1>0. CallOK(d)
  BY DEF CallsOK
<1>1. ASSUME call'[d] = call[d], trying'[d] = trying[d] PROVE CallOK(d)'
  BY <1>0, <1>1, CallFrame
<1>2. ASSUME NEW c \in Callers, Confirm(c) PROVE CallOK(d)'
  <2>1. ASSUME NEW s \in Steps, ConfirmKnown(c, s) PROVE CallOK(d)'
    BY <1>1, <2>1 DEF ConfirmKnown
  <2>2. ASSUME NEW route \in Routes, NEW s \in Steps, NEW id \in Ids,
               ConfirmRepeated(c, route, s, id) PROVE CallOK(d)'
    BY <1>1, <2>2 DEF ConfirmRepeated
  <2>3. ASSUME NEW route \in Routes, NEW s \in Steps, NEW id \in Ids,
               ConfirmAccepted(c, route, s, id) PROVE CallOK(d)'
    <3>1. CASE d # c
      BY <1>1, <2>3, <3>1 DEF ConfirmAccepted, Ledger!Try, TypeOK
    <3>2. CASE d = c
      <4>1. step[id] = s /\ step' = step /\ trying'[c] = id
        BY <2>3, NamedStep DEF ConfirmAccepted, Ledger!Try, TypeOK
      <4>2. call'[c] = [Idle EXCEPT !.pc = "trying", !.route = route, !.step = s, !.id = id]
        BY <2>3 DEF ConfirmAccepted, TypeOK
      <4>. QED BY <3>2, <4>1, <4>2 DEF CallOK, Idle
    <3>. QED BY <3>1, <3>2
  <2>4. ASSUME NEW hash \in Hashes, ConfirmLand(c, hash) PROVE CallOK(d)'
    <3>1. CASE d # c
      BY <1>1, <2>4, <3>1 DEF ConfirmLand, Ledger!Land, TypeOK
    <3>2. CASE d = c
      <4>1. step' = step /\ trying' = trying
        BY <2>4 DEF ConfirmLand, Ledger!Land
      <4>2. [id |-> call[c].id, hash |-> hash] \in landed'
        BY <1>0, <2>4, <3>2 DEF ConfirmLand, Ledger!Land, CallOK
      <4>3. call'[c] = [call[c] EXCEPT !.pc = "landed", !.sig = [id |-> call[c].id, hash |-> hash]]
        BY <2>4 DEF ConfirmLand, TypeOK
      <4>4. call[c] \in Call /\ call[c].pc = "trying"
        BY <2>4 DEF ConfirmLand, TypeOK
      <4>. QED BY <1>0, <3>2, <4>1, <4>2, <4>3, <4>4 DEF CallOK, Call
    <3>. QED BY <3>1, <3>2
  <2>5. CASE ConfirmError(c)
    <3>1. CASE d # c
      BY <1>1, <2>5, <3>1 DEF ConfirmError, Ledger!Retire, TypeOK
    <3>. QED BY <2>5, <3>1, IdleCall DEF ConfirmError, TypeOK
  <2>6. CASE ConfirmRecord(c)
    <3>1. CASE d # c
      BY <1>1, <2>6, <3>1 DEF ConfirmRecord, Ledger!Retire, TypeOK
    <3>. QED BY <2>6, <3>1, IdleCall DEF ConfirmRecord, TypeOK
  <2>. QED BY <1>2, <2>1, <2>2, <2>3, <2>4, <2>5, <2>6 DEF Confirm
<1>3. ASSUME NEW c \in Callers, Retry(c) PROVE CallOK(d)'
  <2>1. ASSUME NEW s \in Steps, RetryBegin(c, s) PROVE CallOK(d)'
    <3>1. CASE d # c
      BY <1>1, <2>1, <3>1 DEF RetryBegin, TypeOK
    <3>2. call'[c] = [Idle EXCEPT !.pc = "building", !.step = s]
      BY <2>1 DEF RetryBegin, TypeOK
    <3>. QED BY <3>1, <3>2 DEF CallOK, Idle
  <2>2. CASE RetryError(c)
    <3>1. CASE d # c
      BY <1>1, <2>2, <3>1 DEF RetryError, TypeOK
    <3>. QED BY <2>2, <3>1, IdleCall DEF RetryError, TypeOK
  <2>3. ASSUME NEW id \in Ids, RetryFinish(c, id) PROVE CallOK(d)'
    <3>1. CASE d # c
      BY <1>1, <2>3, <3>1 DEF RetryFinish, Ledger!Open, TypeOK
    <3>. QED BY <2>3, <3>1, IdleCall DEF RetryFinish, TypeOK
  <2>. QED BY <1>3, <2>1, <2>2, <2>3 DEF Retry
<1>4. CASE Run
  BY <1>1, <1>4 DEF Run, RunStart, RunSkip, RunBuildFailed, RunEnds, RunPrepared, Ledger!Open
<1>5. CASE Restart
  BY <1>5, IdleCall DEF Restart
<1>6. ASSUME NEW id \in Ids, Expire(id) PROVE CallOK(d)'
  BY <1>1, <1>6 DEF Expire, Ledger!Retire, TypeOK
<1>7. CASE UNCHANGED vars
  BY <1>1, <1>7 DEF vars
<1>. QED BY <1>2, <1>3, <1>4, <1>5, <1>6, <1>7 DEF Next

-----------------------------------------------------------------------------
(* status.json.                                                              *)

LEMMA StatusStep ==
  ASSUME Inv, Monotone, [Next]_vars PROVE StatusIsTrue'
<1> USE DEF Inv
<1>1. ASSUME file' \in {file, None} PROVE StatusIsTrue'
  BY <1>1, LostWrite
<1>2. CASE RunStart
  <2>1. CASE file' = [run |-> "preparing", steps |-> NoSteps]
    <3>1. Recorded' = NoSteps
      BY <2>1 DEF Recorded, NoSteps
    <3>. QED BY <3>1 DEF StatusIsTrue, EntryOK, NoSteps
  <2>. QED BY <1>1, <1>2, <2>1 DEF RunStart, Written, Botched
<1>3. CASE RunBuildFailed
  <2> DEFINE s == Order[run.next]
             e == [state |-> "failed", id |-> None, sig |-> None]
  <2>1. s \in Steps
    BY <1>3, PlanAssumption DEF RunBuildFailed, Preparing, Running
  <2>2. CASE file' = Patched("failed", s, e)
    <3>1. e \in Entry
      BY DEF Entry
    <3>. QED BY <2>1, <2>2, <3>1, TrueWrite
  <2>. QED BY <1>1, <1>3, <2>2 DEF RunBuildFailed, Written, Botched
<1>4. ASSUME NEW id \in Ids, NEW allowed \in BOOLEAN, RunPrepared(id, allowed)
      PROVE StatusIsTrue'
  <2> DEFINE s == Order[run.next]
             e == [state |-> "prepared", id |-> id, sig |-> None]
  <2>1. s \in Steps
    BY <1>4, PlanAssumption DEF RunPrepared, Preparing, Running
  <2>2. CASE file' = Patched("needs_confirm", s, e)
    <3>1. e \in Entry
      BY DEF Entry
    <3>2. step'[id] = s
      BY <1>4 DEF RunPrepared, TypeOK
    <3>. QED BY <2>1, <2>2, <3>1, <3>2, TrueWrite
  <2>. QED BY <1>1, <1>4, <2>2 DEF RunPrepared, Written, Botched
<1>5. ASSUME NEW c \in Callers, ConfirmRecord(c) PROVE StatusIsTrue'
  <2> DEFINE q == call[c]
             s == CHOOSE s \in Steps : KnownId(s) = q.id
             e == [Recorded[s] EXCEPT !.state = "executed", !.sig = q.sig]
  <2>1. /\ q.id \in Ids /\ q.sig \in Signature /\ q.sig \in landed /\ q.sig.id = q.id
        /\ landed' = landed /\ step' = step
    BY <1>5 DEF ConfirmRecord, CallsOK, CallOK, TypeOK, Ledger!Retire
  <2>2. CASE RecordStatus(q.id, q.sig) /\ \E t \in Steps : KnownId(t) = q.id
    <3>1. s \in Steps /\ KnownId(s) = q.id
      BY <2>2
    <3>2. Recorded[s] # None
      BY <2>1, <3>1, NoneAssumption DEF KnownId
    <3>3. e \in Entry /\ Recorded[s].id = q.id /\ Recorded[s] \in Entry
      BY <2>1, <3>1, <3>2, EntryTypes, RecordedType
    <3>4. e.id = q.id /\ e.sig = q.sig
      BY <3>3 DEF Entry
    <3>5. step[q.id] = s
      BY <2>1, <3>1, <3>2, <3>3, NoneAssumption DEF StatusIsTrue, EntryOK
    <3>6. CASE file' = Patched("executed", s, e)
      <4> HIDE DEF s, e, q
      <4>. QED BY <2>1, <3>1, <3>3, <3>4, <3>5, <3>6, NoneAssumption, TrueWrite
    <3>. QED BY <1>1, <2>2, <3>6 DEF RecordStatus, Written, Botched
  <2>3. CASE RecordStatus(q.id, q.sig) /\ ~(\E t \in Steps : KnownId(t) = q.id)
    BY <1>1, <2>3 DEF RecordStatus
  <2>4. CASE UNCHANGED file
    BY <1>1, <2>4
  <2>. QED BY <1>5, <2>2, <2>3, <2>4 DEF ConfirmRecord
<1>6. ASSUME NEW c \in Callers, NEW id \in Ids, RetryFinish(c, id) PROVE StatusIsTrue'
  <2> DEFINE s == call[c].step
             e == [state |-> "prepared", id |-> id, sig |-> KnownSig(s)]
  <2>1. s \in Steps
    BY <1>6 DEF RetryFinish, CallsOK, CallOK
  <2>2. CASE file' = Patched("needs_confirm", s, e)
    <3>1. e \in Entry
      BY <2>1, KnownTypes DEF Entry
    <3>2. step'[id] = s
      BY <1>6 DEF RetryFinish, TypeOK
    <3>3. KnownSig(s) # None =>
            KnownSig(s) \in landed' /\ step'[KnownSig(s).id] = s
      <4> SUFFICES ASSUME KnownSig(s) # None
                   PROVE  KnownSig(s) \in landed' /\ step'[KnownSig(s).id] = s
        OBVIOUS
      <4>1. KnownSig(s) \in landed /\ step[KnownSig(s).id] = s
        BY <2>1 DEF KnownSig, StatusIsTrue, EntryOK
      <4>2. KnownSig(s).id \in Ids
        BY <2>1, KnownTypes DEF Signature
      <4>. QED BY <2>1, <4>1, <4>2 DEF Monotone
    <3>. QED BY <2>1, <2>2, <3>1, <3>2, <3>3, TrueWrite
  <2>. QED BY <1>1, <1>6, <2>2 DEF RetryFinish, Written, Botched
<1>7. CASE Restart
  BY <1>1, <1>7 DEF Restart, Botched
<1>8. ASSUME NEW c \in Callers, Confirm(c), ~ConfirmRecord(c) PROVE StatusIsTrue'
  BY <1>1, <1>8 DEF Confirm, ConfirmKnown, ConfirmRepeated, ConfirmAccepted, ConfirmLand, ConfirmError
<1>9. ASSUME NEW c \in Callers, Retry(c), \A id \in Ids : ~RetryFinish(c, id) PROVE StatusIsTrue'
  BY <1>1, <1>9 DEF Retry, RetryBegin, RetryError
<1>10. CASE RunSkip \/ RunEnds \/ (\E id \in Ids : Expire(id)) \/ UNCHANGED vars
  BY <1>1, <1>10 DEF RunSkip, RunEnds, Expire, vars
<1>. QED BY <1>2, <1>3, <1>4, <1>5, <1>6, <1>7, <1>8, <1>9, <1>10 DEF Next, Run

\* The inductive invariant.
THEOREM StatusInvariant == Spec => []Inv
<1>1. Init => Inv
  <2> SUFFICES ASSUME Init PROVE Inv
    OBVIOUS
  <2> USE DEF Init, Ledger!Init
  <2>1. TypeOK
    <3>1. run \in [pc: {"new", "running", "ended"}, next: Nat \ {0},
                  results: [Steps -> Results \cup {None}]]
      BY DEF NoSteps
    <3>2. call \in [Callers -> Call]
      BY IdleType
    <3>. QED BY <3>1, <3>2 DEF TypeOK
  <2>2. ArtifactOK
    BY NoneAssumption DEF ArtifactOK
  <2>3. CallsOK
    BY DEF CallsOK, CallOK, Idle
  <2>4. StatusIsTrue
    BY DEF StatusIsTrue, EntryOK, Recorded, NoSteps
  <2>. QED BY <2>1, <2>2, <2>3, <2>4 DEF Inv
<1>2. Inv /\ [Next]_vars => Inv'
  BY TypeStep, ArtifactStep, CallStep, StatusStep DEF Inv
<1>. QED BY <1>1, <1>2, PTL DEF Spec

\* The types, and the truth of status.json, in every reachable state.
THEOREM StatusTheorem == Spec => [](TypeOK /\ StatusIsTrue)
<1>1. Inv => TypeOK /\ StatusIsTrue
  BY DEF Inv
<1>. QED BY <1>1, StatusInvariant, PTL

-----------------------------------------------------------------------------
(* The order of run_v0.                                                      *)

\* The steps before run.next have a result, the others have none.
ResultsSoFar == \A i \in DOMAIN Order : run.results[Order[i]] # None <=> i < run.next

OffersInv == ResultsSoFar /\ OffersInOrder

LEMMA OffersProceed ==
  ASSUME TypeOK, OffersInv, Running, NEW result \in Results, Proceed(result),
         result \in {"ready", "denied"} =>
           ~DepFailed(Order[run.next]) /\ Order[run.next] \notin Refused
  PROVE  OffersInv'
<1> DEFINE s == Order[run.next]
           results == [run.results EXCEPT ![s] = result]
<1>1. s \in Steps /\ run.next \in DOMAIN Order /\ run.next \in Nat /\ DOMAIN Order \subseteq Nat
  BY PlanAssumption DEF Running
<1>2. run'.results = results /\ run'.next = run.next + 1
  BY DEF Proceed, TypeOK
<1>3. results[s] = result /\ \A t \in Steps \ {s} : results[t] = run.results[t]
  BY <1>1 DEF TypeOK
<1>4. run.results[s] = None
  BY <1>1 DEF OffersInv, ResultsSoFar
<1> HIDE DEF results
<1>5. ResultsSoFar'
  <2> SUFFICES ASSUME NEW i \in DOMAIN Order
               PROVE  results[Order[i]] # None <=> i < run.next + 1
    BY <1>2 DEF ResultsSoFar
  <2>1. Order[i] \in Steps /\ i \in Nat
    BY <1>1, PlanAssumption
  <2>2. CASE i = run.next
    BY <1>1, <1>3, <2>2, NoneAssumption
  <2>3. CASE i # run.next
    <3>1. Order[i] # s
      BY <1>1, <2>3, PlanAssumption
    <3>2. run.results[Order[i]] # None <=> i < run.next
      BY DEF OffersInv, ResultsSoFar
    <3>. QED BY <1>1, <1>3, <2>1, <2>3, <3>1, <3>2
  <2>. QED BY <2>2, <2>3
<1>6. OffersInOrder'
  <2> SUFFICES ASSUME NEW t \in Steps, results[t] \in {"ready", "denied"}
               PROVE  t \notin Refused /\ \A d \in DependsOn[t] : results[d] = "ready"
    BY <1>2 DEF OffersInOrder
  <2>1. CASE t = s
    <3>1. s \notin Refused /\ ~DepFailed(s)
      BY <1>3, <2>1
    <3>2. ASSUME NEW d \in DependsOn[s] PROVE results[d] = "ready"
      <4>1. d \in Steps
        BY <1>1, PlanAssumption
      <4>2. PICK j \in DOMAIN Order : Order[j] = d
        BY <4>1, PlanAssumption
      <4>3. j < run.next
        BY <1>1, <4>2, PlanAssumption
      <4>4. run.results[d] # None
        BY <4>2, <4>3 DEF OffersInv, ResultsSoFar
      <4>5. run.results[d] \in Results
        BY <4>1, <4>4 DEF TypeOK
      <4>6. run.results[d] = "ready"
        BY <3>1, <4>5 DEF DepFailed, Results
      <4>. QED BY <1>3, <1>4, <4>1, <4>4, <4>6
    <3>. QED BY <2>1, <3>1, <3>2
  <2>2. CASE t # s
    <3>1. t \notin Refused /\ \A d \in DependsOn[t] : run.results[d] = "ready"
      BY <1>3, <2>2 DEF OffersInv, OffersInOrder
    <3>2. ASSUME NEW d \in DependsOn[t] PROVE results[d] = "ready"
      <4>1. d \in Steps /\ run.results[d] = "ready"
        BY <3>1, PlanAssumption
      <4>2. d # s
        BY <1>4, <4>1, NoneAssumption DEF Results
      <4>. QED BY <1>3, <4>1, <4>2
    <3>. QED BY <3>1, <3>2
  <2>. QED BY <2>1, <2>2
<1>. QED BY <1>5, <1>6 DEF OffersInv

\* The offers of run_v0, for every plan in a topological order.
THEOREM OffersTheorem == Spec => []OffersInOrder
<1>1. Init => OffersInv
  <2> SUFFICES ASSUME Init PROVE OffersInv
    OBVIOUS
  <2>1. \A s \in Steps : run.results[s] = None
    BY DEF Init, NoSteps
  <2>2. ResultsSoFar
    BY <2>1, PlanAssumption DEF Init, ResultsSoFar
  <2>. QED BY <2>1, <2>2, NoneAssumption DEF OffersInv, OffersInOrder, Results
<1>2. TypeOK /\ OffersInv /\ [Next]_vars => OffersInv'
  <2> SUFFICES ASSUME TypeOK, OffersInv, [Next]_vars PROVE OffersInv'
    OBVIOUS
  <2>1. ASSUME run'.results = run.results, run'.next = run.next PROVE OffersInv'
    BY <2>1 DEF OffersInv, ResultsSoFar, OffersInOrder
  <2>2. CASE RunSkip
    BY <2>2, OffersProceed DEF RunSkip, Results
  <2>3. CASE RunBuildFailed
    BY <2>1, <2>3, OffersProceed DEF RunBuildFailed, Preparing, Results, TypeOK
  <2>4. ASSUME NEW id \in Ids, NEW allowed \in BOOLEAN, RunPrepared(id, allowed) PROVE OffersInv'
    BY <2>1, <2>4, OffersProceed DEF RunPrepared, Preparing, Results, TypeOK
  <2>5. CASE RunStart \/ RunEnds \/ Restart
    BY <2>1, <2>5 DEF RunStart, RunEnds, Restart, TypeOK
  <2>6. ASSUME NEW c \in Callers, Confirm(c) \/ Retry(c) PROVE OffersInv'
    BY <2>1, <2>6 DEF Confirm, ConfirmKnown, ConfirmRepeated, ConfirmAccepted, ConfirmLand,
       ConfirmError, ConfirmRecord, Retry, RetryBegin, RetryError, RetryFinish
  <2>7. CASE (\E id \in Ids : Expire(id)) \/ UNCHANGED vars
    BY <2>1, <2>7 DEF Expire, vars
  <2>. QED BY <2>2, <2>3, <2>4, <2>5, <2>6, <2>7 DEF Next, Run
<1>3. OffersInv => OffersInOrder
  BY DEF OffersInv
<1>. QED BY <1>1, <1>2, <1>3, StatusTheorem, PTL DEF Spec

-----------------------------------------------------------------------------
(* Recorded signatures.                                                      *)

\* After a write of one entry the others show the signatures they showed.
LEMMA PatchKeeps ==
  ASSUME TypeOK, NEW state \in {"preparing", "needs_confirm", "failed", "executed"},
         NEW s \in Steps, NEW e \in Entry, file' = Patched(state, s, e),
         KnownSig(s) # None => e.sig # None
  PROVE  KeepsSignatures
<1>1. Recorded'[s] = e /\ \A t \in Steps \ {s} : Recorded'[t] = Recorded[t]
  BY PatchedType DEF Recorded
<1>2. e # None
  BY NoneAssumption
<1>3. KnownSig(s)' = e.sig
  BY <1>1, <1>2 DEF KnownSig
<1>4. ASSUME NEW t \in Steps \ {s} PROVE KnownSig(t)' = KnownSig(t)
  BY <1>1 DEF KnownSig
<1>. QED BY <1>3, <1>4 DEF KeepsSignatures

\* Before run_v0 has answered nobody confirms or retries, and nothing is recorded.
NobodyYet == run.pc # "ended" =>
               /\ \A c \in Callers : call[c].pc = "idle"
               /\ \A s \in Steps : KnownSig(s) = None

LEMMA LostWriteKeeps ==
  ASSUME TypeOK, file' \in {file, None}
  PROVE  KeepsSignatures /\ \A s \in Steps : KnownSig(s) = None => KnownSig(s)' = None
<1>1. CASE file' = None
  BY <1>1 DEF KeepsSignatures, KnownSig, Recorded, NoSteps
<1>2. CASE file' = file
  BY <1>2 DEF KeepsSignatures, KnownSig, Recorded
<1>. QED BY <1>1, <1>2

LEMMA PatchUnsigned ==
  ASSUME TypeOK, NEW state \in {"preparing", "needs_confirm", "failed", "executed"},
         NEW s \in Steps, NEW e \in Entry, file' = Patched(state, s, e), e.sig = None
  PROVE  \A t \in Steps : KnownSig(t) = None => KnownSig(t)' = None
  BY PatchedType DEF KnownSig, Recorded

\* The writes of run_v0 meet no signature.
LEMMA RunKeeps ==
  ASSUME TypeOK, NobodyYet, Run
  PROVE  NobodyYet' /\ KeepsSignatures
<1> DEFINE Quiet == (\A s \in Steps : KnownSig(s) = None => KnownSig(s)' = None) /\ KeepsSignatures
<1>0. call' = call /\ run.pc # "ended"
  BY DEF Run, RunStart, RunSkip, RunBuildFailed, RunEnds, RunPrepared, Preparing, Running
<1> SUFFICES Quiet
  BY <1>0 DEF NobodyYet
<1>1. ASSUME file' \in {file, None} PROVE Quiet
  BY <1>1, LostWriteKeeps
<1>2. CASE RunStart
  <2>1. CASE file' = [run |-> "preparing", steps |-> NoSteps]
    <3>1. Recorded' = NoSteps
      BY <2>1, NoneAssumption DEF Recorded, StatusFile, NoSteps
    <3>. QED BY <1>0, <3>1 DEF KnownSig, NoSteps, KeepsSignatures, NobodyYet
  <2>. QED BY <1>1, <1>2, <2>1 DEF RunStart, Written, Botched
<1>3. ASSUME NEW state \in {"needs_confirm", "failed"}, NEW s \in Steps, NEW e \in Entry,
             file' = Patched(state, s, e), e.sig = None
      PROVE Quiet
  <2>1. KnownSig(s) = None
    BY <1>0 DEF NobodyYet
  <2>. QED BY <1>3, <2>1, PatchKeeps, PatchUnsigned
<1>4. CASE RunBuildFailed
  <2> DEFINE e == [state |-> "failed", id |-> None, sig |-> None]
  <2>1. Order[run.next] \in Steps /\ e \in Entry /\ e.sig = None
    BY <1>4, PlanAssumption DEF RunBuildFailed, Preparing, Running, Entry
  <2> HIDE DEF e
  <2>. QED BY <1>1, <1>3, <1>4, <2>1 DEF RunBuildFailed, Written, Botched, e
<1>5. ASSUME NEW id \in Ids, NEW allowed \in BOOLEAN, RunPrepared(id, allowed) PROVE Quiet
  <2> DEFINE e == [state |-> "prepared", id |-> id, sig |-> None]
  <2>1. Order[run.next] \in Steps /\ e \in Entry /\ e.sig = None
    BY <1>5, PlanAssumption DEF RunPrepared, Preparing, Running, Entry
  <2> HIDE DEF e
  <2>. QED BY <1>1, <1>3, <1>5, <2>1 DEF RunPrepared, Written, Botched, e
<1>6. CASE RunSkip \/ RunEnds
  BY <1>1, <1>6 DEF RunSkip, RunEnds
<1>. QED BY <1>2, <1>4, <1>5, <1>6 DEF Run

\* A handler that is suspended, or may start, finds the run ended.
LEMMA HandlersKeep ==
  ASSUME Inv, NobodyYet, NEW c \in Callers, Confirm(c) \/ Retry(c)
  PROVE  run.pc = "ended" /\ run' = run /\ KeepsSignatures
<1> USE DEF Inv
<1>1. run.pc = "ended" /\ run' = run
  BY DEF NobodyYet, Confirm, ConfirmKnown, ConfirmRepeated, ConfirmAccepted, ConfirmLand,
     ConfirmError, ConfirmRecord, Retry, RetryBegin, RetryError, RetryFinish, Free
<1> SUFFICES KeepsSignatures
  BY <1>1
<1>2. ASSUME file' \in {file, None} PROVE KeepsSignatures
  BY <1>2, LostWriteKeeps
<1>3. CASE ConfirmRecord(c)
  <2> DEFINE q == call[c]
             s == CHOOSE s \in Steps : KnownId(s) = q.id
             e == [Recorded[s] EXCEPT !.state = "executed", !.sig = q.sig]
  <2>1. q.id \in Ids /\ q.sig \in Signature
    BY <1>3 DEF ConfirmRecord, CallsOK, CallOK, TypeOK
  <2>2. CASE RecordStatus(q.id, q.sig) /\ \E t \in Steps : KnownId(t) = q.id
    <3>1. s \in Steps /\ KnownId(s) = q.id
      BY <2>2
    <3>2. Recorded[s] # None
      BY <2>1, <3>1, NoneAssumption DEF KnownId
    <3>3. e \in Entry /\ Recorded[s] \in Entry
      BY <2>1, <3>1, <3>2, EntryTypes, RecordedType
    <3>4. e.sig # None
      BY <2>1, <3>3, NoneAssumption DEF Entry
    <3>5. CASE file' = Patched("executed", s, e)
      <4> HIDE DEF s, e, q
      <4>. QED BY <3>1, <3>3, <3>4, <3>5, PatchKeeps
    <3>. QED BY <1>2, <2>2, <3>5 DEF RecordStatus, Written, Botched
  <2>. QED BY <1>2, <1>3, <2>2 DEF ConfirmRecord, RecordStatus
<1>4. ASSUME NEW id \in Ids, RetryFinish(c, id) PROVE KeepsSignatures
  <2> DEFINE s == call[c].step
             e == [state |-> "prepared", id |-> id, sig |-> KnownSig(s)]
  <2>1. s \in Steps
    BY <1>4 DEF RetryFinish, CallsOK, CallOK
  <2>2. e \in Entry /\ e.sig = KnownSig(s)
    BY <2>1, KnownTypes DEF Entry
  <2>3. file' = Patched("needs_confirm", s, e) \/ file' \in {file, None}
    BY <1>4 DEF RetryFinish, Written, Botched
  <2> HIDE DEF s, e
  <2>. QED BY <1>2, <2>1, <2>2, <2>3, PatchKeeps
<1>5. CASE Confirm(c) /\ ~ConfirmRecord(c)
  BY <1>2, <1>5 DEF Confirm, ConfirmKnown, ConfirmRepeated, ConfirmAccepted, ConfirmLand, ConfirmError
<1>6. CASE Retry(c) /\ \A id \in Ids : ~RetryFinish(c, id)
  BY <1>2, <1>6 DEF Retry, RetryBegin, RetryError
<1>. QED BY <1>3, <1>4, <1>5, <1>6

\* A recorded signature is replaced by a signature, or lost with the whole file.
THEOREM SignaturesTheorem == Spec => SignaturesAreKept
<1>1. Init => NobodyYet
  <2> SUFFICES ASSUME Init PROVE NobodyYet
    OBVIOUS
  <2>1. \A c \in Callers : call[c].pc = "idle"
    BY DEF Init, Idle
  <2>2. \A s \in Steps : KnownSig(s) = None
    BY DEF Init, KnownSig, Recorded, NoSteps
  <2>. QED BY <2>1, <2>2 DEF NobodyYet
<1>2. Inv /\ NobodyYet /\ [Next]_vars => NobodyYet' /\ [KeepsSignatures]_vars
  <2> SUFFICES ASSUME Inv, NobodyYet, [Next]_vars PROVE NobodyYet' /\ [KeepsSignatures]_vars
    OBVIOUS
  <2>1. CASE Run
    BY <2>1, RunKeeps DEF Inv
  <2>2. ASSUME NEW c \in Callers, Confirm(c) \/ Retry(c) PROVE NobodyYet' /\ KeepsSignatures
    BY <2>2, HandlersKeep DEF NobodyYet
  <2>3. CASE Restart
    <3>1. file' \in {file, None}
      BY <2>3 DEF Restart, Botched
    <3>2. KeepsSignatures /\ \A s \in Steps : KnownSig(s) = None => KnownSig(s)' = None
      BY <3>1, LostWriteKeeps DEF Inv
    <3>3. (run.pc # "ended")' => run.pc # "ended"
      BY <2>3 DEF Restart, Inv, TypeOK
    <3>4. \A c \in Callers : call'[c].pc = "idle"
      BY <2>3 DEF Restart, Idle
    <3>. QED BY <3>2, <3>3, <3>4 DEF NobodyYet
  <2>4. ASSUME NEW id \in Ids, Expire(id) PROVE NobodyYet' /\ KeepsSignatures
    <3>1. KeepsSignatures /\ \A s \in Steps : KnownSig(s) = None => KnownSig(s)' = None
      BY <2>4, LostWriteKeeps DEF Inv, Expire
    <3>. QED BY <2>4, <3>1 DEF Expire, NobodyYet
  <2>5. CASE UNCHANGED vars
    BY <2>5 DEF vars, NobodyYet, KnownSig, Recorded
  <2>. QED BY <2>1, <2>2, <2>3, <2>4, <2>5 DEF Next
<1>. QED BY <1>1, <1>2, StatusInvariant, PTL DEF Spec, SignaturesAreKept
=============================================================================
