--------------------------- MODULE BroadcastLedger ---------------------------
(***************************************************************************)
(* What the daemon's execute path promises, without clocks, caches, maps,  *)
(* files or policies: an identifier is opened once and closed once.  While *)
(* it is open, callers may try it, several of them at a time; a caller     *)
(* that is trying may put signatures on the chain.  A closed identifier is *)
(* never tried again.                                                      *)
(***************************************************************************)
CONSTANTS Ids, Callers, Hashes, None

VARIABLES
  status,   \* of each identifier: "new", "open" or "closed"
  trying,   \* the identifier each caller is trying, or None
  landed    \* the signatures on the chain

lvars == <<status, trying, landed>>

Init ==
  /\ status = [id \in Ids |-> "new"]
  /\ trying = [c \in Callers |-> None]
  /\ landed = {}

Open(id) ==
  /\ status[id] = "new"
  /\ status' = [status EXCEPT ![id] = "open"]
  /\ UNCHANGED <<trying, landed>>

Try(c, id) ==
  /\ trying[c] = None /\ status[id] = "open"
  /\ trying' = [trying EXCEPT ![c] = id]
  /\ UNCHANGED <<status, landed>>

Land(c, hash) ==
  /\ trying[c] # None
  /\ landed' = landed \cup {[id |-> trying[c], hash |-> hash]}
  /\ UNCHANGED <<status, trying>>

\* Some callers stop trying and some open identifiers close: one answer, the
\* passing of a deadline, or a crash that ends everything at once.
Retire(callers, ids) ==
  /\ \A id \in ids : status[id] = "open"
  /\ status' = [id \in Ids |-> IF id \in ids THEN "closed" ELSE status[id]]
  /\ trying' = [c \in Callers |-> IF c \in callers THEN None ELSE trying[c]]
  /\ UNCHANGED landed

Next ==
  \/ \E id \in Ids : Open(id) \/ \E c \in Callers : Try(c, id)
  \/ \E c \in Callers, hash \in Hashes : Land(c, hash)
  \/ \E callers \in SUBSET Callers, ids \in SUBSET Ids : Retire(callers, ids)

Spec == Init /\ [][Next]_lvars
=============================================================================
