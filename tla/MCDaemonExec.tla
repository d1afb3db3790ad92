---------------------------- MODULE MCDaemonExec ----------------------------
(* Finite instances of DaemonExec. *)
EXTENDS DaemonExec, TLC

CONSTANTS r1, r2, id1

MCReqs == {r1, r2}
OneReq == {r1}
OneId  == {id1}
\* The request slots are interchangeable (in the runs that check safety only).
Symmetry == Permutations(MCReqs)

MCKinds == {"transfer"}
OneNet  == {"mainnet"}
TwoNets == {"mainnet", "devnet"}
OnePolicy == {"strict"}
NoPolicies == {}
NoMoves == {}
SwitchOnly == {"switch"}
AllMoves == {"apply", "edit", "switch"}

\* "strict" requires a simulation before it lets a mainnet broadcast through.
MCDecide == [c \in Contexts |->
  IF c[1] = "strict" /\ c[2] = "mainnet" /\ ~c[4] THEN "block" ELSE "allow"]
=============================================================================
