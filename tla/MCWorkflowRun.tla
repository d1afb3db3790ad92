--------------------------- MODULE MCWorkflowRun ---------------------------
(* Finite instances of WorkflowRun: a swap, and a transfer that depends on it. *)
EXTENDS WorkflowRun, TLC

CONSTANTS c1, c2, id1, id2, id3, h1, h2

MCSteps == {"swap", "send"}
MCDependsOn == [s \in MCSteps |-> IF s = "send" THEN {"swap"} ELSE {}]
MCOrder == <<"swap", "send">>
NoneRefused == {}
SendLimited == {"send"}
OneCaller == {c1}
TwoCallers == {c1, c2}
TwoIds == {id1, id2}
MCIds == {id1, id2, id3}
OneHash == {h1}
TwoHashes == {h1, h2}
ByStep == {"step"}
AllRoutes == {"step", "id", "execute"}
\* UUIDs and blockhashes are interchangeable.
Symmetry == Permutations(Ids) \cup Permutations(Hashes) \cup Permutations(Callers)
=============================================================================
