---------------------------- MODULE MCDocumentJobs ----------------------------
(***************************************************************************)
(* Instances of DocumentJobs for TLC.                                      *)
(***************************************************************************)
EXTENDS DocumentJobs, TLC

CONSTANTS w1, w2, c1, c2

TwoWorkers == {w1, w2}
OneClient  == {c1}
TwoClients == {c1, c2}

\* One client makes every request but deletions while another only pauses.
OneAndPauses == [c \in Client |-> IF c = c1 THEN Operation \ {"delete"} ELSE {"pause"}]

PauseResume == [c \in Client |-> {"pause", "resume"}]
Deleting    == [c \in Client |-> {"pause", "resume", "delete"}]

Symmetry == Permutations(TwoWorkers)

===============================================================================
