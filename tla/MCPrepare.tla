------------------------------ MODULE MCPrepare ------------------------------
(* Small instances of Prepare for TLC. *)
EXTENDS Prepare

CONSTANTS p1, p2, r1, r2

\* One model, and the two image stores that the code allows for.
OneModel == <<"target-model">>
TwoStores == [n \in Nodes |-> n % 2]

\* Sessions are alike, and so are run IDs.
Alike == Permutations(Sessions) \cup Permutations(Runs)
=============================================================================
