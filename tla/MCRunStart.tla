----------------------------- MODULE MCRunStart -----------------------------
(* Instances of RunStart for TLC: calls with one key to start a run and with *)
(* one to create a conversation with its run.                                *)
EXTENDS RunStart, TLC

CONSTANTS s1, s2, c1, c2, start, create, conv1, conv2

CommandOfRequest == [r \in Requests |-> IF r \in {s1, s2} THEN start ELSE create]
Symmetry == Permutations({s1, s2}) \cup Permutations({c1, c2}) \cup Permutations({conv1, conv2})
=============================================================================
