----------------------------- MODULE MCAgentRun -----------------------------
(* Instances of AgentRun for TLC. *)
EXTENDS AgentRun, TLC

CONSTANTS j1, j2, r1, r2, r3, u1, u2, execute, run1, previous

One == [k \in Kinds |-> 1]
Two == [k \in Kinds |-> 2]
NoSchedule == [k \in Scheduled |-> 1]
Symmetry == Permutations(Jobs) \cup Permutations(Runs) \cup Permutations(Upkeeps)
=============================================================================
