----------------------------- MODULE RunRecord ------------------------------
(***************************************************************************)
(* What the record of a conversation's runs promises to whoever starts,    *)
(* cancels or reads one: one run at a time, given to one executor at most, *)
(* which no run gets back from; a run that nobody executes does not        *)
(* complete, nor does one that was asked to cancel; and an end is the end. *)
(* AgentRun implements it with jobs, leases, an upkeep tick and a worker   *)
(* of another release, none of which shows here.                           *)
(***************************************************************************)
CONSTANTS
    Null,
    AgentRuns,
    Executors

VARIABLE record

InProgress(a) == record[a].status \in {"queued", "running", "cancelling"}

Init == record = [a \in AgentRuns |-> [status |-> "none", by |-> Null]]

Accept(a) ==
    /\ record[a].status = "none"
    /\ \A b \in AgentRuns : ~InProgress(b)
    /\ record' = [record EXCEPT ![a].status = "queued"]

Claim(a, x) ==
    /\ record[a].status = "queued"
    /\ record' = [record EXCEPT ![a] = [status |-> "running", by |-> x]]

RequestCancellation(a) ==
    /\ record[a].status = "running"
    /\ record' = [record EXCEPT ![a].status = "cancelling"]

End(a, outcome) ==
    /\ InProgress(a)
    /\ outcome = "completed" => record[a].status = "running"
    /\ outcome = "cancelled" => record[a].status # "running"
    /\ record' = [record EXCEPT ![a].status = outcome]

Next ==
    \E a \in AgentRuns :
        \/ Accept(a) \/ RequestCancellation(a)
        \/ \E x \in Executors : Claim(a, x)
        \/ \E outcome \in {"completed", "cancelled", "failed"} : End(a, outcome)

Spec == Init /\ [][Next]_record
=============================================================================
