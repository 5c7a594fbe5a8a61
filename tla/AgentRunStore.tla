--------------------------- MODULE AgentRunStore ---------------------------
(***************************************************************************)
(* The statements of packages/postgres-store/src/                          *)
(* postgres-agent-run-worker-operations.ts on one row of agent_runs, each  *)
(* as an operator on the row.  `lease' is lease_expires_at minus the clock *)
(* and `queuedFor' the time since the run was accepted, in ticks.  A lease *)
(* token is the attempt that has it.                                       *)
(***************************************************************************)
EXTENDS Integers, Sequences

CONSTANT Null

STARTED_STATUSES == {"running", "cancelling"}

ENDED_STATUSES == {"completed", "cancelled", "failed"}

RUN_IN_PROGRESS_STATUSES == {"queued"} \cup STARTED_STATUSES

RunStatus == {"none"} \cup RUN_IN_PROGRESS_STATUSES \cup ENDED_STATUSES

\* "progress" stands for every event that neither ends a run nor completes its message.
TerminalEvents == {"run_completed", "run_cancelled", "run_failed"}

EventTypes == {"progress", "message_completed"} \cup TerminalEvents

Event == [type: EventTypes, sequence: Nat]

AgentRunRow(owners, tokens) ==
    [status: RunStatus, lastSequence: Nat, owner: owners \cup {Null},
     token: tokens \cup {Null}, lease: Nat, queuedFor: Nat]

NoAgentRun ==
    [status |-> "none", lastSequence |-> 0, owner |-> Null, token |-> Null, lease |-> 0,
     queuedFor |-> 0]

-----------------------------------------------------------------------------
\* prepareConversationRunStart accepts a run.
acceptedRun == [NoAgentRun EXCEPT !.status = "queued"]

noRunLease(row) == [row EXCEPT !.owner = Null, !.token = Null, !.lease = 0]

\* Mutant: a started run whose lease ran out is executed again.
claimableRun_expiredToo(row) ==
    row.status = "queued" \/ (row.status = "running" /\ row.lease = 0)

\* claimAgentRunForJob: only a queued run is given to an attempt.
claimableRun(row) == row.status = "queued"

claimedRun(row, owner, token, leaseMs) ==
    [row EXCEPT !.status = "running", !.owner = owner, !.token = token, !.lease = leaseMs]

\* The run is this attempt's and has not ended.  A cancelling run still takes its last writes.
claimedRunWhere(row, token) == row.token = token /\ row.status \in STARTED_STATUSES

\* Mutant: the lease on the row is the job's own, whoever the owner is.
heldByAnother_never(row, owner) == FALSE

\* Someone other than the owner holds the run under a lease that has not run out.
heldByAnother(row, owner) == row.lease > 0 /\ row.owner # owner

\* renewAgentRunJobLease, the heartbeat's copy of the job's lease.
renewedRun(row, token, leaseMs) ==
    IF claimedRunWhere(row, token) THEN [row EXCEPT !.lease = leaseMs] ELSE row

\* requestAgentRunCancellation: a queued run is cancelled at once, a started one is asked to.
cancelRequested(row) ==
    CASE row.status = "queued" ->
            [row EXCEPT !.status = "cancelled", !.lastSequence = @ + 1]
      [] row.status \in STARTED_STATUSES -> [row EXCEPT !.status = "cancelling"]
      [] OTHER -> row

\* Mutant: the event that fails the run is stored and the row does not count it.
failedRun_uncounted(row) == noRunLease([row EXCEPT !.status = "failed"])

\* failLostAgentRun and failAgentRunsWhere: failed, with the next event, under no lease.
failedRun(row) ==
    noRunLease([row EXCEPT !.status = "failed", !.lastSequence = @ + 1])

-----------------------------------------------------------------------------
endsOrSuspendsRun(e) == e.type \in {"run_completed", "run_failed"}

terminalStatus(type) ==
    CASE type = "run_completed" -> "completed"
      [] type = "run_cancelled" -> "cancelled"
      [] type = "run_failed"    -> "failed"

\* Mutant: a run that was asked to cancel may still complete.
insertable_anyStatus(row, token, events) ==
    /\ claimedRunWhere(row, token)
    /\ \A i \in DOMAIN events : events[i].sequence = row.lastSequence + i

\* insertClaimedRunObservation of every event of a transaction, in order: each follows the one
\* before it, and a run that was asked to cancel ends as cancelled and as nothing else.
insertable(row, token, events) ==
    /\ claimedRunWhere(row, token)
    /\ \A i \in DOMAIN events :
          /\ events[i].sequence = row.lastSequence + i
          /\ endsOrSuspendsRun(events[i]) => row.status = "running"

\* The row after them.
insertedRun(row, events) ==
    IF events = <<>> THEN row
    ELSE LET last == events[Len(events)]
         IN  IF last.type \in TerminalEvents
             THEN noRunLease([row EXCEPT !.status = terminalStatus(last.type),
                                         !.lastSequence = last.sequence])
             ELSE [row EXCEPT !.lastSequence = last.sequence]
=============================================================================
