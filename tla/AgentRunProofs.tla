--------------------------- MODULE AgentRunProofs ---------------------------
(***************************************************************************)
(* What AgentRun promises, for any number of runs, jobs, attempts and      *)
(* upkeep ticks, with or without a previous release.  Whatever a step does *)
(* to jobs and leases, it does one of five things to the record of the     *)
(* runs (RunStep); what holds of the runs follows from that alone.  That   *)
(* nobody fails a run under its holder needs more: a run has one live job, *)
(* and a lease on the run or the job that an attempt still has is on the   *)
(* attempt's own run.                                                      *)
(***************************************************************************)
EXTENDS AgentRun, FiniteSetTheorems, TLAPS

Owners == Jobs \cup {Previous}
Tokens == Runs \cup {Previous}
RunRow == AgentRunRow(Owners, Tokens)

-----------------------------------------------------------------------------
\* What the statements make of a row of agent_runs.

\* A run that was accepted, claimed or asked to cancel.
LEMMA StartingRows ==
    ASSUME NEW row \in RunRow, NEW owner \in Owners, NEW token \in Tokens, NEW ms \in Nat
    PROVE  /\ NoAgentRun \in RunRow
           /\ acceptedRun \in RunRow /\ acceptedRun.status = "queued" /\ acceptedRun.token = Null
           /\ acceptedRun.owner = Null /\ acceptedRun.lease = 0
           /\ claimedRun(row, owner, token, ms) \in RunRow
           /\ claimedRun(row, owner, token, ms).status = "running"
           /\ claimedRun(row, owner, token, ms).token = token
           /\ claimedRun(row, owner, token, ms).owner = owner
BY DEF RunRow, AgentRunRow, NoAgentRun, acceptedRun, claimedRun, RunStatus, RUN_IN_PROGRESS_STATUSES,
       STARTED_STATUSES

\* A cancellation ends a queued run, marks a started one and leaves its lease.
LEMMA CancelledRow ==
    ASSUME NEW row \in RunRow, row.status \in RUN_IN_PROGRESS_STATUSES
    PROVE  /\ cancelRequested(row) \in RunRow
           /\ row.status = "queued" => cancelRequested(row).status = "cancelled"
           /\ row.status \in STARTED_STATUSES => cancelRequested(row).status = "cancelling"
           /\ cancelRequested(row).token = row.token /\ cancelRequested(row).owner = row.owner
           /\ cancelRequested(row).lease = row.lease
<1>1. CASE row.status = "queued"
  <2>1. cancelRequested(row) =
            [row EXCEPT !.status = "cancelled", !.lastSequence = row.lastSequence + 1]
        /\ row.lastSequence + 1 \in Nat
    BY <1>1 DEF cancelRequested, STARTED_STATUSES, RunRow, AgentRunRow
  <2>2. QED
    BY <1>1, <2>1 DEF RunRow, AgentRunRow, RunStatus, ENDED_STATUSES, STARTED_STATUSES
<1>2. CASE row.status \in STARTED_STATUSES
  <2>1. cancelRequested(row) = [row EXCEPT !.status = "cancelling"]
    BY <1>2 DEF cancelRequested, STARTED_STATUSES
  <2>2. QED
    BY <1>2, <2>1 DEF RunRow, AgentRunRow, RunStatus, RUN_IN_PROGRESS_STATUSES, STARTED_STATUSES
<1>3. QED
  BY <1>1, <1>2 DEF RUN_IN_PROGRESS_STATUSES

Over(row, status, n) == noRunLease([row EXCEPT !.status = status, !.lastSequence = n])

\* A run that ends is under no lease.
LEMMA EndedRow ==
    ASSUME NEW row \in RunRow, NEW status \in ENDED_STATUSES, NEW n \in Nat
    PROVE  /\ Over(row, status, n) \in RunRow /\ Over(row, status, n).status = status
           /\ Over(row, status, n).token = Null /\ Over(row, status, n).owner = Null
           /\ Over(row, status, n).lease = 0
BY DEF Over, noRunLease, RunRow, AgentRunRow, RunStatus, ENDED_STATUSES

\* failLostAgentRun and failAgentRunsWhere.
LEMMA FailedRow ==
    ASSUME NEW row \in RunRow
    PROVE  /\ failedRun(row) \in RunRow /\ failedRun(row).status = "failed"
           /\ failedRun(row).token = Null /\ failedRun(row).owner = Null /\ failedRun(row).lease = 0
<1>1. row.lastSequence + 1 \in Nat
  BY DEF RunRow, AgentRunRow
<1>2. failedRun(row) = Over(row, "failed", row.lastSequence + 1)
  BY DEF failedRun, Over
<1>3. PICK n \in Nat, status \in ENDED_STATUSES :
         failedRun(row) = Over(row, status, n) /\ status = "failed"
  BY <1>1, <1>2 DEF ENDED_STATUSES
<1>4. /\ Over(row, status, n) \in RunRow /\ Over(row, status, n).status = status
      /\ Over(row, status, n).token = Null /\ Over(row, status, n).owner = Null
      /\ Over(row, status, n).lease = 0
  BY EndedRow
<1>5. QED
  BY <1>3, <1>4

\* The one event that ends a run.
Last(row, type) == <<[type |-> type, sequence |-> row.lastSequence + 1]>>

\* Only the one who has a started run ends it, and a run asked to cancel does not complete.
LEMMA InsertedRow ==
    ASSUME NEW row \in RunRow, NEW token \in Tokens, NEW type \in TerminalEvents,
           insertable(row, token, Last(row, type))
    PROVE  /\ row.token = token /\ row.status \in STARTED_STATUSES
           /\ type = "run_completed" => row.status = "running"
           /\ insertedRun(row, Last(row, type)) \in RunRow
           /\ insertedRun(row, Last(row, type)).status = terminalStatus(type)
           /\ insertedRun(row, Last(row, type)).token = Null
           /\ insertedRun(row, Last(row, type)).owner = Null
           /\ insertedRun(row, Last(row, type)).lease = 0
<1>1. row.token = token /\ row.status \in STARTED_STATUSES
  BY DEF insertable, claimedRunWhere
<1>2. /\ 1 \in DOMAIN Last(row, type) /\ Len(Last(row, type)) = 1 /\ Last(row, type) # <<>>
      /\ Last(row, type)[1] = [type |-> type, sequence |-> row.lastSequence + 1]
  BY DEF Last
<1>3. type = "run_completed" => row.status = "running"
  BY <1>2 DEF insertable, endsOrSuspendsRun
<1>4. row.lastSequence + 1 \in Nat /\ terminalStatus(type) \in ENDED_STATUSES
  BY DEF RunRow, AgentRunRow, TerminalEvents, terminalStatus, ENDED_STATUSES
<1>5. insertedRun(row, Last(row, type)) =
         Over(row, terminalStatus(type), row.lastSequence + 1)
  BY <1>2 DEF insertedRun, Over
<1>6. PICK n \in Nat, status \in ENDED_STATUSES :
         insertedRun(row, Last(row, type)) = Over(row, status, n) /\ status = terminalStatus(type)
  BY <1>4, <1>5
<1>7. /\ Over(row, status, n) \in RunRow /\ Over(row, status, n).status = status
      /\ Over(row, status, n).token = Null /\ Over(row, status, n).owner = Null
      /\ Over(row, status, n).lease = 0
  BY EndedRow
<1>8. QED
  BY <1>1, <1>3, <1>6, <1>7

-----------------------------------------------------------------------------
\* What the statements make of a row of platform_jobs.

\* A row keeps its kind and its key and takes no new lease.
Same(row, new) ==
    /\ new \in JobRow /\ new.kind = row.kind /\ new.key = row.key
    /\ new.status = "none" <=> row.status = "none"
    /\ Live(new) => Live(row)
    /\ new.token \in {row.token, Null}

\* Every ending of an attempt, and its heartbeat.
LEMMA SameRows ==
    ASSUME NEW row \in JobRow, row.status = "running", row.kind = Execute
    PROVE  /\ Same(row, renewed(row)) /\ Same(row, ended(row, "succeeded")) /\ Same(row, released(row))
           /\ Same(row, ended(row, "dead"))
<1>1. Execute \in Kinds /\ LeaseMs[row.kind] \in Nat
  BY AgentRunConstants, JobStoreConstants
<1>2. Same(row, renewed(row))
  BY <1>1 DEF Same, renewed, JobRow, Live
<1>3. Same(row, ended(row, "succeeded"))
  BY DEF Same, ended, noLease, JobRow, JobStatus, Live
<1>4. Same(row, ended(row, "dead"))
  BY DEF Same, ended, noLease, JobRow, JobStatus, Live
<1>5. Same(row, released(row))
  <2>1. (IF row.attempts > 0 THEN row.attempts - 1 ELSE 0) \in Nat /\ 0 \in Int
    BY DEF JobRow
  <2>2. /\ released(row).kind = row.kind /\ released(row).key = row.key
        /\ released(row).status = "queued" /\ released(row).token = Null
    BY DEF released, noLease, JobRow
  <2>3. released(row) \in JobRow
    BY <2>1 DEF released, noLease, JobRow, JobStatus
  <2>4. QED
    BY <2>2, <2>3 DEF Same, Live
<1>6. QED
  BY <1>2, <1>3, <1>4, <1>5

\* The clock.
LEMMA AgedRow == ASSUME NEW row \in JobRow PROVE Same(row, aged(row))
<1>1. (IF row.wait > 0 THEN row.wait - 1 ELSE row.wait) \in Int
      /\ (IF row.lease > 0 THEN row.lease - 1 ELSE 0) \in Nat
  BY DEF JobRow
<1>2. QED
  BY <1>1 DEF Same, aged, JobRow, Live

-----------------------------------------------------------------------------
\* The inductive invariant.

USE AgentRunConstants, JobStoreConstants

\* A run that nobody was given has no executor, and none has two; only a started run is leased.
RowStates ==
    \A a \in AgentRuns :
        /\ runs[a].status \in {"none", "queued"} => executors[a] = {}
        /\ \A x, y \in executors[a] : x = y
        /\ runs[a].status \notin STARTED_STATUSES => runs[a].lease = 0

OneInProgress ==
    \A a, b \in AgentRuns :
        /\ runs[a].status \in RUN_IN_PROGRESS_STATUSES
        /\ runs[b].status \in RUN_IN_PROGRESS_STATUSES
        => a = b

\* A run has one live job.
OneLiveJob ==
    \A i, j \in Jobs : Live(jobs[i]) /\ Live(jobs[j]) /\ jobs[i].key = jobs[j].key => i = j

\* What an attempt has under its lease, a job or a run, is its own.
OwnLeases ==
    /\ \A r \in Runs : att[r].phase # "idle" /\ jobs[att[r].job].token = r =>
           jobs[att[r].job].key = att[r].run
    /\ \A a \in AgentRuns : \A r \in Runs : runs[a].token = r /\ att[r].phase # "idle" =>
           att[r].run = a
    /\ \A a \in AgentRuns : runs[a].token = Previous => runs[a].owner = Previous

IInv == TypeOK /\ RowStates /\ OneInProgress /\ OneLiveJob /\ OwnLeases

\* Nothing has begun.
LEMMA InitIInv == Init => IInv
<1> SUFFICES ASSUME Init PROVE IInv
  OBVIOUS
<1>1. NoAgentRun \in AgentRunRow(Jobs \cup {Previous}, Runs \cup {Previous}) /\ NoRow \in JobRow
  BY DEF AgentRunRow, NoAgentRun, RunStatus, NoRow, JobRow, JobStatus
<1>2. TypeOK
  BY <1>1 DEF Init, TypeOK, NoAttempt, Attempt, NoRow
<1>3. RowStates /\ OneInProgress
  BY DEF Init, RowStates, OneInProgress, NoAgentRun, RUN_IN_PROGRESS_STATUSES, STARTED_STATUSES
<1>4. OneLiveJob /\ OwnLeases
  BY DEF Init, OneLiveJob, OwnLeases, NoRow, Live, NoAttempt, NoAgentRun
<1>5. QED
  BY <1>2, <1>3, <1>4 DEF IInv

-----------------------------------------------------------------------------
\* What a step does to the runs.

Others(a) == \A b \in AgentRuns \ {a} : runs'[b] = runs[b] /\ executors'[b] = executors[b]

Quiet ==
    /\ UNCHANGED executors
    /\ \A a \in AgentRuns :
          /\ runs'[a].status = runs[a].status /\ runs'[a].token = runs[a].token
          /\ runs'[a].owner = runs[a].owner
          /\ runs[a].status \notin STARTED_STATUSES => runs'[a].lease = runs[a].lease
          /\ runs[a].status \in ENDED_STATUSES => runs'[a] = runs[a]

Accepts(a) ==
    /\ runs[a].status = "none" /\ ConversationFree
    /\ runs'[a].status = "queued" /\ runs'[a].token = Null /\ runs'[a].lease = 0
    /\ UNCHANGED executors /\ Others(a)

Claims(a, x) ==
    /\ runs[a].status = "queued" /\ runs'[a].status = "running" /\ runs'[a].token = x
    /\ x = Previous => runs'[a].owner = Previous
    /\ executors'[a] = executors[a] \cup {x} /\ Others(a)

Cancels(a) ==
    /\ \/ runs[a].status = "queued" /\ runs'[a].status = "cancelled"
       \/ runs[a].status \in STARTED_STATUSES /\ runs'[a].status = "cancelling"
    /\ runs'[a].token = runs[a].token /\ runs'[a].owner = runs[a].owner
    /\ runs'[a].lease = runs[a].lease
    /\ UNCHANGED executors /\ Others(a)

Ends(a, outcome) ==
    /\ runs[a].status \in RUN_IN_PROGRESS_STATUSES
    /\ outcome = "completed" => runs[a].status = "running"
    /\ outcome = "cancelled" => runs[a].status # "running"
    /\ runs'[a].status = outcome /\ runs'[a].token = Null /\ runs'[a].lease = 0
    /\ UNCHANGED executors /\ Others(a)

RunStep ==
    /\ runs' \in [AgentRuns -> RunRow] /\ executors' \in [AgentRuns -> SUBSET Tokens]
    /\ \/ Quiet
       \/ \E a \in AgentRuns :
             \/ Accepts(a) \/ Cancels(a)
             \/ \E x \in Tokens : Claims(a, x)
             \/ \E outcome \in ENDED_STATUSES : Ends(a, outcome)

USE DEF STARTED_STATUSES, ENDED_STATUSES, RUN_IN_PROGRESS_STATUSES

\* Such a step keeps what the invariant says of the runs.
LEMMA RunStepKeeps ==
    ASSUME IInv, RunStep
    PROVE  RowStates' /\ OneInProgress'
<1>0. RowStates /\ OneInProgress
  BY DEF IInv
<1>1. CASE Quiet
  BY <1>0, <1>1 DEF RowStates, OneInProgress, Quiet
<1>2. ASSUME NEW a \in AgentRuns, Accepts(a) PROVE RowStates' /\ OneInProgress'
  BY <1>0, <1>2 DEF RowStates, OneInProgress, Accepts, Others, ConversationFree
<1>3. ASSUME NEW a \in AgentRuns, Cancels(a) PROVE RowStates' /\ OneInProgress'
  BY <1>0, <1>3 DEF RowStates, OneInProgress, Cancels, Others
<1>4. ASSUME NEW a \in AgentRuns, NEW x \in Tokens, Claims(a, x) PROVE RowStates' /\ OneInProgress'
  BY <1>0, <1>4 DEF RowStates, OneInProgress, Claims, Others
<1>5. ASSUME NEW a \in AgentRuns, NEW outcome \in ENDED_STATUSES, Ends(a, outcome)
      PROVE  RowStates' /\ OneInProgress'
  BY <1>0, <1>5 DEF RowStates, OneInProgress, Ends, Others
<1>6. QED
  BY <1>1, <1>2, <1>3, <1>4, <1>5 DEF RunStep

\* Writing one row of the runs.
LEMMA WritingRun ==
    ASSUME runs \in [AgentRuns -> RunRow], NEW a \in AgentRuns, NEW row \in RunRow,
           runs' = [runs EXCEPT ![a] = row]
    PROVE  runs' \in [AgentRuns -> RunRow] /\ runs'[a] = row
           /\ \A b \in AgentRuns \ {a} : runs'[b] = runs[b]
OBVIOUS

\* A run that is failed while it is in progress ends.
LEMMA Failing ==
    ASSUME TypeOK, NEW a \in AgentRuns, runs[a].status \in RUN_IN_PROGRESS_STATUSES,
           runs' = [runs EXCEPT ![a] = failedRun(@)], UNCHANGED executors
    PROVE  RunStep /\ Ends(a, "failed")
<1>1. runs[a] \in RunRow /\ runs \in [AgentRuns -> RunRow] /\ executors \in [AgentRuns -> SUBSET Tokens]
  BY DEF TypeOK, RunRow, Owners, Tokens
<1>2. failedRun(runs[a]) \in RunRow /\ failedRun(runs[a]).status = "failed"
      /\ failedRun(runs[a]).token = Null /\ failedRun(runs[a]).lease = 0
  BY <1>1, FailedRow
<1>3. runs' \in [AgentRuns -> RunRow] /\ runs'[a] = failedRun(runs[a])
      /\ \A b \in AgentRuns \ {a} : runs'[b] = runs[b]
  BY <1>1, <1>2, WritingRun
<1>4. Ends(a, "failed")
  BY <1>2, <1>3 DEF Ends, Others
<1>5. QED
  BY <1>1, <1>3, <1>4 DEF RunStep

\* failLostAgentRun fails a started run or leaves the runs alone.
LEMMA FailingLost ==
    ASSUME TypeOK, NEW a \in AgentRuns, NEW j \in Jobs, runs' = failLostRun(a, j), UNCHANGED executors
    PROVE  RunStep
<1>1. CASE runs[a].status \in STARTED_STATUSES /\ ~heldByAnother(runs[a], j)
  BY <1>1, Failing DEF failLostRun
<1>2. CASE ~(runs[a].status \in STARTED_STATUSES /\ ~heldByAnother(runs[a], j))
  <2>1. runs' = runs
    BY <1>2 DEF failLostRun
  <2>2. QED
    BY <2>1 DEF TypeOK, RunStep, Quiet, RunRow, Owners, Tokens
<1>3. QED
  BY <1>1, <1>2

\* A step that writes no run.
LEMMA NoRunStep == ASSUME TypeOK, UNCHANGED <<runs, executors>> PROVE RunStep
BY DEF TypeOK, RunStep, Quiet, RunRow, Owners, Tokens

\* The end of a run by the one who has it.
LEMMA Inserting ==
    ASSUME TypeOK, NEW a \in AgentRuns, NEW token \in Tokens, NEW type \in TerminalEvents,
           insertable(runs[a], token, Last(runs[a], type)),
           type = "run_cancelled" => runs[a].status # "running",
           runs' = [runs EXCEPT ![a] = insertedRun(@, Last(@, type))], UNCHANGED executors
    PROVE  RunStep /\ runs[a].token = token /\ Ends(a, terminalStatus(type))
<1>1. runs[a] \in RunRow /\ runs \in [AgentRuns -> RunRow] /\ executors \in [AgentRuns -> SUBSET Tokens]
  BY DEF TypeOK, RunRow, Owners, Tokens
<1> DEFINE new == insertedRun(runs[a], Last(runs[a], type))
<1>2. /\ runs[a].token = token /\ runs[a].status \in STARTED_STATUSES
      /\ type = "run_completed" => runs[a].status = "running"
      /\ new \in RunRow /\ new.status = terminalStatus(type) /\ new.token = Null /\ new.lease = 0
  BY <1>1, InsertedRow
<1>3. runs' = [runs EXCEPT ![a] = new]
  OBVIOUS
<1> HIDE DEF new
<1>4. runs' \in [AgentRuns -> RunRow] /\ runs'[a] = new /\ \A b \in AgentRuns \ {a} : runs'[b] = runs[b]
  BY <1>1, <1>2, <1>3, WritingRun
<1>5. /\ terminalStatus(type) \in ENDED_STATUSES
      /\ terminalStatus(type) = "completed" => type = "run_completed"
      /\ terminalStatus(type) = "cancelled" => type = "run_cancelled"
  BY DEF terminalStatus, TerminalEvents
<1>6. Ends(a, terminalStatus(type))
  BY <1>2, <1>4, <1>5 DEF Ends, Others
<1>7. QED
  BY <1>1, <1>2, <1>4, <1>5, <1>6 DEF RunStep

\* A run is given to whoever claims it while it is queued.
LEMMA Claiming ==
    ASSUME TypeOK, NEW a \in AgentRuns, NEW owner \in Owners, NEW x \in Tokens, NEW ms \in Nat,
           claimableRun(runs[a]), x = Previous => owner = Previous,
           runs' = [runs EXCEPT ![a] = claimedRun(@, owner, x, ms)],
           executors' = [executors EXCEPT ![a] = @ \cup {x}]
    PROVE  RunStep /\ Claims(a, x)
<1>1. runs[a] \in RunRow /\ runs \in [AgentRuns -> RunRow] /\ executors \in [AgentRuns -> SUBSET Tokens]
  BY DEF TypeOK, RunRow, Owners, Tokens
<1> DEFINE new == claimedRun(runs[a], owner, x, ms)
<1>2. new \in RunRow /\ new.status = "running" /\ new.token = x /\ new.owner = owner
  BY <1>1, StartingRows
<1>3. runs' = [runs EXCEPT ![a] = new]
  OBVIOUS
<1> HIDE DEF new
<1>4. runs' \in [AgentRuns -> RunRow] /\ runs'[a] = new /\ \A b \in AgentRuns \ {a} : runs'[b] = runs[b]
  BY <1>1, <1>2, <1>3, WritingRun
<1>5. /\ executors' \in [AgentRuns -> SUBSET Tokens] /\ executors'[a] = executors[a] \cup {x}
      /\ \A b \in AgentRuns \ {a} : executors'[b] = executors[b]
  BY <1>1
<1>6. Claims(a, x)
  BY <1>2, <1>4, <1>5 DEF Claims, Others, claimableRun
<1>7. QED
  BY <1>4, <1>5, <1>6 DEF RunStep

\* A heartbeat of an attempt or of the previous release.
LEMMA Renewing ==
    ASSUME TypeOK, NEW a \in AgentRuns, NEW x \in Tokens, NEW ms \in Nat,
           runs' = [runs EXCEPT ![a] = renewedRun(@, x, ms)], UNCHANGED executors
    PROVE  RunStep
<1>1. runs[a] \in RunRow /\ runs \in [AgentRuns -> RunRow] /\ executors \in [AgentRuns -> SUBSET Tokens]
  BY DEF TypeOK, RunRow, Owners, Tokens
<1> DEFINE new == renewedRun(runs[a], x, ms)
<1>2. /\ new \in RunRow /\ new.status = runs[a].status /\ new.token = runs[a].token
      /\ new.owner = runs[a].owner /\ (runs[a].status \notin STARTED_STATUSES => new = runs[a])
  BY <1>1 DEF renewedRun, claimedRunWhere, RunRow, AgentRunRow
<1>3. runs' = [runs EXCEPT ![a] = new]
  OBVIOUS
<1> HIDE DEF new
<1>4. runs' \in [AgentRuns -> RunRow] /\ runs'[a] = new /\ \A b \in AgentRuns \ {a} : runs'[b] = runs[b]
  BY <1>1, <1>2, <1>3, WritingRun
<1>5. Quiet
  BY <1>2, <1>4 DEF Quiet
<1>6. QED
  BY <1>1, <1>4, <1>5 DEF RunStep

\* A run is accepted, with its job or by the previous release.
LEMMA Accepting ==
    ASSUME TypeOK, NEW a \in AgentRuns, runs[a].status = "none", ConversationFree,
           runs' = [runs EXCEPT ![a] = acceptedRun], UNCHANGED executors
    PROVE  RunStep
<1>1. runs[a] \in RunRow /\ runs \in [AgentRuns -> RunRow] /\ executors \in [AgentRuns -> SUBSET Tokens]
  BY DEF TypeOK, RunRow, Owners, Tokens
<1>2. /\ acceptedRun \in RunRow /\ acceptedRun.status = "queued" /\ acceptedRun.token = Null
      /\ acceptedRun.lease = 0
  BY DEF RunRow, AgentRunRow, NoAgentRun, acceptedRun, RunStatus
<1>3. runs' \in [AgentRuns -> RunRow] /\ runs'[a] = acceptedRun
      /\ \A b \in AgentRuns \ {a} : runs'[b] = runs[b]
  BY <1>1, <1>2, WritingRun
<1>4. Accepts(a)
  BY <1>2, <1>3 DEF Accepts, Others
<1>5. QED
  BY <1>1, <1>3, <1>4 DEF RunStep

\* Every action does one of these things to the runs.
LEMMA RunSteps == ASSUME IInv, Next PROVE RunStep
<1>0. /\ TypeOK /\ Previous \in Owners /\ Previous \in Tokens /\ Runs \subseteq Tokens
      /\ Jobs \subseteq Owners /\ LeaseMs[Execute] \in Nat /\ Previous \notin Runs
  BY DEF IInv, Owners, Tokens
<1>00. /\ runs \in [AgentRuns -> RunRow] /\ executors \in [AgentRuns -> SUBSET Tokens]
       /\ \A a \in AgentRuns : runs[a] \in RunRow
       /\ \A r \in Runs : att[r].phase # "idle" => att[r].job \in Jobs /\ att[r].run \in AgentRuns
  BY <1>0 DEF TypeOK, RunRow, Owners, Tokens
<1>1. ASSUME NEW a \in AgentRuns, AcceptRun(a) \/ PreviousAccepts(a) PROVE RunStep
  BY <1>0, <1>1, Accepting DEF AcceptRun, PreviousAccepts
<1>2. ASSUME NEW a \in AgentRuns, RequestCancellation(a) PROVE RunStep
  <2> DEFINE new == cancelRequested(runs[a])
  <2>1. /\ new \in RunRow
        /\ runs[a].status = "queued" => new.status = "cancelled"
        /\ runs[a].status \in STARTED_STATUSES => new.status = "cancelling"
        /\ new.token = runs[a].token /\ new.owner = runs[a].owner /\ new.lease = runs[a].lease
    BY <1>00, <1>2, CancelledRow DEF RequestCancellation
  <2>2. runs' = [runs EXCEPT ![a] = new] /\ UNCHANGED executors
    BY <1>2 DEF RequestCancellation
  <2> HIDE DEF new
  <2>3. runs' \in [AgentRuns -> RunRow] /\ runs'[a] = new /\ \A b \in AgentRuns \ {a} : runs'[b] = runs[b]
    BY <1>00, <2>1, <2>2, WritingRun
  <2>4. Cancels(a)
    BY <1>2, <2>1, <2>2, <2>3 DEF Cancels, Others, RequestCancellation
  <2>5. QED
    BY <1>00, <2>2, <2>3, <2>4 DEF RunStep
<1>3. ASSUME NEW a \in AgentRuns, PreviousClaims(a) PROVE RunStep
  BY <1>0, <1>3, Claiming DEF PreviousClaims
<1>4. ASSUME NEW a \in AgentRuns, PreviousRenews(a) PROVE RunStep
  BY <1>0, <1>4, Renewing DEF PreviousRenews
<1>5. ASSUME NEW a \in AgentRuns, PreviousEnds(a) PROVE RunStep
  <2> DEFINE type == IF runs[a].status = "running" THEN "run_completed" ELSE "run_cancelled"
  <2>1. /\ type \in TerminalEvents /\ (type = "run_cancelled" => runs[a].status # "running")
        /\ insertable(runs[a], Previous, Last(runs[a], type))
        /\ runs' = [runs EXCEPT ![a] = insertedRun(@, Last(@, type))] /\ UNCHANGED executors
    BY <1>5 DEF PreviousEnds, TerminalEvents, Last
  <2> HIDE DEF type
  <2>2. QED
    BY <1>0, <2>1, Inserting
<1>6. ASSUME ClockTick PROVE RunStep
  <2> DEFINE row(a) == [runs[a] EXCEPT !.lease = IF @ > 0 THEN @ - 1 ELSE 0,
                              !.queuedFor = IF runs[a].status = "queued" /\ @ < MaxQueued
                                            THEN @ + 1 ELSE @]
  <2>1. runs' = [a \in AgentRuns |-> row(a)] /\ UNCHANGED executors
    BY <1>6 DEF ClockTick
  <2>2. ASSUME NEW a \in AgentRuns
        PROVE  /\ row(a) \in RunRow
               /\ row(a).status = runs[a].status /\ row(a).token = runs[a].token
               /\ row(a).owner = runs[a].owner
               /\ runs[a].status \notin STARTED_STATUSES => row(a).lease = runs[a].lease
               /\ runs[a].status \in ENDED_STATUSES => row(a) = runs[a]
    <3>1. runs[a] \in RunRow /\ runs[a].lease \in Nat /\ runs[a].queuedFor \in Nat
      BY <1>00 DEF RunRow, AgentRunRow
    <3>2. runs[a].status \notin STARTED_STATUSES => runs[a].lease = 0
      BY DEF IInv, RowStates
    <3> DEFINE lease == IF runs[a].lease > 0 THEN runs[a].lease - 1 ELSE 0
               waited == IF runs[a].status = "queued" /\ runs[a].queuedFor < MaxQueued
                         THEN runs[a].queuedFor + 1 ELSE runs[a].queuedFor
    <3>3. /\ lease \in Nat /\ waited \in Nat
          /\ runs[a].status \notin STARTED_STATUSES => lease = runs[a].lease
          /\ runs[a].status # "queued" => waited = runs[a].queuedFor
      BY <3>1, <3>2
    <3>4. row(a) = [runs[a] EXCEPT !.lease = lease, !.queuedFor = waited]
      OBVIOUS
    <3> HIDE DEF row, lease, waited
    <3>5. /\ row(a) \in RunRow /\ row(a).status = runs[a].status /\ row(a).token = runs[a].token
          /\ row(a).owner = runs[a].owner /\ row(a).lease = lease
      BY <3>1, <3>3, <3>4 DEF RunRow, AgentRunRow
    <3>55. ASSUME lease = runs[a].lease, waited = runs[a].queuedFor PROVE row(a) = runs[a]
      BY <3>1, <3>4, <3>55 DEF RunRow, AgentRunRow
    <3>6. QED
      BY <3>3, <3>5, <3>55
  <2> HIDE DEF row
  <2>3. runs' \in [AgentRuns -> RunRow] /\ Quiet
    BY <2>1, <2>2 DEF Quiet
  <2>4. QED
    BY <1>00, <2>1, <2>3 DEF RunStep
<1>7. ASSUME NEW r \in Runs, ClaimAgentRunForJob(r) PROVE RunStep
  <2>1. att[r].job \in Jobs /\ att[r].run \in AgentRuns /\ r \in Tokens /\ r # Previous
    BY <1>0, <1>00, <1>7 DEF ClaimAgentRunForJob
  <2>2. CASE claimableRun(runs[att[r].run])
    BY <1>0, <1>7, <2>1, <2>2, Claiming DEF ClaimAgentRunForJob
  <2>3. CASE ~claimableRun(runs[att[r].run])
    BY <1>0, <1>7, <2>1, <2>3, FailingLost DEF ClaimAgentRunForJob
  <2>4. QED
    BY <2>2, <2>3
<1>8. ASSUME NEW r \in Runs, HeartbeatJob(r) PROVE RunStep
  <2>1. att[r].run \in AgentRuns /\ r \in Tokens
    BY <1>0, <1>00, <1>8 DEF HeartbeatJob
  <2>2. QED
    BY <1>0, <1>8, <2>1, Renewing DEF HeartbeatJob
<1>9. ASSUME NEW r \in Runs, NEW type \in TerminalEvents, EndRun(r, type) PROVE RunStep
  <2>1. att[r].run \in AgentRuns /\ r \in Tokens
    BY <1>0, <1>00, <1>9 DEF EndRun
  <2>2. /\ insertable(runs[att[r].run], r, Last(runs[att[r].run], type))
        /\ type = "run_cancelled" => runs[att[r].run].status # "running"
        /\ runs' = [runs EXCEPT ![att[r].run] = insertedRun(@, Last(@, type))] /\ UNCHANGED executors
    BY <1>9 DEF EndRun, Last
  <2>3. QED
    BY <1>0, <2>1, <2>2, Inserting
<1>10. ASSUME NEW r \in Runs, Settle(r) PROVE RunStep
  <2>1. att[r].job \in Jobs /\ att[r].run \in AgentRuns
    BY <1>00, <1>10 DEF Settle
  <2>2. UNCHANGED executors /\ (UNCHANGED runs \/ runs' = failLostRun(att[r].run, att[r].job))
    BY <1>10 DEF Settle
  <2>3. QED
    BY <1>0, <2>1, <2>2, FailingLost, NoRunStep
<1>11. ASSUME NEW j \in Jobs, BuryExhausted(j) PROVE RunStep
  <2>1. jobs[j].key \in AgentRuns
    BY <1>0, <1>11 DEF BuryExhausted, exhausted, LeaseExpired, TypeOK
  <2>2. UNCHANGED executors /\ (UNCHANGED runs \/ runs' = failLostRun(jobs[j].key, j))
    BY <1>11 DEF BuryExhausted
  <2>3. QED
    BY <1>0, <2>1, <2>2, FailingLost, NoRunStep
<1>12. ASSUME NEW u \in Upkeeps, UpkeepFails(u) PROVE RunStep
  <2>1. UNCHANGED executors
        /\ runs' = [a \in AgentRuns |-> IF WithoutWorker(a) \/ QueuedTooLong(a)
                                        THEN failedRun(runs[a]) ELSE runs[a]]
    BY <1>12 DEF UpkeepFails
  <2>2. CASE \A a \in AgentRuns : ~(WithoutWorker(a) \/ QueuedTooLong(a))
    <3>1. runs' = runs
      BY <1>00, <2>1, <2>2
    <3>2. QED
      BY <1>0, <2>1, <3>1, NoRunStep
  <2>3. ASSUME NEW a \in AgentRuns, WithoutWorker(a) \/ QueuedTooLong(a) PROVE RunStep
    <3>1. \A b \in AgentRuns : WithoutWorker(b) \/ QueuedTooLong(b) =>
              runs[b].status \in RUN_IN_PROGRESS_STATUSES
      BY DEF WithoutWorker, QueuedTooLong
    <3>2. \A b \in AgentRuns \ {a} : ~(WithoutWorker(b) \/ QueuedTooLong(b))
      BY <2>3, <3>1 DEF IInv, OneInProgress
    <3>3. runs' = [runs EXCEPT ![a] = failedRun(@)]
      BY <1>00, <2>1, <2>3, <3>2
    <3>4. QED
      BY <1>0, <2>1, <2>3, <3>1, <3>3, Failing
  <2>4. QED
    BY <2>2, <2>3
<1>13. ASSUME UNCHANGED <<runs, executors>> PROVE RunStep
  BY <1>0, <1>13, NoRunStep
<1>14. QED
  BY <1>1, <1>2, <1>3, <1>4, <1>5, <1>6, <1>7, <1>8, <1>9, <1>10, <1>11, <1>12, <1>13
     DEF Next, Api, PreviousDeploy, AttemptStep, UpkeepStep, ClaimJob, FindEnded, HandlerThrows,
         ReleaseActive, Crash, PruneEndedJobs, UpkeepBegins, UpkeepAbandoned, UpkeepAdopts

-----------------------------------------------------------------------------
\* What a step does to the jobs and the attempts.

JobsKept ==
    \A j \in Jobs : jobs'[j] = jobs[j] \/ Same(jobs[j], jobs'[j]) \/ jobs'[j] = NoRow

Enqueues(j, a) ==
    /\ jobs[j].status = "none" /\ LiveJobs(a) = {}
    /\ jobs' = [jobs EXCEPT ![j] = QueuedRow(Execute, a, Null, 0)]

\* An attempt goes on with the job and the run it has, or is over.
AttemptsKept ==
    \A r \in Runs : att'[r].phase # "idle" =>
        att[r].phase # "idle" /\ att'[r].job = att[r].job /\ att'[r].run = att[r].run

JobStep ==
    /\ jobs' \in [Jobs -> JobRow]
    /\ JobsKept \/ \E j \in Jobs, a \in AgentRuns : Enqueues(j, a)

\* Such a step keeps what the invariant says of the jobs, and gives no lease out.
LEMMA JobStepKeeps ==
    ASSUME IInv, JobStep
    PROVE  /\ \A j \in Jobs : jobs'[j].status # "none" => jobs'[j].kind = Execute /\ jobs'[j].key \in Keys
           /\ OneLiveJob'
           /\ \A j \in Jobs, r \in Runs :
                 jobs'[j].token = r => jobs[j].token = r /\ jobs'[j].key = jobs[j].key
<1>0. /\ \A j \in Jobs : jobs[j].status # "none" => jobs[j].kind = Execute /\ jobs[j].key \in Keys
      /\ OneLiveJob /\ jobs \in [Jobs -> JobRow]
  BY DEF IInv, TypeOK
<1>1. CASE JobsKept
  <2>1. NoRow.status = "none" /\ NoRow.token = Null
    BY DEF NoRow
  <2>2. \A j \in Jobs : jobs'[j].status # "none" =>
            /\ jobs[j].status # "none" /\ jobs'[j].kind = jobs[j].kind /\ jobs'[j].key = jobs[j].key
            /\ Live(jobs'[j]) => Live(jobs[j])
    BY <1>1, <2>1 DEF JobsKept, Same
  <2>3. \A j \in Jobs : Live(jobs'[j]) => jobs'[j].status # "none"
    BY DEF Live
  <2>4. OneLiveJob'
    BY <1>0, <2>2, <2>3 DEF OneLiveJob
  <2>5. \A j \in Jobs, r \in Runs :
            jobs'[j].token = r => jobs[j].token = r /\ jobs'[j].key = jobs[j].key
    BY <1>1, <2>1 DEF JobsKept, Same
  <2>6. QED
    BY <1>0, <2>2, <2>4, <2>5
<1>2. ASSUME NEW j \in Jobs, NEW a \in AgentRuns, Enqueues(j, a)
      PROVE  /\ \A i \in Jobs : jobs'[i].status # "none" => jobs'[i].kind = Execute /\ jobs'[i].key \in Keys
             /\ OneLiveJob'
             /\ \A i \in Jobs, r \in Runs :
                   jobs'[i].token = r => jobs[i].token = r /\ jobs'[i].key = jobs[i].key
  <2>1. /\ jobs'[j].status = "queued" /\ jobs'[j].kind = Execute /\ jobs'[j].key = a
        /\ jobs'[j].token = Null
        /\ \A i \in Jobs \ {j} : jobs'[i] = jobs[i]
    BY <1>0, <1>2 DEF Enqueues, QueuedRow, NoRow
  <2>2. \A i \in Jobs \ {j} : Live(jobs[i]) => jobs[i].key # a
    BY <1>2 DEF Enqueues, LiveJobs
  <2>3. OneLiveJob'
    BY <1>0, <2>1, <2>2 DEF OneLiveJob
  <2>4. QED
    BY <1>0, <2>1, <2>3
<1>3. QED
  BY <1>1, <1>2 DEF JobStep

\* Writing one row of the jobs.
LEMMA WritingJob ==
    ASSUME jobs \in [Jobs -> JobRow], NEW j \in Jobs, NEW row, Same(jobs[j], row) \/ row = NoRow,
           jobs' = [jobs EXCEPT ![j] = row]
    PROVE  JobStep
<1>1. row \in JobRow
  BY DEF Same, NoRow, JobRow, JobStatus
<1>2. QED
  BY <1>1 DEF JobStep, JobsKept

\* enqueueJob inserts a row under a key that has no live job, or nothing.
LEMMA Enqueueing ==
    ASSUME TypeOK, NEW a \in AgentRuns, EnqueueExecute(a) PROVE JobStep
<1>1. CASE UNCHANGED jobs
  BY <1>1 DEF TypeOK, JobStep, JobsKept
<1>2. ASSUME NEW j \in Jobs, LiveJobs(a) = {}, jobs[j].status = "none",
             jobs' = [jobs EXCEPT ![j] = QueuedRow(Execute, a, Null, 0)]
      PROVE  JobStep
  <2>1. QueuedRow(Execute, a, Null, 0) \in JobRow
    <3>1. a \in DedupeKeys /\ Execute \in Kinds
      BY DEF DedupeKeys
    <3>2. NoRow \in JobRow /\ "queued" \in JobStatus
      BY DEF NoRow, JobRow, JobStatus
    <3>3. QED
      BY <3>1, <3>2 DEF QueuedRow, NoRow, JobRow
  <2>2. QED
    BY <1>2, <2>1 DEF TypeOK, JobStep, Enqueues
<1>3. QED
  BY <1>1, <1>2 DEF EnqueueExecute

\* Every action but the claim of a job does one of these things to the jobs.
LEMMA JobSteps ==
    ASSUME IInv, Next PROVE JobStep \/ \E j \in Jobs, r \in Runs : ClaimJob(j, r)
<1>0. /\ TypeOK /\ jobs \in [Jobs -> JobRow]
      /\ \A j \in Jobs : jobs[j].status # "none" => jobs[j].kind = Execute
      /\ \A r \in Runs : att[r].phase # "idle" => att[r].job \in Jobs
  BY DEF IInv, TypeOK
<1>00. ASSUME NEW j \in Jobs, jobs[j].status = "running"
       PROVE  /\ Same(jobs[j], renewed(jobs[j])) /\ Same(jobs[j], ended(jobs[j], "succeeded"))
              /\ Same(jobs[j], released(jobs[j])) /\ Same(jobs[j], ended(jobs[j], "dead"))
  BY <1>0, <1>00, SameRows
<1>1. ASSUME NEW a \in AgentRuns, EnqueueExecute(a) PROVE JobStep
  BY <1>0, <1>1, Enqueueing
<1>2. ASSUME ClockTick PROVE JobStep
  <2>1. jobs' = [j \in Jobs |-> aged(jobs[j])]
    BY <1>2 DEF ClockTick
  <2>2. \A j \in Jobs : Same(jobs[j], aged(jobs[j]))
    BY <1>0, AgedRow
  <2>3. \A j \in Jobs : aged(jobs[j]) \in JobRow
    BY <2>2 DEF Same
  <2>4. QED
    BY <2>1, <2>2, <2>3 DEF JobStep, JobsKept
<1>3. ASSUME NEW j \in Jobs, PruneEndedJobs(j) PROVE JobStep
  BY <1>0, <1>3, WritingJob DEF PruneEndedJobs
<1>4. ASSUME NEW j \in Jobs, BuryExhausted(j) PROVE JobStep
  <2>1. jobs[j].status = "running" /\ jobs' = [jobs EXCEPT ![j] = ended(jobs[j], "dead")]
    BY <1>4 DEF BuryExhausted, exhausted, LeaseExpired
  <2>2. Same(jobs[j], ended(jobs[j], "dead"))
    BY <1>00, <2>1
  <2>3. QED
    BY <1>0, <2>1, <2>2, WritingJob
<1>5. ASSUME NEW r \in Runs, att[r].phase # "idle", Held(r),
             \/ jobs' = [jobs EXCEPT ![att[r].job] = renewed(jobs[att[r].job])]
             \/ jobs' = [jobs EXCEPT ![att[r].job] = ended(jobs[att[r].job], "succeeded")]
             \/ jobs' = [jobs EXCEPT ![att[r].job] = released(jobs[att[r].job])]
             \/ jobs' = [jobs EXCEPT ![att[r].job] = ended(jobs[att[r].job], "dead")]
      PROVE  JobStep
  <2>1. att[r].job \in Jobs /\ jobs[att[r].job].status = "running"
    BY <1>0, <1>5 DEF Held, heldBy
  <2>3. /\ Same(jobs[att[r].job], renewed(jobs[att[r].job]))
        /\ Same(jobs[att[r].job], ended(jobs[att[r].job], "succeeded"))
        /\ Same(jobs[att[r].job], released(jobs[att[r].job]))
        /\ Same(jobs[att[r].job], ended(jobs[att[r].job], "dead"))
    BY <1>00, <2>1
  <2>4. QED
    BY <1>0, <1>5, <2>1, <2>3, WritingJob
<1>6. ASSUME UNCHANGED jobs PROVE JobStep
  BY <1>0, <1>6 DEF JobStep, JobsKept
<1>7. ASSUME NEW r \in Runs, ClaimAgentRunForJob(r) \/ HeartbeatJob(r) PROVE JobStep
  <2>1. /\ att[r].phase # "idle" /\ Held(r)
        /\ jobs' = [jobs EXCEPT ![att[r].job] = renewed(jobs[att[r].job])]
    BY <1>7 DEF ClaimAgentRunForJob, HeartbeatJob
  <2>2. QED
    BY <1>5, <2>1
<1>8. ASSUME NEW r \in Runs, Settle(r) PROVE JobStep
  <2>1. att[r].phase # "idle"
    BY <1>8 DEF Settle
  <2>2. \/ UNCHANGED jobs
        \/ /\ Held(r)
           /\ \/ jobs' = [jobs EXCEPT ![att[r].job] = ended(jobs[att[r].job], "succeeded")]
              \/ jobs' = [jobs EXCEPT ![att[r].job] = released(jobs[att[r].job])]
              \/ jobs' = [jobs EXCEPT ![att[r].job] = ended(jobs[att[r].job], "dead")]
    BY <1>8 DEF Settle
  <2>3. QED
    BY <1>5, <1>6, <2>1, <2>2
<1>9. ASSUME NEW r \in Runs, ReleaseActive(r) PROVE JobStep
  <2>1. /\ att[r].phase # "idle"
        /\ \/ UNCHANGED jobs
           \/ Held(r) /\ jobs' = [jobs EXCEPT ![att[r].job] = released(jobs[att[r].job])]
    BY <1>9 DEF ReleaseActive
  <2>2. QED
    BY <1>5, <1>6, <2>1
<1>10. ASSUME Api PROVE JobStep
  BY <1>1, <1>6, <1>10 DEF Api, AcceptRun, RequestCancellation
<1>11. ASSUME NEW u \in Upkeeps, UpkeepStep(u) PROVE JobStep
  BY <1>1, <1>6, <1>11 DEF UpkeepStep, UpkeepBegins, UpkeepFails, UpkeepAbandoned, UpkeepAdopts
<1>12. ASSUME PreviousDeploy PROVE JobStep
  BY <1>6, <1>12 DEF PreviousDeploy, PreviousAccepts, PreviousClaims, PreviousRenews, PreviousEnds
<1>13. QED
  BY <1>2, <1>3, <1>4, <1>6, <1>7, <1>8, <1>9, <1>10, <1>11, <1>12
     DEF Next, AttemptStep, FindEnded, HandlerThrows, EndRun, Crash

\* Every action but the claim of a job leaves an attempt its job and its run.
LEMMA AttemptSteps ==
    ASSUME IInv, Next
    PROVE  /\ att' \in [Runs -> Attempt]
           /\ AttemptsKept \/ \E j \in Jobs, r \in Runs : ClaimJob(j, r)
           /\ upkeep' \in [Upkeeps -> [on: BOOLEAN, todo: SUBSET AgentRuns]] /\ stops' \in Nat
<1>0. /\ att \in [Runs -> Attempt] /\ NoAttempt \in Attempt /\ NoAttempt.phase = "idle" /\ stops \in Nat
      /\ upkeep \in [Upkeeps -> [on: BOOLEAN, todo: SUBSET AgentRuns]]
  BY DEF IInv, TypeOK, NoAttempt, Attempt
<1>1. ASSUME UNCHANGED att PROVE att' \in [Runs -> Attempt] /\ AttemptsKept
  BY <1>0, <1>1 DEF AttemptsKept
<1>2. ASSUME NEW r \in Runs, att' = [att EXCEPT ![r] = NoAttempt]
      PROVE  att' \in [Runs -> Attempt] /\ AttemptsKept
  BY <1>0, <1>2 DEF AttemptsKept
<1>3. ASSUME NEW r \in Runs, att[r].phase # "idle",
             NEW phase \in {"executing", "settling"},
             NEW outcome \in {"none", "succeeded", "exhausted", "released"},
             \/ att' = [att EXCEPT ![r].phase = phase, ![r].outcome = outcome]
             \/ att' = [att EXCEPT ![r].phase = phase]
             \/ att' = [att EXCEPT ![r].released = TRUE]
      PROVE  att' \in [Runs -> Attempt] /\ AttemptsKept
  <2>1. /\ att'[r].job = att[r].job /\ att'[r].run = att[r].run
        /\ \A q \in Runs \ {r} : att'[q] = att[q]
    <3>1. att[r] \in [phase: {"idle", "claiming", "executing", "settling"}, job: Jobs \cup {Null},
            run: AgentRuns \cup {Null}, outcome: {"none", "succeeded", "exhausted", "released"},
            released: BOOLEAN] /\ DOMAIN att = Runs
      BY <1>0 DEF Attempt
    <3>2. QED
      BY <1>3, <3>1
  <2>2. ASSUME att' = [att EXCEPT ![r].phase = phase, ![r].outcome = outcome]
        PROVE  att' \in [Runs -> Attempt]
    <3>1. att' = [att EXCEPT ![r] = [att[r] EXCEPT !.phase = phase, !.outcome = outcome]]
      BY <1>0, <2>2
    <3>2. [att[r] EXCEPT !.phase = phase, !.outcome = outcome] \in Attempt
      BY <1>0 DEF Attempt
    <3>3. QED
      BY <1>0, <3>1, <3>2
  <2>3. ASSUME att' = [att EXCEPT ![r].phase = phase] PROVE att' \in [Runs -> Attempt]
    <3>1. att' = [att EXCEPT ![r] = [att[r] EXCEPT !.phase = phase]]
      BY <1>0, <2>3
    <3>2. [att[r] EXCEPT !.phase = phase] \in Attempt
      BY <1>0 DEF Attempt
    <3>3. QED
      BY <1>0, <3>1, <3>2
  <2>4. ASSUME att' = [att EXCEPT ![r].released = TRUE] PROVE att' \in [Runs -> Attempt]
    <3>1. att' = [att EXCEPT ![r] = [att[r] EXCEPT !.released = TRUE]]
      BY <1>0, <2>4
    <3>2. [att[r] EXCEPT !.released = TRUE] \in Attempt
      BY <1>0 DEF Attempt
    <3>3. QED
      BY <1>0, <3>1, <3>2
  <2>5. QED
    BY <1>3, <2>1, <2>2, <2>3, <2>4 DEF AttemptsKept
<1>4. ASSUME NEW r \in Runs, NEW j \in Jobs, ClaimJob(j, r) PROVE att' \in [Runs -> Attempt]
  <2>1. jobs[j].key \in AgentRuns
    BY <1>4 DEF ClaimJob, IInv, TypeOK
  <2>2. QED
    BY <1>0, <1>4, <2>1 DEF ClaimJob, Attempt, NoAttempt
<1>5. ASSUME NEW r \in Runs, AttemptStep(r)
      PROVE  /\ att' \in [Runs -> Attempt]
             /\ AttemptsKept \/ \E j \in Jobs : ClaimJob(j, r)
  <2>1. CASE ClaimAgentRunForJob(r)
    BY <1>3, <2>1 DEF ClaimAgentRunForJob
  <2>2. CASE FindEnded(r)
    BY <1>3, <2>2 DEF FindEnded
  <2>3. CASE HandlerThrows(r)
    BY <1>3, <2>3 DEF HandlerThrows
  <2>4. ASSUME NEW type \in TerminalEvents, EndRun(r, type)
        PROVE  att' \in [Runs -> Attempt] /\ AttemptsKept
    BY <1>3, <2>4 DEF EndRun
  <2>5. CASE ReleaseActive(r)
    BY <1>3, <2>5 DEF ReleaseActive
  <2>6. CASE Settle(r) \/ Crash(r)
    BY <1>2, <2>6 DEF Settle, Crash
  <2>7. CASE HeartbeatJob(r)
    BY <1>1, <2>7 DEF HeartbeatJob
  <2>8. QED
    BY <1>4, <1>5, <2>1, <2>2, <2>3, <2>4, <2>5, <2>6, <2>7 DEF AttemptStep
<1>6. att' \in [Runs -> Attempt] /\ (AttemptsKept \/ \E j \in Jobs, r \in Runs : ClaimJob(j, r))
  BY <1>1, <1>5 DEF Next, Api, AcceptRun, RequestCancellation, PreviousDeploy, PreviousAccepts,
     PreviousClaims, PreviousRenews, PreviousEnds, ClockTick, PruneEndedJobs, BuryExhausted,
     UpkeepStep, UpkeepBegins, UpkeepFails, UpkeepAbandoned, UpkeepAdopts
<1>7. stops' \in Nat
  <2>1. UNCHANGED stops \/ stops' = stops + 1
    BY DEF Next, Api, AcceptRun, RequestCancellation, PreviousDeploy, PreviousAccepts,
     PreviousClaims, PreviousRenews, PreviousEnds, ClockTick, PruneEndedJobs, BuryExhausted,
     UpkeepStep, UpkeepBegins, UpkeepFails, UpkeepAbandoned, UpkeepAdopts, AttemptStep, ClaimJob,
     ClaimAgentRunForJob, HeartbeatJob, FindEnded, HandlerThrows, Settle, EndRun, ReleaseActive, Crash
  <2>2. QED
    BY <1>0, <2>1
<1>8. ASSUME NEW u \in Upkeeps, UpkeepStep(u)
      PROVE  upkeep' \in [Upkeeps -> [on: BOOLEAN, todo: SUBSET AgentRuns]]
  <2>1. CASE UpkeepBegins(u)
    BY <1>0, <2>1 DEF UpkeepBegins
  <2>2. CASE UpkeepFails(u)
    <3>1. upkeep' = [upkeep EXCEPT ![u].on = FALSE]
      BY <2>2 DEF UpkeepFails
    <3>2. upkeep[u].todo \in SUBSET AgentRuns /\ upkeep' = [upkeep EXCEPT ![u] = [upkeep[u] EXCEPT !.on = FALSE]]
      BY <1>0, <3>1
    <3>3. [upkeep[u] EXCEPT !.on = FALSE] \in [on: BOOLEAN, todo: SUBSET AgentRuns]
      <4>1. upkeep[u] \in [on: BOOLEAN, todo: SUBSET AgentRuns] /\ FALSE \in BOOLEAN
        BY <1>0
      <4>2. QED
        BY <4>1
    <3>4. QED
      BY <1>0, <3>2, <3>3
  <2>3. CASE UpkeepAbandoned(u)
    BY <1>0, <2>3 DEF UpkeepAbandoned
  <2>4. ASSUME NEW a \in AgentRuns, UpkeepAdopts(u, a)
        PROVE  upkeep' \in [Upkeeps -> [on: BOOLEAN, todo: SUBSET AgentRuns]]
    BY <1>0, <2>4 DEF UpkeepAdopts
  <2>5. QED
    BY <1>8, <2>1, <2>2, <2>3, <2>4 DEF UpkeepStep
<1>9. upkeep' \in [Upkeeps -> [on: BOOLEAN, todo: SUBSET AgentRuns]]
  BY <1>0, <1>8 DEF Next, Api, AcceptRun, RequestCancellation, PreviousDeploy, PreviousAccepts,
     PreviousClaims, PreviousRenews, PreviousEnds, ClockTick, PruneEndedJobs, BuryExhausted,
     AttemptStep, ClaimJob, ClaimAgentRunForJob, HeartbeatJob, FindEnded, HandlerThrows, Settle,
     EndRun, ReleaseActive, Crash
<1>10. QED
  BY <1>6, <1>7, <1>9

-----------------------------------------------------------------------------
\* Every step preserves the invariant.

\* A run is claimed by the attempt of its job, or by the previous release.
LEMMA ClaimsOwn ==
    ASSUME IInv, Next, NEW a \in AgentRuns, NEW x \in Runs, Claims(a, x)
    PROVE  att[x].run = a
<1>0. x # Previous
  OBVIOUS
<1>1. executors[a] = {} /\ executors'[a] = {x}
  BY DEF Claims, IInv, RowStates
<1>2. \/ \E b \in AgentRuns : PreviousClaims(b)
      \/ \E r \in Runs : ClaimAgentRunForJob(r) /\ executors' = [executors EXCEPT ![att[r].run] = @ \cup {r}]
  <2>1. executors' # executors
    BY <1>1
  <2>2. QED
    BY <2>1 DEF Next, Api, AcceptRun, RequestCancellation, PreviousDeploy, PreviousAccepts,
       PreviousRenews, PreviousEnds, ClockTick, PruneEndedJobs, BuryExhausted, UpkeepStep,
       UpkeepBegins, UpkeepFails, UpkeepAbandoned, UpkeepAdopts, AttemptStep, ClaimJob, HeartbeatJob,
       FindEnded, HandlerThrows, Settle, EndRun, ReleaseActive, Crash, ClaimAgentRunForJob
<1>3. ASSUME NEW b \in AgentRuns, PreviousClaims(b) PROVE FALSE
  BY <1>0, <1>1, <1>3 DEF PreviousClaims, IInv, TypeOK
<1>4. ASSUME NEW r \in Runs, executors' = [executors EXCEPT ![att[r].run] = @ \cup {r}] PROVE att[x].run = a
  BY <1>1, <1>4 DEF IInv, TypeOK
<1>5. QED
  BY <1>2, <1>3, <1>4

\* The claim of a job: the attempt is new, and so is its lease.
LEMMA ClaimingJob ==
    ASSUME IInv, NEW j \in Jobs, NEW r \in Runs, ClaimJob(j, r), att' \in [Runs -> Attempt]
    PROVE  /\ jobs' \in [Jobs -> JobRow]
           /\ \A i \in Jobs : jobs'[i].status # "none" => jobs'[i].kind = Execute /\ jobs'[i].key \in Keys
           /\ \A q \in Runs : att'[q].phase # "idle" => att'[q].job \in Jobs /\ att'[q].run \in AgentRuns
           /\ OneLiveJob' /\ OwnLeases'
<1>0. /\ jobs \in [Jobs -> JobRow] /\ att \in [Runs -> Attempt]
      /\ \A i \in Jobs : jobs[i].status # "none" => jobs[i].kind = Execute /\ jobs[i].key \in Keys
      /\ \A q \in Runs : att[q].phase # "idle" => att[q].job \in Jobs /\ att[q].run \in AgentRuns
  BY DEF IInv, TypeOK
<1>1. /\ jobs[j].status = "queued" /\ (\A i \in Jobs : jobs[i].token # r)
      /\ \A a \in AgentRuns : runs[a].token # r
      /\ jobs' = [jobs EXCEPT ![j] = claimed(jobs[j], r)] /\ UNCHANGED runs
      /\ att' = [att EXCEPT ![r] = [NoAttempt EXCEPT !.phase = "claiming", !.job = j, !.run = jobs[j].key]]
  BY DEF ClaimJob
<1>2. /\ claimed(jobs[j], r) \in JobRow /\ claimed(jobs[j], r).kind = jobs[j].kind
      /\ claimed(jobs[j], r).key = jobs[j].key /\ claimed(jobs[j], r).status = "running"
      /\ claimed(jobs[j], r).token = r
  <2>1. jobs[j] \in JobRow /\ LeaseMs[jobs[j].kind] \in Nat
    BY <1>0, <1>1
  <2>2. jobs[j].attempts + 1 \in Nat /\ r \in Runs \cup {Null} /\ "running" \in JobStatus
    BY <2>1 DEF JobRow, JobStatus
  <2>3. claimed(jobs[j], r) = [jobs[j] EXCEPT !.status = "running", !.attempts = jobs[j].attempts + 1,
                                             !.token = r, !.lease = LeaseMs[jobs[j].kind]]
    BY DEF claimed
  <2>4. QED
    BY <2>1, <2>2, <2>3 DEF JobRow
<1>3. jobs'[j] = claimed(jobs[j], r) /\ \A i \in Jobs \ {j} : jobs'[i] = jobs[i]
  BY <1>0, <1>1
<1>4. /\ att'[r].job = j /\ att'[r].run = jobs[j].key
      /\ \A q \in Runs \ {r} : att'[q] = att[q]
  BY <1>0, <1>1 DEF NoAttempt
<1>5. jobs' \in [Jobs -> JobRow]
  BY <1>0, <1>1, <1>2
<1>6. \A i \in Jobs : jobs'[i].status # "none" => jobs'[i].kind = Execute /\ jobs'[i].key \in Keys
  BY <1>0, <1>1, <1>2, <1>3
<1>7. \A q \in Runs : att'[q].phase # "idle" => att'[q].job \in Jobs /\ att'[q].run \in AgentRuns
  BY <1>0, <1>1, <1>4
<1>8. OneLiveJob'
  <2>1. \A i \in Jobs : jobs'[i].key = jobs[i].key /\ (Live(jobs'[i]) => Live(jobs[i]))
    BY <1>1, <1>2, <1>3 DEF Live
  <2>2. QED
    BY <2>1 DEF IInv, OneLiveJob
<1>9. OwnLeases'
  <2>1. \A q \in Runs : att'[q].phase # "idle" /\ jobs'[att'[q].job].token = q =>
            jobs'[att'[q].job].key = att'[q].run
    BY <1>0, <1>1, <1>2, <1>3, <1>4 DEF IInv, OwnLeases
  <2>2. \A a \in AgentRuns : \A q \in Runs : runs'[a].token = q /\ att'[q].phase # "idle" =>
            att'[q].run = a
    BY <1>1, <1>4 DEF IInv, OwnLeases
  <2>3. QED
    BY <1>1, <2>1, <2>2 DEF IInv, OwnLeases
<1>10. QED
  BY <1>5, <1>6, <1>7, <1>8, <1>9

\* The claim of a job is the one step that gives a lease out; every other keeps jobs and attempts.
LEMMA NextIInv == IInv /\ [Next]_vars => IInv'
<1> SUFFICES ASSUME IInv, [Next]_vars PROVE IInv'
  OBVIOUS
<1>1. CASE UNCHANGED vars
  <2>1. TypeOK'
    BY <1>1 DEF vars, IInv, TypeOK
  <2>2. RowStates' /\ OneInProgress'
    BY <1>1 DEF vars, IInv, RowStates, OneInProgress
  <2>3. OneLiveJob'
    BY <1>1 DEF vars, IInv, OneLiveJob, Live
  <2>4. OwnLeases'
    BY <1>1 DEF vars, IInv, OwnLeases
  <2>5. QED
    BY <2>1, <2>2, <2>3, <2>4 DEF IInv
<1>2. CASE Next
  <2>1. RunStep
    BY <1>2, RunSteps
  <2>2. RowStates' /\ OneInProgress'
    BY <2>1, RunStepKeeps
  <2>3. /\ att' \in [Runs -> Attempt] /\ stops' \in Nat
        /\ upkeep' \in [Upkeeps -> [on: BOOLEAN, todo: SUBSET AgentRuns]]
    BY <1>2, AttemptSteps
  <2>4. /\ runs' \in [AgentRuns -> AgentRunRow(Jobs \cup {Previous}, Runs \cup {Previous})]
        /\ executors' \in [AgentRuns -> SUBSET (Runs \cup {Previous})]
    BY <2>1 DEF RunStep, RunRow, Owners, Tokens
  <2>5. ASSUME NEW j \in Jobs, NEW r \in Runs, ClaimJob(j, r) PROVE IInv'
    <3>1. /\ jobs' \in [Jobs -> JobRow]
          /\ \A i \in Jobs : jobs'[i].status # "none" => jobs'[i].kind = Execute /\ jobs'[i].key \in Keys
          /\ \A q \in Runs : att'[q].phase # "idle" => att'[q].job \in Jobs /\ att'[q].run \in AgentRuns
          /\ OneLiveJob' /\ OwnLeases'
      BY <2>3, <2>5, ClaimingJob
    <3>2. TypeOK'
      BY <2>3, <2>4, <3>1 DEF TypeOK
    <3>3. QED
      BY <2>2, <3>1, <3>2 DEF IInv
  <2>6. ASSUME JobStep, AttemptsKept PROVE IInv'
    <3>1. /\ \A j \in Jobs : jobs'[j].status # "none" => jobs'[j].kind = Execute /\ jobs'[j].key \in Keys
          /\ OneLiveJob'
          /\ \A j \in Jobs, r \in Runs :
                jobs'[j].token = r => jobs[j].token = r /\ jobs'[j].key = jobs[j].key
      BY <2>6, JobStepKeeps
    <3>2. \A r \in Runs : att'[r].phase # "idle" =>
             /\ att[r].phase # "idle" /\ att'[r].job = att[r].job /\ att'[r].run = att[r].run
             /\ att'[r].job \in Jobs /\ att'[r].run \in AgentRuns
      BY <2>6 DEF AttemptsKept, IInv, TypeOK
    <3>3. TypeOK'
      BY <2>3, <2>4, <2>6, <3>1, <3>2 DEF TypeOK, JobStep
    <3>4. \A r \in Runs : att'[r].phase # "idle" /\ jobs'[att'[r].job].token = r =>
              jobs'[att'[r].job].key = att'[r].run
      BY <3>1, <3>2 DEF IInv, OwnLeases
    <3>5. \A a \in AgentRuns : runs'[a].token = Previous => runs'[a].owner = Previous
      <4>1. CASE Quiet
        BY <4>1 DEF Quiet, IInv, OwnLeases
      <4>2. ASSUME NEW a \in AgentRuns,
                   Accepts(a) \/ Cancels(a) \/ (\E x \in Tokens : Claims(a, x))
                   \/ \E outcome \in ENDED_STATUSES : Ends(a, outcome)
            PROVE  \A b \in AgentRuns : runs'[b].token = Previous => runs'[b].owner = Previous
        BY <4>2 DEF Accepts, Cancels, Claims, Ends, Others, IInv, OwnLeases
      <4>3. QED
        BY <2>1, <4>1, <4>2 DEF RunStep
    <3>6. \A a \in AgentRuns : \A r \in Runs : runs'[a].token = r => runs[a].token = r \/ Claims(a, r)
      <4>1. CASE Quiet
        BY <4>1 DEF Quiet
      <4>2. ASSUME NEW a \in AgentRuns,
                   Accepts(a) \/ Cancels(a) \/ (\E x \in Tokens : Claims(a, x))
                   \/ \E outcome \in ENDED_STATUSES : Ends(a, outcome)
            PROVE  \A b \in AgentRuns : \A r \in Runs : runs'[b].token = r =>
                       runs[b].token = r \/ Claims(b, r)
        BY <4>2 DEF Accepts, Cancels, Claims, Ends, Others
      <4>3. QED
        BY <2>1, <4>1, <4>2 DEF RunStep
    <3>7. \A a \in AgentRuns : \A r \in Runs : runs'[a].token = r /\ att'[r].phase # "idle" =>
              att'[r].run = a
      BY <1>2, <3>2, <3>6, ClaimsOwn DEF IInv, OwnLeases
    <3>8. QED
      BY <2>2, <3>1, <3>3, <3>4, <3>5, <3>7 DEF IInv, OwnLeases
  <2>7. QED
    BY <1>2, <2>5, <2>6, JobSteps, AttemptSteps
<1>3. QED
  BY <1>1, <1>2

\* The invariant holds throughout.
LEMMA Invariance == Spec => []IInv
BY InitIInv, NextIInv, PTL DEF Spec

-----------------------------------------------------------------------------
\* The rows of runs and jobs keep their types, a job has its kind and its run, and an attempt that
\* is not over has both.
THEOREM TypeCorrect == Spec => []TypeOK
<1>1. IInv => TypeOK
  BY DEF IInv
<1>2. QED
  BY <1>1, Invariance, PTL

\* A run is executed at most once, however many jobs, attempts, deploys and upkeep ticks there are.
THEOREM RunExecutedOnce == Spec => []ExecutedOnce
<1>1. IInv => ExecutedOnce
  <2> SUFFICES ASSUME IInv, NEW a \in AgentRuns PROVE Cardinality(executors[a]) <= 1
    BY DEF ExecutedOnce
  <2>1. CASE executors[a] = {}
    BY <2>1, FS_EmptySet
  <2>2. CASE executors[a] # {}
    <3>1. PICK x \in executors[a] : TRUE
      BY <2>2
    <3>2. executors[a] = {x}
      BY <3>1 DEF IInv, RowStates
    <3>3. Cardinality(executors[a]) = 1
      BY <3>2, FS_Singleton
    <3>4. QED
      BY <3>3
  <2>3. QED
    BY <2>1, <2>2
<1>2. QED
  BY <1>1, Invariance, PTL

\* Nothing touches the row of a run that ended: no burial, adoption, upkeep or late attempt.
THEOREM EndedRunsAreFinal == Spec => EndedIsFinal
<1>1. IInv /\ [Next]_vars =>
         [\A a \in AgentRuns : runs[a].status \in ENDED_STATUSES => runs'[a] = runs[a]]_vars
  <2> SUFFICES ASSUME IInv, Next, NEW a \in AgentRuns, runs[a].status \in ENDED_STATUSES
               PROVE  runs'[a] = runs[a]
    OBVIOUS
  <2>1. RunStep
    BY RunSteps
  <2>2. QED
    BY <2>1 DEF RunStep, Quiet, Accepts, Cancels, Claims, Ends, Others
<1>2. QED
  BY <1>1, Invariance, PTL DEF Spec, EndedIsFinal

-----------------------------------------------------------------------------
\* Who fails a run that somebody executes.

\* failLostAgentRun writes no other run, and leaves one that another holds.
LEMMA LostRun ==
    ASSUME TypeOK, NEW a \in AgentRuns, NEW b \in AgentRuns, NEW j \in Jobs,
           runs' = failLostRun(b, j), runs'[a].status # runs[a].status
    PROVE  a = b /\ ~heldByAnother(runs[a], j)
BY DEF failLostRun, TypeOK

\* An attempt that has the job of the run fails it, or the burial of the job, or the attempt that
\* has the run, or the upkeep when no job of the run is running.
ByItsJob(a, r) ==
    /\ att[r].phase # "idle" /\ Held(r) /\ att[r].run = a /\ att'[r] # att[r]
    /\ ~heldByAnother(runs[a], att[r].job)

ByBurial(a, j) == exhausted(jobs[j]) /\ jobs[j].key = a /\ ~heldByAnother(runs[a], j)

ByItsAttempt(a, r) == runs[a].token = r /\ att'[r] # att[r]

\* Nothing else takes a started run to failed.
LEMMA WhoFails ==
    ASSUME IInv, Next, NEW a \in AgentRuns, runs[a].status \in STARTED_STATUSES,
           runs'[a].status = "failed"
    PROVE  \/ \E r \in Runs : ByItsJob(a, r) \/ ByItsAttempt(a, r)
           \/ \E j \in Jobs : ByBurial(a, j)
           \/ WithoutWorker(a)
<1>0. /\ TypeOK /\ Previous \in Tokens /\ Runs \subseteq Tokens /\ Jobs \subseteq Owners
      /\ runs \in [AgentRuns -> RunRow] /\ att \in [Runs -> Attempt]
      /\ \A b \in AgentRuns : runs[b] \in RunRow
      /\ \A r \in Runs : att[r].phase # "idle" => att[r].job \in Jobs /\ att[r].run \in AgentRuns
  BY DEF IInv, TypeOK, RunRow, Owners, Tokens
<1>1. runs'[a].status # runs[a].status /\ runs' # runs
  OBVIOUS
<1>2. ASSUME NEW b \in AgentRuns, AcceptRun(b) \/ PreviousAccepts(b) PROVE FALSE
  <2>1. acceptedRun.status = "queued" /\ runs' = [runs EXCEPT ![b] = acceptedRun]
    BY <1>2 DEF AcceptRun, PreviousAccepts, acceptedRun, NoAgentRun
  <2>2. QED
    BY <1>0, <1>1, <2>1
<1>3. ASSUME NEW b \in AgentRuns, RequestCancellation(b) PROVE FALSE
  <2>1. cancelRequested(runs[b]).status # "failed"
    BY <1>0, <1>3, CancelledRow DEF RequestCancellation
  <2>2. QED
    BY <1>0, <1>1, <1>3, <2>1 DEF RequestCancellation
<1>4. ASSUME NEW b \in AgentRuns, PreviousClaims(b) PROVE FALSE
  <2>1. claimedRun(runs[b], Previous, Previous, LeaseMs[Execute]).status = "running"
    BY <1>0 DEF claimedRun, RunRow, AgentRunRow
  <2>2. QED
    BY <1>0, <1>1, <1>4, <2>1 DEF PreviousClaims
<1>5. ASSUME NEW b \in AgentRuns, NEW x \in Tokens,
             runs' = [runs EXCEPT ![b] = renewedRun(@, x, LeaseMs[Execute])]
      PROVE  FALSE
  <2>1. renewedRun(runs[b], x, LeaseMs[Execute]).status = runs[b].status
    BY <1>0 DEF renewedRun, RunRow, AgentRunRow
  <2>2. QED
    BY <1>0, <1>1, <1>5, <2>1
<1>6. ASSUME NEW b \in AgentRuns, PreviousEnds(b) PROVE FALSE
  <2> DEFINE type == IF runs[b].status = "running" THEN "run_completed" ELSE "run_cancelled"
             new == insertedRun(runs[b], Last(runs[b], type))
  <2>1. /\ type \in TerminalEvents /\ terminalStatus(type) # "failed"
        /\ insertable(runs[b], Previous, Last(runs[b], type)) /\ runs' = [runs EXCEPT ![b] = new]
    BY <1>6 DEF PreviousEnds, TerminalEvents, terminalStatus, Last
  <2> HIDE DEF type
  <2>2. new.status = terminalStatus(type)
    BY <1>0, <2>1, InsertedRow
  <2> HIDE DEF new
  <2>3. QED
    BY <1>0, <1>1, <2>1, <2>2
<1>7. ASSUME ClockTick PROVE FALSE
  BY <1>0, <1>1, <1>7 DEF ClockTick, RunRow, AgentRunRow
<1>8. ASSUME NEW r \in Runs, ClaimAgentRunForJob(r) PROVE ByItsJob(a, r)
  <2>1. /\ att[r].phase = "claiming" /\ Held(r) /\ att[r].job \in Jobs /\ att[r].run \in AgentRuns
    BY <1>0, <1>8 DEF ClaimAgentRunForJob
  <2>2. ~claimableRun(runs[att[r].run])
    <3>1. SUFFICES ASSUME claimableRun(runs[att[r].run]) PROVE FALSE
      OBVIOUS
    <3>2. /\ runs' = [runs EXCEPT ![att[r].run] = claimedRun(@, att[r].job, r, LeaseMs[Execute])]
          /\ claimedRun(runs[att[r].run], att[r].job, r, LeaseMs[Execute]).status = "running"
      BY <1>0, <1>8, <2>1, <3>1 DEF ClaimAgentRunForJob, claimedRun, RunRow, AgentRunRow
    <3>3. QED
      BY <1>0, <1>1, <2>1, <3>2
  <2>3. /\ runs' = failLostRun(att[r].run, att[r].job)
        /\ att' = [att EXCEPT ![r].phase = "settling", ![r].outcome = "succeeded"]
    BY <1>8, <2>2 DEF ClaimAgentRunForJob
  <2>4. a = att[r].run /\ ~heldByAnother(runs[a], att[r].job)
    BY <1>0, <1>1, <2>1, <2>3, LostRun
  <2>5. att'[r].phase = "settling"
    BY <1>0, <2>3 DEF Attempt
  <2>6. QED
    BY <2>1, <2>4, <2>5 DEF ByItsJob
<1>9. ASSUME NEW r \in Runs, HeartbeatJob(r) PROVE FALSE
  <2>1. att[r].run \in AgentRuns /\ r \in Tokens
    BY <1>0, <1>9 DEF HeartbeatJob
  <2>2. QED
    BY <1>5, <1>9, <2>1 DEF HeartbeatJob
<1>10. ASSUME NEW r \in Runs, NEW type \in TerminalEvents, EndRun(r, type) PROVE ByItsAttempt(a, r)
  <2>1. /\ att[r].run \in AgentRuns /\ att[r].phase = "executing" /\ runs[att[r].run].token = r
        /\ att' = [att EXCEPT ![r].phase = "settling", ![r].outcome = "succeeded"]
    BY <1>0, <1>10 DEF EndRun, insertable, claimedRunWhere
  <2>2. att'[r].phase = "settling"
    BY <1>0, <2>1 DEF Attempt
  <2>3. a = att[r].run
    BY <1>0, <1>1, <1>10 DEF EndRun
  <2>4. QED
    BY <2>1, <2>2, <2>3 DEF ByItsAttempt
<1>11. ASSUME NEW r \in Runs, Settle(r) PROVE ByItsJob(a, r)
  <2>1. /\ att[r].phase = "settling" /\ Held(r) /\ att[r].job \in Jobs /\ att[r].run \in AgentRuns
        /\ runs' = failLostRun(att[r].run, att[r].job) /\ att' = [att EXCEPT ![r] = NoAttempt]
    BY <1>0, <1>1, <1>11 DEF Settle
  <2>2. a = att[r].run /\ ~heldByAnother(runs[a], att[r].job)
    BY <1>0, <1>1, <2>1, LostRun
  <2>3. att'[r].phase = "idle"
    BY <1>0, <2>1 DEF NoAttempt
  <2>4. QED
    BY <2>1, <2>2, <2>3 DEF ByItsJob
<1>12. ASSUME NEW j \in Jobs, BuryExhausted(j) PROVE ByBurial(a, j)
  <2>1. exhausted(jobs[j]) /\ jobs[j].key \in AgentRuns /\ runs' = failLostRun(jobs[j].key, j)
    BY <1>0, <1>1, <1>12 DEF BuryExhausted, exhausted, LeaseExpired, TypeOK
  <2>2. a = jobs[j].key /\ ~heldByAnother(runs[a], j)
    BY <1>0, <1>1, <2>1, LostRun
  <2>3. QED
    BY <2>1, <2>2 DEF ByBurial
<1>13. ASSUME NEW u \in Upkeeps, UpkeepFails(u) PROVE WithoutWorker(a)
  <2>1. WithoutWorker(a) \/ QueuedTooLong(a)
    BY <1>1, <1>13 DEF UpkeepFails
  <2>2. QED
    BY <2>1 DEF QueuedTooLong
<1>14. QED
  BY <1>0, <1>1, <1>2, <1>3, <1>4, <1>5, <1>6, <1>7, <1>8, <1>9, <1>10, <1>11, <1>12, <1>13
     DEF Next, Api, PreviousDeploy, PreviousRenews, AttemptStep, UpkeepStep, ClaimJob, FindEnded,
         HandlerThrows, ReleaseActive, Crash, PruneEndedJobs, UpkeepBegins, UpkeepAbandoned,
         UpkeepAdopts

\* Nobody fails a run under its holder.  An attempt that executes the run and holds its job has the
\* run's one live job: no other attempt can hold that job, no burial finds its lease run out, and
\* the upkeep finds it running.  The previous release's lease stops a job's attempt and its burial.
THEOREM RunIsItsHolders == Spec => HolderKeepsRun
<1>1. IInv /\ [Next]_vars =>
         [\A a \in AgentRuns :
             runs[a].status \in STARTED_STATUSES /\ runs'[a].status = "failed" =>
                /\ ~(runs[a].token = Previous /\ runs[a].lease > 0)
                /\ \A r \in Runs : runs[a].token = r /\ att[r].phase # "idle" /\ Held(r) =>
                      att'[r] # att[r]]_vars
  <2> SUFFICES ASSUME IInv, Next, NEW a \in AgentRuns, runs[a].status \in STARTED_STATUSES,
                      runs'[a].status = "failed"
               PROVE  /\ ~(runs[a].token = Previous /\ runs[a].lease > 0)
                      /\ \A r \in Runs : runs[a].token = r /\ att[r].phase # "idle" /\ Held(r) =>
                            att'[r] # att[r]
    OBVIOUS
  <2>1. \/ \E r \in Runs : ByItsJob(a, r) \/ ByItsAttempt(a, r)
        \/ \E j \in Jobs : ByBurial(a, j)
        \/ WithoutWorker(a)
    BY WhoFails
  <2>2. \A r \in Runs : att[r].phase # "idle" => att[r].job \in Jobs
    BY DEF IInv, TypeOK
  <2>3. ASSUME runs[a].token = Previous, runs[a].lease > 0 PROVE FALSE
    <3>1. \A j \in Jobs : heldByAnother(runs[a], j)
      BY <2>3 DEF IInv, OwnLeases, heldByAnother
    <3>2. QED
      BY <2>1, <2>2, <2>3, <3>1 DEF ByItsJob, ByItsAttempt, ByBurial, WithoutWorker
  <2>4. ASSUME NEW q \in Runs, runs[a].token = q, att[q].phase # "idle", Held(q), att'[q] = att[q]
        PROVE  FALSE
    <3> DEFINE i == att[q].job
    <3>1. /\ i \in Jobs /\ jobs[i].key = a /\ jobs[i].status = "running" /\ jobs[i].token = q
          /\ jobs[i].lease > 0 /\ Live(jobs[i])
      BY <2>2, <2>4 DEF IInv, OwnLeases, Held, heldBy, Live
    <3>2. ASSUME NEW r \in Runs, ByItsJob(a, r) PROVE FALSE
      <4>1. /\ att[r].job \in Jobs /\ jobs[att[r].job].key = a /\ jobs[att[r].job].token = r
            /\ Live(jobs[att[r].job]) /\ r # q
        BY <2>2, <2>4, <3>2 DEF ByItsJob, IInv, OwnLeases, Held, heldBy, Live
      <4>2. QED
        BY <3>1, <4>1 DEF IInv, OneLiveJob
    <3>3. ASSUME NEW j \in Jobs, ByBurial(a, j) PROVE FALSE
      <4>1. Live(jobs[j]) /\ jobs[j].key = a /\ jobs[j].lease = 0
        BY <3>3 DEF ByBurial, exhausted, LeaseExpired, Live
      <4>2. QED
        BY <3>1, <4>1 DEF IInv, OneLiveJob
    <3>4. QED
      BY <2>1, <2>4, <3>1, <3>2, <3>3 DEF ByItsAttempt, WithoutWorker
  <2>5. QED
    BY <2>3, <2>4
<1>2. QED
  BY <1>1, Invariance, PTL DEF Spec, HolderKeepsRun

-----------------------------------------------------------------------------
\* AgentRun implements RunRecord.

\* Whom the record names.
By(xs) == IF xs = {} THEN Null ELSE CHOOSE x \in xs : TRUE

\* A step that writes one run writes its entry of the record and no other.
LEMMA WritingRecord ==
    ASSUME NEW a \in AgentRuns, Others(a)
    PROVE  record' = [record EXCEPT ![a] = [status |-> runs'[a].status, by |-> By(executors'[a])]]
BY DEF record, Others, By

\* Every step of the runs is a step of the record or none.
LEMMA RecordStep == ASSUME IInv, RunStep PROVE Record!Next \/ UNCHANGED record
<1>0. /\ record = [a \in AgentRuns |-> [status |-> runs[a].status, by |-> By(executors[a])]]
      /\ \A a \in AgentRuns : record[a].status = runs[a].status /\ record[a].by = By(executors[a])
      /\ \A a \in AgentRuns : Record!InProgress(a) <=> runs[a].status \in RUN_IN_PROGRESS_STATUSES
  BY DEF record, By, Record!InProgress
<1>1. CASE Quiet
  <2>1. record' = [a \in AgentRuns |-> [status |-> runs'[a].status, by |-> By(executors'[a])]]
    BY DEF record, By
  <2>2. \A a \in AgentRuns : runs'[a].status = runs[a].status /\ executors'[a] = executors[a]
    BY <1>1 DEF Quiet
  <2>3. QED
    BY <1>0, <2>1, <2>2
<1>2. ASSUME NEW a \in AgentRuns, Accepts(a) PROVE Record!Next
  <2>1. record' = [record EXCEPT ![a].status = "queued"]
    BY <1>0, <1>2, WritingRecord DEF Accepts
  <2>2. Record!Accept(a)
    BY <1>0, <1>2, <2>1 DEF Accepts, ConversationFree, Record!Accept
  <2>3. QED
    BY <2>2 DEF Record!Next
<1>3. ASSUME NEW a \in AgentRuns, Cancels(a) PROVE Record!Next \/ UNCHANGED record
  <2>1. record' = [record EXCEPT ![a].status = runs'[a].status]
    BY <1>0, <1>3, WritingRecord DEF Cancels
  <2>2. CASE runs[a].status = "queued"
    <3>1. Record!End(a, "cancelled")
      BY <1>0, <1>3, <2>1, <2>2 DEF Cancels, Record!End
    <3>2. QED
      BY <3>1 DEF Record!Next
  <2>3. CASE runs[a].status = "running"
    <3>1. Record!RequestCancellation(a)
      BY <1>0, <1>3, <2>1, <2>3 DEF Cancels, Record!RequestCancellation
    <3>2. QED
      BY <3>1 DEF Record!Next
  <2>4. CASE runs[a].status = "cancelling"
    BY <1>0, <1>3, <2>1, <2>4 DEF Cancels
  <2>5. QED
    BY <1>3, <2>2, <2>3, <2>4 DEF Cancels
<1>4. ASSUME NEW a \in AgentRuns, NEW x \in Tokens, Claims(a, x) PROVE Record!Next
  <2>1. executors'[a] = {x}
    BY <1>4 DEF Claims, IInv, RowStates
  <2>2. By({x}) = x
    BY DEF By
  <2>3. record' = [record EXCEPT ![a] = [status |-> "running", by |-> x]]
    BY <1>4, <2>1, <2>2, WritingRecord DEF Claims
  <2>4. Record!Claim(a, x)
    BY <1>0, <1>4, <2>3 DEF Claims, Record!Claim
  <2>5. QED
    BY <2>4 DEF Record!Next, Tokens
<1>5. ASSUME NEW a \in AgentRuns, NEW outcome \in ENDED_STATUSES, Ends(a, outcome)
      PROVE  Record!Next
  <2>1. record' = [record EXCEPT ![a].status = outcome]
    BY <1>0, <1>5, WritingRecord DEF Ends
  <2>2. Record!End(a, outcome)
    BY <1>0, <1>5, <2>1 DEF Ends, Record!End
  <2>3. QED
    BY <2>2 DEF Record!Next
<1>6. QED
  BY <1>1, <1>2, <1>3, <1>4, <1>5 DEF RunStep

\* Jobs, leases, adoptions, burials and the previous release are invisible in the record: AgentRun
\* implements RunRecord.
THEOREM RunRecordIsKept == Spec => ImplementsRunRecord
<1>1. Init => Record!Init
  BY DEF Init, Record!Init, record, NoAgentRun
<1>2. IInv /\ [Next]_vars => [Record!Next]_record
  <2> SUFFICES ASSUME IInv, [Next]_vars PROVE Record!Next \/ UNCHANGED record
    OBVIOUS
  <2>1. CASE UNCHANGED vars
    BY <2>1 DEF vars, record
  <2>2. CASE Next
    BY <2>2, RunSteps, RecordStep
  <2>3. QED
    BY <2>1, <2>2
<1>3. QED
  BY <1>1, <1>2, Invariance, PTL DEF Spec, ImplementsRunRecord, Record!Spec

=============================================================================
