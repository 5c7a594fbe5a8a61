------------------------- MODULE JobExecutorProofs -------------------------
(***************************************************************************)
(* Proofs about JobExecutor, for every number of jobs, workers, attempts,  *)
(* kinds and keys.                                                         *)
(***************************************************************************)
EXTENDS JobExecutor, FiniteSetTheorems, TLAPS

-----------------------------------------------------------------------------
(* What the statements of the store make of a row. *)

\* The backoff of a row is a whole number of ticks.
LEMMA BackoffType ==
    ASSUME NEW row \in JobRow, row.kind \in Kinds
    PROVE  backoff(row) \in Int
<1> DEFINE n == IF row.attempts > 1 THEN row.attempts - 1 ELSE 0
<1>1. n \in Nat
  BY DEF JobRow
<1>2. 2^n \in Int
  <2> HIDE DEF n
  <2> QED BY <1>1
<1>3. BackoffBase[row.kind] \in Int /\ BackoffMax[row.kind] \in Int
  BY JobStoreConstants
<1>4. BackoffBase[row.kind] * 2^n \in Int
  <2> HIDE DEF n
  <2> QED BY <1>2, <1>3
<1> QED
  BY <1>3, <1>4 DEF backoff

\* Every statement of the store turns a row into a row of the same kind and dedupe key.
LEMMA RowTypes ==
    ASSUME NEW row \in JobRow, row.kind \in Kinds, NEW token \in Runs,
           NEW status \in JobStatus
    PROVE  /\ recovered(row) \in JobRow /\ recovered(row).kind = row.kind
           /\ claimed(row, token) \in JobRow /\ claimed(row, token).kind = row.kind
           /\ renewed(row) \in JobRow /\ renewed(row).kind = row.kind
           /\ ended(row, status) \in JobRow /\ ended(row, status).kind = row.kind
           /\ retried(row) \in JobRow /\ retried(row).kind = row.kind
           /\ released(row) \in JobRow /\ released(row).kind = row.kind
           /\ requeued(row) \in JobRow /\ requeued(row).kind = row.kind
<1>1. backoff(row) \in Int /\ LeaseMs[row.kind] \in Nat /\ 0 \in Nat /\ 0 \in Int
  BY BackoffType, JobStoreConstants
<1>2. "queued" \in JobStatus /\ "running" \in JobStatus /\ "succeeded" \in JobStatus
  BY DEF JobStatus
<1>4. /\ row.attempts \in Nat /\ row.attempts + 1 \in Nat
      /\ (IF row.attempts > 0 THEN row.attempts - 1 ELSE 0) \in Nat
  BY DEF JobRow
<1> USE <1>1, <1>2 DEF JobRow, noLease
<1>5. recovered(row) \in JobRow /\ recovered(row).kind = row.kind
  BY DEF recovered
<1>6. claimed(row, token) \in JobRow /\ claimed(row, token).kind = row.kind
  BY <1>4 DEF claimed
<1>7. renewed(row) \in JobRow /\ renewed(row).kind = row.kind
  BY DEF renewed
<1>9. ended(row, status) \in JobRow /\ ended(row, status).kind = row.kind
  BY DEF ended
<1>10. retried(row) \in JobRow /\ retried(row).kind = row.kind
  BY DEF retried
<1>11. released(row) \in JobRow /\ released(row).kind = row.kind
  BY <1>4 DEF released
<1>12. requeued(row) \in JobRow /\ requeued(row).kind = row.kind
  BY DEF requeued
<1> QED
  BY <1>5, <1>6, <1>7, <1>9, <1>10, <1>11, <1>12

\* Time changes no more of a row than its two clocks.
LEMMA AgedType ==
    ASSUME NEW row \in JobRow
    PROVE  /\ aged(row) \in JobRow
           /\ aged(row).status = row.status /\ aged(row).kind = row.kind
           /\ aged(row).key = row.key /\ aged(row).group = row.group
           /\ aged(row).attempts = row.attempts /\ aged(row).token = row.token
<1> DEFINE wait == IF row.wait > 0 THEN row.wait - 1 ELSE row.wait
           lease == IF row.lease > 0 THEN row.lease - 1 ELSE 0
<1>1. wait \in Int /\ lease \in Nat
  BY DEF JobRow
<1>2. aged(row) = [row EXCEPT !.wait = wait, !.lease = lease]
  BY DEF aged
<1> HIDE DEF wait, lease
<1> QED
  BY <1>1, <1>2 DEF JobRow

\* The record that stands for a free id is a row.
LEMMA NoRowType == NoRow \in JobRow
BY DEF NoRow, JobRow, JobStatus

-----------------------------------------------------------------------------
(* The part of the invariant that speaks of one row. *)

RowOK(row) ==
    /\ row \in JobRow
    /\ row.status # "none" => row.kind \in Kinds
    /\ row.status = "running" <=> row.token # Null
    /\ row.status = "queued" => row.attempts < MaxAttempts[row.kind]
    /\ row.status = "running" => row.attempts \in 1..MaxAttempts[row.kind]
    /\ row.status = "dead" => row.attempts = MaxAttempts[row.kind] /\ ~isTick(row)

\* The new row has no lease, or the old row's with its kind and its count of attempts.
Keeps(old, new) ==
    /\ new.token # Null => /\ new.token = old.token
                           /\ new.kind = old.kind /\ new.attempts = old.attempts

\* A free id, as withdraw and pruneEndedJobs leave it, is in order and holds no lease.
LEMMA NoRowOK == RowOK(NoRow) /\ \A old : Keeps(old, NoRow)
BY NoRowType, JobStoreConstants DEF RowOK, NoRow, Keeps

\* What enqueueJob inserts is in order: a kind allows at least one attempt.
LEMMA QueuedRowOK ==
    ASSUME NEW k \in Kinds, NEW key \in DedupeKeys \cup {Null}, NEW group \in Groups \cup {Null},
           NEW delay \in Int
    PROVE  /\ RowOK(QueuedRow(k, key, group, delay))
           /\ \A old : Keeps(old, QueuedRow(k, key, group, delay))
           /\ QueuedRow(k, key, group, delay).status = "queued"
           /\ QueuedRow(k, key, group, delay).kind = k
           /\ QueuedRow(k, key, group, delay).key = key
<1>1. "queued" \in JobStatus
  BY DEF JobStatus
<1>2. QueuedRow(k, key, group, delay) \in JobRow
  BY <1>1, NoRowType DEF QueuedRow, NoRow, JobRow
<1>3. 0 < MaxAttempts[k]
  BY JobStoreConstants
<1> QED
  BY <1>2, <1>3 DEF RowOK, Keeps, QueuedRow, NoRow

\* Recovering a row at a claim takes its lease and leaves it an attempt.
LEMMA RecoveredOK ==
    ASSUME NEW row, RowOK(row)
    PROVE  RowOK(recovered(row)) /\ Keeps(row, recovered(row))
<1>1. CASE ~recoverable(row)
  BY <1>1 DEF recovered, Keeps
<1>2. CASE recoverable(row)
  <2>1. row \in JobRow /\ row.kind \in Kinds /\ row.attempts < MaxAttempts[row.kind]
    BY <1>2 DEF RowOK, recoverable, LeaseExpired
  <2>2. recovered(row) \in JobRow
    <3>1. PICK t \in Runs : row.token = t
      BY <1>2, <2>1 DEF RowOK, recoverable, LeaseExpired, JobRow
    <3> QED
      BY <2>1, <3>1, RowTypes DEF JobStatus
  <2>3. /\ recovered(row).status = "queued" /\ recovered(row).kind = row.kind
        /\ recovered(row).attempts = row.attempts /\ recovered(row).token = Null
    BY <1>2, <2>1 DEF recovered, noLease, JobRow
  <2> QED
    BY <2>1, <2>2, <2>3 DEF RowOK, Keeps
<1> QED
  BY <1>1, <1>2

\* Claiming a queued row counts the attempt and stays within the kind's attempts.
LEMMA ClaimedOK ==
    ASSUME NEW row, RowOK(row), row.status = "queued", NEW token \in Runs
    PROVE  /\ RowOK(claimed(row, token))
           /\ claimed(row, token).token = token /\ claimed(row, token).status = "running"
           /\ claimed(row, token).attempts = row.attempts + 1
           /\ claimed(row, token).kind = row.kind /\ claimed(row, token).key = row.key
           /\ claimed(row, token).group = row.group
<1>1. row \in JobRow /\ row.kind \in Kinds /\ row.attempts < MaxAttempts[row.kind]
  BY DEF RowOK
<1>2. claimed(row, token) \in JobRow
  BY <1>1, RowTypes DEF JobStatus
<1>3. /\ claimed(row, token).token = token /\ claimed(row, token).status = "running"
      /\ claimed(row, token).attempts = row.attempts + 1
      /\ claimed(row, token).kind = row.kind /\ claimed(row, token).key = row.key
      /\ claimed(row, token).group = row.group
  BY <1>1 DEF claimed, JobRow
<1>4. row.attempts + 1 \in 1..MaxAttempts[row.kind]
  BY <1>1, JobStoreConstants DEF JobRow
<1> QED
  BY <1>1, <1>2, <1>3, <1>4, JobStoreConstants DEF RowOK

\* What the end of an attempt makes of the running row.
LEMMA EndedOK ==
    ASSUME NEW row, RowOK(row), row.status = "running",
           NEW status \in {"succeeded", "failed", "dead"},
           status = "dead" => row.attempts >= MaxAttempts[row.kind] /\ ~isTick(row)
    PROVE  /\ RowOK(ended(row, status)) /\ Keeps(row, ended(row, status))
           /\ ended(row, status).status = status /\ ended(row, status).token = Null
           /\ ended(row, status).kind = row.kind /\ ended(row, status).key = row.key
<1>1. /\ row \in JobRow /\ row.kind \in Kinds /\ row.attempts <= MaxAttempts[row.kind]
      /\ MaxAttempts[row.kind] \in Nat /\ row.attempts \in Nat
  BY JobStoreConstants DEF RowOK, JobRow
<1>2. ended(row, status) \in JobRow
  <2>1. PICK t \in Runs : row.token = t
    BY <1>1 DEF RowOK, JobRow
  <2> QED
    BY <1>1, <2>1, RowTypes DEF JobStatus
<1>3. /\ ended(row, status).status = status /\ ended(row, status).token = Null
      /\ ended(row, status).kind = row.kind /\ ended(row, status).key = row.key
      /\ ended(row, status).attempts = row.attempts
  BY <1>1 DEF ended, noLease, JobRow
<1> QED
  BY <1>1, <1>2, <1>3 DEF RowOK, Keeps, isTick

\* So do the endings that run no onExhausted; a released attempt is not counted.
LEMMA EndingRowOK ==
    ASSUME NEW row, RowOK(row), row.status = "running",
           NEW outcome \in {"succeeded", "failed", "retry", "released"},
           outcome = "retry" => row.attempts < MaxAttempts[row.kind]
    PROVE  /\ RowOK(EndingRow(row, outcome)) /\ Keeps(row, EndingRow(row, outcome))
           /\ EndingRow(row, outcome).token = Null
           /\ EndingRow(row, outcome).kind = row.kind /\ EndingRow(row, outcome).key = row.key
           /\ EndingRow(row, outcome).status \in {"succeeded", "failed", "queued"}
<1>1. /\ row \in JobRow /\ row.kind \in Kinds /\ row.attempts \in 1..MaxAttempts[row.kind]
      /\ MaxAttempts[row.kind] \in Nat
  BY JobStoreConstants DEF RowOK
<1>2. PICK t \in Runs : row.token = t
  BY <1>1 DEF RowOK, JobRow
<1>3. CASE outcome \in {"succeeded", "failed"}
  BY <1>3, EndedOK DEF EndingRow
<1>5. CASE outcome = "retry"
  <2>1. retried(row) \in JobRow
    BY <1>1, <1>2, RowTypes DEF JobStatus
  <2>2. /\ retried(row).status = "queued" /\ retried(row).token = Null
        /\ retried(row).kind = row.kind /\ retried(row).key = row.key
        /\ retried(row).attempts = row.attempts
    BY <1>1 DEF retried, noLease, JobRow
  <2> QED
    BY <1>1, <1>5, <2>1, <2>2 DEF EndingRow, RowOK, Keeps
<1>6. CASE outcome = "released"
  <2>1. released(row) \in JobRow
    BY <1>1, <1>2, RowTypes DEF JobStatus
  <2>2. /\ released(row).status = "queued" /\ released(row).token = Null
        /\ released(row).kind = row.kind /\ released(row).key = row.key
        /\ released(row).attempts = row.attempts - 1
    BY <1>1 DEF released, noLease, JobRow
  <2>3. row.attempts - 1 < MaxAttempts[row.kind]
    BY <1>1
  <2> QED
    BY <1>1, <1>6, <2>1, <2>2, <2>3 DEF EndingRow, RowOK, Keeps
<1> QED
  BY <1>3, <1>5, <1>6

\* The manual retry of a failed or dead job leaves a queued row with every attempt left.
LEMMA RequeuedOK ==
    ASSUME NEW row, RowOK(row), row.status \in {"failed", "dead"}
    PROVE  /\ RowOK(requeued(row)) /\ Keeps(row, requeued(row))
           /\ requeued(row).status = "queued" /\ requeued(row).token = Null
           /\ requeued(row).kind = row.kind /\ requeued(row).key = row.key
<1>1. row \in JobRow /\ row.kind \in Kinds /\ row.token = Null /\ 0 < MaxAttempts[row.kind]
  BY JobStoreConstants DEF RowOK
<1>2. requeued(row) \in JobRow
  <2>1. "queued" \in JobStatus /\ 0 \in Nat /\ 0 \in Int
    BY DEF JobStatus
  <2> QED
    BY <1>1, <2>1 DEF JobRow, requeued
<1>3. /\ requeued(row).status = "queued" /\ requeued(row).token = Null
      /\ requeued(row).kind = row.kind /\ requeued(row).key = row.key
      /\ requeued(row).attempts = 0
  BY <1>1 DEF requeued, JobRow
<1> QED
  BY <1>1, <1>2, <1>3 DEF RowOK, Keeps

\* A heartbeat and a committed transaction change the expiry of a lease and no more.
LEMMA RenewedOK ==
    ASSUME NEW row, RowOK(row), row.kind \in Kinds
    PROVE  /\ RowOK(renewed(row)) /\ Keeps(row, renewed(row))
           /\ renewed(row).token = row.token /\ renewed(row).status = row.status
           /\ renewed(row).kind = row.kind /\ renewed(row).key = row.key
           /\ renewed(row).group = row.group
<1>1. row \in JobRow /\ LeaseMs[row.kind] \in Nat
  BY JobStoreConstants DEF RowOK
<1>2. renewed(row) \in JobRow
  BY <1>1 DEF JobRow, renewed
<1>3. /\ renewed(row).token = row.token /\ renewed(row).status = row.status
      /\ renewed(row).kind = row.kind /\ renewed(row).key = row.key
      /\ renewed(row).attempts = row.attempts /\ renewed(row).group = row.group
  BY <1>1 DEF JobRow, renewed
<1> QED
  BY <1>2, <1>3 DEF RowOK, Keeps, isTick

\* Time neither takes nor gives a lease.
LEMMA AgedOK ==
    ASSUME NEW row, RowOK(row)
    PROVE  RowOK(aged(row)) /\ Keeps(row, aged(row))
BY AgedType DEF RowOK, Keeps, isTick

-----------------------------------------------------------------------------
(* The inductive invariant, and what a step has to show to keep it. *)

IInv ==
    /\ TypeOK /\ LeaseDiscipline /\ AttemptsAccounted /\ FencedWrites
    /\ GivenUpIsDead

OutcomeOK(x) ==
    /\ x.phase = "settling" => x.outcome # "none"
    /\ x.phase = "burying" => x.outcome = "exhausted"
    /\ x.outcome = "retry" => x.attempt < MaxAttempts[x.kind]
    /\ x.outcome = "exhausted" =>
          x.attempt >= MaxAttempts[x.kind] /\ x.kind \notin Scheduled

\* A step leaves every row in order and leases only what was leased.
RowsEvolve ==
    /\ jobs' \in [Jobs -> JobRow]
    /\ \A j \in Jobs : RowOK(jobs'[j]) /\ Keeps(jobs[j], jobs'[j])

\* A step ends attempts or moves them on, an open transaction keeps its lease, and an attempt
\* that ended is in no active map.
RunsEvolve ==
    /\ run' \in [Runs -> Run]
    /\ \A r \in Runs :
          \/ run'[r] = NoRun /\ \A w \in Workers, j \in Jobs : active'[w][j] # r
          \/ run[r].phase = "idle" /\ run'[r] = run[r]
          \/ /\ run[r].phase # "idle" /\ run'[r].phase # "idle"
             /\ run'[r].worker = run[r].worker /\ run'[r].job = run[r].job
             /\ run'[r].kind = run[r].kind /\ run'[r].attempt = run[r].attempt
             /\ run'[r].phase = "tx" => jobs'[run[r].job].token = r
             /\ OutcomeOK(run'[r])

WritersOK ==
    /\ writer' \in [Jobs -> Runs \cup {Null}]
    /\ \A j \in Jobs : writer'[j] # Null => jobs'[j].token = writer'[j]

GaveUpOK ==
    /\ gaveUp' \in [Jobs -> BOOLEAN]
    /\ \A j \in Jobs : gaveUp'[j] => jobs'[j].status = "dead"

\* The rest of the state has the types of TypeOK, and no active map gets a new entry.
ProcessesOK ==
    /\ active' \in [Workers -> [Jobs -> Runs \cup {Null}]]
    /\ \A w \in Workers, j \in Jobs : active'[w][j] \in {active[w][j], Null}
    /\ mode' \in [Workers -> Modes]
    /\ pass' \in [Workers -> Pass]
    /\ \A w \in Workers : pass'[w].stage \in {"list", "bury"} => pass'[w].at \in Kinds
    /\ stops' \in Nat

\* What the invariant says of one row.
LEMMA RowsOfIInv ==
    ASSUME IInv, NEW j \in Jobs
    PROVE  RowOK(jobs[j])
BY DEF IInv, TypeOK, LeaseDiscipline, AttemptsAccounted, RowOK

\* What the invariant says of one attempt.
LEMMA RunsOfIInv ==
    ASSUME IInv, NEW r \in Runs
    PROVE  /\ run[r] \in Run /\ OutcomeOK(run[r])
           /\ run[r].phase # "idle" =>
                run[r].worker \in Workers /\ run[r].job \in Jobs /\ run[r].kind \in Kinds
           /\ run[r].phase = "tx" => jobs[run[r].job].token = r
           /\ run[r].phase # "idle" /\ jobs[run[r].job].token = r =>
                /\ jobs[run[r].job].kind = run[r].kind
                /\ jobs[run[r].job].attempts = run[r].attempt
BY DEF IInv, TypeOK, LeaseDiscipline, OutcomeOK

\* The record that stands for an ended attempt is an attempt with nothing to show.
LEMMA NoRunType == NoRun \in Run /\ OutcomeOK(NoRun) /\ NoRun.phase = "idle"
BY DEF NoRun, Run, Phases, Outcomes, OutcomeOK

\* A step that gives out no lease keeps the invariant if its rows, attempts, writers and
\* processes each evolve as above.
LEMMA Preservation ==
    ASSUME IInv, RowsEvolve, RunsEvolve, WritersOK, GaveUpOK, ProcessesOK
    PROVE  IInv'
<1>1. /\ AttemptsAccounted'
      /\ \A j \in Jobs : (jobs'[j].status = "running" <=> jobs'[j].token # Null)
      /\ \A j \in Jobs : jobs'[j].status # "none" => jobs'[j].kind \in Kinds
  BY DEF RowsEvolve, RowOK, AttemptsAccounted
<1>2. \A i, j \in Jobs : jobs'[i].token = jobs'[j].token /\ jobs'[i].token # Null => i = j
  BY DEF IInv, LeaseDiscipline, RowsEvolve, Keeps
<1>3. \A r \in Runs, j \in Jobs :
        run'[r].phase # "idle" /\ jobs'[j].token = r =>
           run'[r].job = j /\ run'[r].kind = jobs'[j].kind /\ run'[r].attempt = jobs'[j].attempts
  <2> SUFFICES ASSUME NEW r \in Runs, NEW j \in Jobs, run'[r].phase # "idle",
                      jobs'[j].token = r
               PROVE  /\ run'[r].job = j /\ run'[r].kind = jobs'[j].kind
                      /\ run'[r].attempt = jobs'[j].attempts
    OBVIOUS
  <2>1. /\ run[r].phase # "idle" /\ run'[r].job = run[r].job
        /\ run'[r].kind = run[r].kind /\ run'[r].attempt = run[r].attempt
    BY NoRunType DEF RunsEvolve
  <2>2. r # Null
    BY JobStoreConstants
  <2>3. /\ jobs[j].token = r /\ jobs'[j].kind = jobs[j].kind
        /\ jobs'[j].attempts = jobs[j].attempts
    BY <2>2 DEF RowsEvolve, Keeps
  <2> QED
    BY <2>1, <2>3 DEF IInv, LeaseDiscipline
<1>4. \A r \in Runs :
        /\ run'[r].phase = "tx" => jobs'[run'[r].job].token = r
        /\ OutcomeOK(run'[r])
        /\ run'[r].phase # "idle" =>
             run'[r].worker \in Workers /\ run'[r].job \in Jobs /\ run'[r].kind \in Kinds
  <2> SUFFICES ASSUME NEW r \in Runs
               PROVE  /\ run'[r].phase = "tx" => jobs'[run'[r].job].token = r
                      /\ OutcomeOK(run'[r])
                      /\ run'[r].phase # "idle" =>
                           /\ run'[r].worker \in Workers /\ run'[r].job \in Jobs
                           /\ run'[r].kind \in Kinds
    OBVIOUS
  <2>1. CASE run'[r] = NoRun
    BY <2>1, NoRunType
  <2>2. CASE run[r].phase = "idle" /\ run'[r] = run[r]
    BY <2>2, RunsOfIInv
  <2>3. CASE run'[r] # NoRun /\ ~(run[r].phase = "idle" /\ run'[r] = run[r])
    BY <2>3, RunsOfIInv DEF RunsEvolve
  <2> QED
    BY <2>1, <2>2, <2>3
<1>5. \A w \in Workers, j \in Jobs, r \in Runs : active'[w][j] = r =>
        run'[r].phase # "idle" /\ run'[r].worker = w /\ run'[r].job = j
  <2> SUFFICES ASSUME NEW w \in Workers, NEW j \in Jobs, NEW r \in Runs, active'[w][j] = r
               PROVE  run'[r].phase # "idle" /\ run'[r].worker = w /\ run'[r].job = j
    OBVIOUS
  <2>1. active[w][j] = r
    BY JobStoreConstants DEF ProcessesOK
  <2>2. run[r].phase # "idle" /\ run[r].worker = w /\ run[r].job = j
    BY <2>1 DEF IInv, LeaseDiscipline
  <2> QED
    BY <2>2 DEF RunsEvolve
<1>6. LeaseDiscipline'
  BY <1>1, <1>2, <1>3, <1>4, <1>5 DEF LeaseDiscipline, OutcomeOK
<1>7. TypeOK'
  BY <1>1, <1>4 DEF TypeOK, RowsEvolve, RunsEvolve, WritersOK, GaveUpOK, ProcessesOK
<1> QED
  BY <1>1, <1>6, <1>7 DEF IInv, WritersOK, GaveUpOK, FencedWrites, GivenUpIsDead

-----------------------------------------------------------------------------
(* The pieces most actions share. *)

\* Tables a transaction may commit.
GoodTable(table) ==
    /\ table \in [Jobs -> JobRow]
    /\ \A j \in Jobs : RowOK(table[j]) /\ Keeps(jobs[j], table[j])

\* The table as it is may be committed.
LEMMA SameTable == ASSUME IInv PROVE GoodTable(jobs)
BY RowsOfIInv DEF GoodTable, IInv, TypeOK, Keeps

\* What a transaction of such a table shows for the rows and the fence.
LEMMA CommitOK ==
    ASSUME IInv, NEW table, GoodTable(table), Commit(table)
    PROVE  RowsEvolve /\ WritersOK
BY DEF IInv, TypeOK, FencedWrites, GoodTable, Commit, RowsEvolve, WritersOK

\* A step that commits nothing leaves rows and fence in order.
LEMMA SameRows ==
    ASSUME IInv, UNCHANGED <<jobs, writer>>
    PROVE  RowsEvolve /\ WritersOK
BY SameTable DEF IInv, TypeOK, FencedWrites, GoodTable, RowsEvolve, WritersOK

\* Attempts are untouched, and the rows with an open transaction keep their leases.
LEMMA SameRuns ==
    ASSUME IInv, UNCHANGED run,
           \A j \in Jobs : RowLocked(j) => jobs'[j].token = jobs[j].token
    PROVE  RunsEvolve
<1> SUFFICES ASSUME NEW r \in Runs, run[r].phase # "idle"
             PROVE  /\ run[r].phase = "tx" => jobs'[run[r].job].token = r
                    /\ OutcomeOK(run[r])
  BY DEF RunsEvolve, IInv, TypeOK
<1> QED
  BY RunsOfIInv DEF RowLocked

\* One attempt moves on or ends; nobody else's open transaction loses its lease.
LEMMA OneRun ==
    ASSUME IInv, NEW r \in Runs, NEW x \in Run, run' = [run EXCEPT ![r] = x],
           run[r].phase # "idle",
           \/ x = NoRun /\ \A w \in Workers, j \in Jobs : active'[w][j] # r
           \/ /\ x.phase # "idle" /\ OutcomeOK(x)
              /\ x.worker = run[r].worker /\ x.job = run[r].job
              /\ x.kind = run[r].kind /\ x.attempt = run[r].attempt
              /\ x.phase = "tx" => jobs'[run[r].job].token = r,
           \A i \in Runs : i # r /\ run[i].phase = "tx" => jobs'[run[i].job].token = i
    PROVE  RunsEvolve
<1>1. run \in [Runs -> Run]
  BY DEF IInv, TypeOK
<1>2. run' \in [Runs -> Run] /\ run'[r] = x /\ \A i \in Runs : i # r => run'[i] = run[i]
  BY <1>1
<1>3. ASSUME NEW i \in Runs, i # r, run[i].phase # "idle"
      PROVE  (run[i].phase = "tx" => jobs'[run[i].job].token = i) /\ OutcomeOK(run[i])
  BY <1>3, RunsOfIInv
<1> QED
  BY <1>2, <1>3 DEF RunsEvolve

\* Subjects that were given up stay so while no dead job is revived.
LEMMA SameGaveUp ==
    ASSUME IInv, UNCHANGED gaveUp,
           \A j \in Jobs : jobs[j].status = "dead" => jobs'[j].status = "dead"
    PROVE  GaveUpOK
BY DEF IInv, TypeOK, GivenUpIsDead, GaveUpOK

\* The processes are untouched.
LEMMA SameProcesses ==
    ASSUME IInv, UNCHANGED <<active, mode, pass, stops>>
    PROVE  ProcessesOK
BY DEF IInv, TypeOK, ProcessesOK

\* A table in order stays so when one row is replaced by a row in order.
LEMMA OneRowTable ==
    ASSUME IInv, NEW table, GoodTable(table), NEW j \in Jobs, NEW row,
           RowOK(row), Keeps(jobs[j], row)
    PROVE  GoodTable([table EXCEPT ![j] = row])
BY DEF GoodTable, RowOK

\* An insert, or its skip by the unique index, leaves the table in order.
LEMMA EnqueueTable ==
    ASSUME IInv, NEW table, GoodTable(table),
           NEW k \in Kinds, NEW key \in DedupeKeys \cup {Null},
           NEW group \in Groups \cup {Null}, NEW delay \in Int,
           NEW new \in AfterEnqueue(table, k, key, group, delay)
    PROVE  /\ GoodTable(new)
           /\ \A j \in Jobs : new[j] = table[j] \/ table[j].status = "none"
<1>1. CASE new = table
  BY <1>1
<1>2. CASE \E i \in FreeRows(table) : new = [table EXCEPT ![i] = QueuedRow(k, key, group, delay)]
  <2>1. PICK i \in Jobs : /\ table[i].status = "none"
                          /\ new = [table EXCEPT ![i] = QueuedRow(k, key, group, delay)]
    BY <1>2 DEF FreeRows
  <2>2. RowOK(QueuedRow(k, key, group, delay)) /\ Keeps(jobs[i], QueuedRow(k, key, group, delay))
    BY QueuedRowOK
  <2> QED
    BY <2>1, <2>2, OneRowTable DEF GoodTable
<1> QED
  BY <1>1, <1>2 DEF AfterEnqueue

\* So does an ending together with the tick that follows it.
LEMMA EndingTable ==
    ASSUME IInv, NEW j \in Jobs, NEW row, RowOK(row), Keeps(jobs[j], row),
           row.status # "none",
           NEW new \in AfterEnding(jobs, j, row)
    PROVE  /\ GoodTable(new) /\ new[j] = row
           /\ \A i \in Jobs : i # j => new[i] = jobs[i] \/ jobs[i].status = "none"
<1> DEFINE table == [jobs EXCEPT ![j] = row]
<1>1. GoodTable(table) /\ table[j] = row /\ \A i \in Jobs : i # j => table[i] = jobs[i]
  BY SameTable, OneRowTable DEF IInv, TypeOK
<1>2. CASE isTick(row) /\ Ended(row)
  <2>1. new \in AfterEnqueue(table, row.kind, row.key, Null, Every[row.kind])
    BY <1>2 DEF AfterEnding
  <2>2. row.kind \in Kinds /\ row.key \in DedupeKeys \cup {Null} /\ Every[row.kind] \in Int
    BY <1>2, JobStoreConstants DEF isTick, RowOK, JobRow
  <2>3. GoodTable(new) /\ \A i \in Jobs : new[i] = table[i] \/ table[i].status = "none"
    <3> HIDE DEF table
    <3>1. Null \in Groups \cup {Null}
      OBVIOUS
    <3> QED
      BY <1>1, <2>1, <2>2, <3>1, EnqueueTable
  <2> QED
    BY <1>1, <2>3
<1>3. CASE ~(isTick(row) /\ Ended(row))
  BY <1>1, <1>3 DEF AfterEnding
<1> QED
  BY <1>2, <1>3

-----------------------------------------------------------------------------
(* One lemma per group of actions. *)

\* The callers of the queue and the clock.
LEMMA CallersKeep == ASSUME IInv, Callers \/ ClockTick PROVE IInv'
<1>1. ASSUME NEW q \in Requests, EnqueueJob(q.kind, q.key, q.group, q.delay)
      PROVE  IInv'
  <2>1. PICK table \in AfterEnqueue(jobs, q.kind, q.key, q.group, q.delay) : Commit(table)
    BY <1>1 DEF EnqueueJob
  <2>2. /\ q.kind \in Kinds /\ q.key \in DedupeKeys \cup {Null}
        /\ q.group \in Groups \cup {Null} /\ q.delay \in Int
    BY JobExecutorConstants DEF DedupeKeys
  <2>3. GoodTable(table) /\ \A j \in Jobs : table[j] = jobs[j] \/ jobs[j].status = "none"
    BY <2>1, <2>2, SameTable, EnqueueTable
  <2>4. jobs' = table /\ UNCHANGED <<run, active, mode, pass, stops, gaveUp>>
    BY <1>1, <2>1 DEF EnqueueJob, Commit
  <2>5. \A j \in Jobs : RowLocked(j) => jobs'[j].token = jobs[j].token
    <3> SUFFICES ASSUME NEW j \in Jobs, RowLocked(j) PROVE jobs[j].status # "none"
      BY <2>3, <2>4
    <3> QED
      BY RunsOfIInv, RowsOfIInv, JobStoreConstants DEF RowLocked, RowOK
  <2>6. RunsEvolve
    BY <2>4, <2>5, SameRuns
  <2>7. GaveUpOK
    BY <2>3, <2>4, SameGaveUp
  <2> QED
    BY <2>1, <2>3, <2>4, <2>6, <2>7, CommitOK, SameProcesses, Preservation
<1>2. ASSUME NEW j \in Jobs, NEW row, RowOK(row), Keeps(jobs[j], row),
             jobs[j].status # "running", Commit([jobs EXCEPT ![j] = row]),
             UNCHANGED <<run, active, mode, pass, stops>>, GaveUpOK
      PROVE  IInv'
  <2>1. GoodTable([jobs EXCEPT ![j] = row])
    BY <1>2, SameTable, OneRowTable
  <2>2. jobs' = [jobs EXCEPT ![j] = row]
    BY <1>2 DEF Commit
  <2>3. ~RowLocked(j)
    BY <1>2, RunsOfIInv, RowsOfIInv, JobStoreConstants DEF RowLocked, RowOK
  <2>4. \A i \in Jobs : RowLocked(i) => jobs'[i].token = jobs[i].token
    BY <2>2, <2>3 DEF IInv, TypeOK
  <2> QED
    BY <1>2, <2>1, <2>4, CommitOK, SameRuns, SameProcesses, Preservation
<1>3. ASSUME NEW k \in Kinds, NEW key \in Keys, Withdraw(k, key)
      PROVE  IInv'
  <2>1. PICK j \in Jobs : jobs[j].status = "queued" /\ Commit([jobs EXCEPT ![j] = NoRow])
    BY <1>3 DEF Withdraw
  <2>2. UNCHANGED <<run, active, mode, pass, stops, gaveUp>>
    BY <1>3 DEF Withdraw
  <2>3. GaveUpOK
    BY <2>1, <2>2, SameGaveUp DEF Commit, IInv, TypeOK
  <2> QED
    BY <1>2, <2>1, <2>2, <2>3, NoRowOK
<1>4. ASSUME NEW j \in Jobs, PruneEndedJobs(j)
      PROVE  IInv'
  <2>1. GaveUpOK
    BY <1>4 DEF PruneEndedJobs, Commit, IInv, TypeOK, GivenUpIsDead, GaveUpOK
  <2> QED
    BY <1>2, <1>4, <2>1, NoRowOK DEF PruneEndedJobs, Ended
<1>5. ASSUME NEW j \in Jobs, RetryJob(j)
      PROVE  IInv'
  <2>1. GaveUpOK
    BY <1>5 DEF RetryJob, Commit, IInv, TypeOK, GivenUpIsDead, GaveUpOK
  <2>2. RowOK(requeued(jobs[j])) /\ Keeps(jobs[j], requeued(jobs[j]))
    BY <1>5, RowsOfIInv, RequeuedOK DEF RetryJob
  <2>3. Commit([jobs EXCEPT ![j] = requeued(jobs[j])]) /\ jobs[j].status # "running"
    BY <1>5 DEF RetryJob
  <2> QED
    BY <1>2, <1>5, <2>1, <2>2, <2>3 DEF RetryJob
<1>6. CASE ClockTick
  <2>1. \A j \in Jobs : RowOK(aged(jobs[j])) /\ Keeps(jobs[j], aged(jobs[j]))
                        /\ aged(jobs[j]) \in JobRow /\ aged(jobs[j]).token = jobs[j].token
                        /\ aged(jobs[j]).status = jobs[j].status
    BY RowsOfIInv, AgedOK, AgedType DEF RowOK
  <2>2. GoodTable([j \in Jobs |-> aged(jobs[j])])
    BY <2>1 DEF GoodTable
  <2>3. /\ Commit([j \in Jobs |-> aged(jobs[j])]) /\ jobs' = [j \in Jobs |-> aged(jobs[j])]
        /\ UNCHANGED <<run, active, mode, pass, stops, gaveUp>>
    BY <1>6 DEF ClockTick, Commit
  <2>4. RunsEvolve /\ GaveUpOK
    BY <2>1, <2>3, SameRuns, SameGaveUp
  <2> QED
    BY <2>2, <2>3, <2>4, CommitOK, SameProcesses, Preservation
<1> QED
  BY <1>1, <1>3, <1>4, <1>5, <1>6 DEF Callers

\* A step that touches no row and no attempt has only its types to show.
LEMMA QuietStep ==
    ASSUME IInv, UNCHANGED <<jobs, run, writer, gaveUp>>, ProcessesOK
    PROVE  IInv'
BY SameRows, SameRuns, SameGaveUp, Preservation

\* The part of a pass that only reads the table.
LEMMA ReadsKeep ==
    ASSUME IInv, NEW w \in Workers,
           \/ PassBegin(w) \/ ListExhausted(w) \/ BuryDone(w) \/ PollFails(w) \/ PassEnd(w)
           \/ \E k \in Kinds : SkipClaim(w, k)
    PROVE  IInv'
<1>1. /\ pass \in [Workers -> Pass] /\ mode \in [Workers -> Modes]
      /\ \A v \in Workers : pass[v].stage \in {"list", "bury"} => pass[v].at \in Kinds
  BY DEF IInv, TypeOK
<1>2. "next" \in Stages /\ "list" \in Stages /\ "bury" \in Stages /\ "off" \in Stages
  BY DEF Stages
<1>3. NoPass \in Pass /\ NoPass.stage = "off"
  BY <1>2 DEF NoPass, Pass
<1>4. ASSUME NEW x \in Pass, x.stage \in {"list", "bury"} => x.at \in Kinds,
             pass' = [pass EXCEPT ![w] = x], UNCHANGED <<jobs, run, active, stops, writer, gaveUp>>,
             mode' \in [Workers -> Modes]
      PROVE  IInv'
  <2>1. ProcessesOK
    BY <1>1, <1>4 DEF ProcessesOK, IInv, TypeOK
  <2> QED
    BY <1>4, <2>1, QuietStep
<1>5. CASE PassBegin(w)
  <2> DEFINE x == [NoPass EXCEPT !.stage = "next", !.todo = KindsWithWork]
  <2>1. x \in Pass /\ x.stage = "next"
    BY <1>2, <1>3 DEF KindsWithWork, NoPass, Pass
  <2>2. mode' \in [Workers -> Modes]
    BY <1>1, <1>5 DEF PassBegin, Modes
  <2>3. pass' = [pass EXCEPT ![w] = x] /\ UNCHANGED <<jobs, run, active, stops, writer, gaveUp>>
    BY <1>5 DEF PassBegin
  <2> HIDE DEF x
  <2> QED
    BY <1>4, <2>1, <2>2, <2>3
<1>6. CASE ListExhausted(w)
  <2> DEFINE doomed == {j \in Jobs : jobs[j].kind = pass[w].at /\ exhausted(jobs[j])}
             x == [pass[w] EXCEPT !.stage = "bury", !.doomed = doomed]
  <2>1. x \in Pass /\ x.at \in Kinds
    <3>1. doomed \subseteq Jobs
      OBVIOUS
    <3> HIDE DEF doomed
    <3> QED
      BY <1>1, <1>2, <1>6, <3>1 DEF ListExhausted, Pass
  <2>2. pass' = [pass EXCEPT ![w] = x] /\ UNCHANGED <<jobs, run, active, stops, writer, gaveUp>>
    BY <1>1, <1>6 DEF ListExhausted, Pass
  <2>3. mode' \in [Workers -> Modes]
    BY <1>1, <1>6 DEF ListExhausted
  <2> HIDE DEF x
  <2> QED
    BY <1>4, <2>1, <2>2, <2>3
<1>7. CASE BuryDone(w)
  <2> DEFINE x == [pass[w] EXCEPT !.stage = "next", !.at = Null]
  <2>1. x \in Pass /\ x.stage = "next"
    BY <1>1, <1>2 DEF Pass
  <2>2. pass' = [pass EXCEPT ![w] = x] /\ UNCHANGED <<jobs, run, active, stops, writer, gaveUp>>
    BY <1>1, <1>7 DEF BuryDone, Pass
  <2>3. mode' \in [Workers -> Modes]
    BY <1>1, <1>7 DEF BuryDone
  <2> HIDE DEF x
  <2> QED
    BY <1>4, <2>1, <2>2, <2>3
<1>8. CASE PollFails(w)
  <2>1. mode' \in [Workers -> Modes] /\ UNCHANGED <<jobs, run, active, stops, writer, gaveUp>>
    BY <1>1, <1>8 DEF PollFails
  <2>2. CASE pass' = [pass EXCEPT ![w] = [NoPass EXCEPT !.stage = "next", !.todo = pass[w].todo]]
    <3> DEFINE x == [NoPass EXCEPT !.stage = "next", !.todo = pass[w].todo]
    <3>1. x \in Pass /\ x.stage = "next"
      BY <1>1, <1>2, <1>3 DEF NoPass, Pass
    <3>2. pass' = [pass EXCEPT ![w] = x]
      BY <2>2
    <3> HIDE DEF x
    <3> QED
      BY <1>4, <2>1, <3>1, <3>2
  <2>3. ASSUME NEW k, pass[w].stage = "next", pass' = [pass EXCEPT ![w].todo = @ \ {k}]
        PROVE  IInv'
    <3> DEFINE x == [pass[w] EXCEPT !.todo = @ \ {k}]
    <3>1. x \in Pass /\ x.stage = "next"
      BY <1>1, <2>3 DEF Pass
    <3>2. pass' = [pass EXCEPT ![w] = x]
      BY <1>1, <2>3 DEF Pass
    <3> HIDE DEF x
    <3> QED
      BY <1>4, <2>1, <3>1, <3>2
  <2> QED
    BY <1>8, <2>2, <2>3 DEF PollFails
<1>9. CASE PassEnd(w)
  BY <1>1, <1>3, <1>4, <1>9 DEF PassEnd
<1>10. ASSUME NEW k \in Kinds, SkipClaim(w, k) PROVE IInv'
  <2> DEFINE x == [pass[w] EXCEPT !.stage = "list", !.todo = @ \ {k}, !.at = k]
  <2>1. x \in Pass /\ x.at \in Kinds
    <3>1. pass[w] \in Pass /\ pass[w].todo \ {k} \in SUBSET Kinds
      BY <1>1 DEF Pass
    <3> QED
      BY <1>2, <3>1 DEF Pass
  <2>2. pass' = [pass EXCEPT ![w] = x] /\ UNCHANGED <<jobs, run, active, stops, writer, gaveUp>>
    BY <1>1, <1>10 DEF SkipClaim, Pass
  <2>3. mode' \in [Workers -> Modes]
    BY <1>1, <1>10 DEF SkipClaim, Pass
  <2> HIDE DEF x
  <2> QED
    BY <1>4, <2>1, <2>2, <2>3
<1> QED
  BY <1>5, <1>6, <1>7, <1>8, <1>9, <1>10

\* The check of the schedules: a tick is inserted, or a waiting one made due.
LEMMA EnsureScheduleKeeps ==
    ASSUME IInv, NEW w \in Workers, NEW k \in Kinds, EnsureSchedule(w, k)
    PROVE  IInv'
<1>1. PICK table \in AfterEnqueue(jobs, k, scheduleDedupeKey(k), Null, 0) :
        Commit(IF mode[w] = "starting" /\ k \in DueAtStart
               THEN [j \in Jobs |-> IF /\ isTick(table[j]) /\ table[j].kind = k
                                       /\ table[j].status = "queued"
                                    THEN [table[j] EXCEPT !.wait = 0]
                                    ELSE table[j]]
               ELSE table)
  BY DEF EnsureSchedule
<1>2. GoodTable(table) /\ \A j \in Jobs : table[j] = jobs[j] \/ jobs[j].status = "none"
  <2>1. scheduleDedupeKey(k) \in DedupeKeys \cup {Null} /\ Null \in Groups \cup {Null} /\ 0 \in Int
    BY DEF EnsureSchedule, DedupeKeys
  <2> QED
    BY <1>1, <2>1, SameTable, EnqueueTable
<1>3. PICK new : /\ Commit(new) /\ GoodTable(new)
                 /\ \A j \in Jobs : new[j].token = table[j].token /\ new[j].status = table[j].status
  <2> DEFINE due == [j \in Jobs |-> IF /\ isTick(table[j]) /\ table[j].kind = k
                                       /\ table[j].status = "queued"
                                    THEN [table[j] EXCEPT !.wait = 0]
                                    ELSE table[j]]
  <2>1. ASSUME NEW j \in Jobs
        PROVE  /\ RowOK(due[j]) /\ Keeps(jobs[j], due[j])
               /\ due[j].token = table[j].token /\ due[j].status = table[j].status
    <3>1. table[j] \in JobRow /\ RowOK(table[j]) /\ Keeps(jobs[j], table[j]) /\ 0 \in Int
      BY <1>2 DEF GoodTable
    <3> DEFINE row == [table[j] EXCEPT !.wait = 0]
    <3>2. /\ row \in JobRow /\ row.status = table[j].status /\ row.token = table[j].token
          /\ row.kind = table[j].kind /\ row.key = table[j].key
          /\ row.attempts = table[j].attempts
      BY <3>1 DEF JobRow
    <3>3. RowOK(row) /\ Keeps(jobs[j], row)
      <4> HIDE DEF row
      <4> QED BY <3>1, <3>2 DEF RowOK, Keeps, isTick
    <3> QED
      BY <3>1, <3>2, <3>3
  <2>2. GoodTable(due)
    <3>1. due \in [Jobs -> JobRow]
      <4>1. \A j \in Jobs : due[j] \in JobRow
        <5> HIDE DEF due
        <5> QED BY <2>1 DEF RowOK
      <4> QED
        BY <4>1
    <3> HIDE DEF due
    <3> QED
      BY <2>1, <3>1 DEF GoodTable
  <2>3. Commit(due) \/ Commit(table)
    BY <1>1
  <2> HIDE DEF due
  <2> QED
    BY <1>2, <2>1, <2>2, <2>3
<1>4. jobs' = new /\ UNCHANGED <<run, active, mode, pass, stops, gaveUp>>
  BY <1>3 DEF EnsureSchedule, Commit
<1>5. \A j \in Jobs : RowLocked(j) => jobs'[j].token = jobs[j].token
  <2> SUFFICES ASSUME NEW j \in Jobs, RowLocked(j) PROVE jobs[j].status # "none"
    BY <1>2, <1>3, <1>4
  <2> QED
    BY RunsOfIInv, RowsOfIInv, JobStoreConstants DEF RowLocked, RowOK
<1>6. RunsEvolve
  BY <1>4, <1>5, SameRuns
<1>7. GaveUpOK
  BY <1>2, <1>3, <1>4, SameGaveUp
<1> QED
  BY <1>3, <1>4, <1>6, <1>7, CommitOK, SameProcesses, Preservation

\* The burial of a job whose last attempt lost its lease.
LEMMA BuryKeeps ==
    ASSUME IInv, NEW w \in Workers, NEW j \in Jobs, Bury(w, j)
    PROVE  IInv'
<1>1. ProcessesOK
  <2>1. /\ pass \in [Workers -> Pass]
        /\ \A v \in Workers : pass[v].stage \in {"list", "bury"} => pass[v].at \in Kinds
    BY DEF IInv, TypeOK
  <2> DEFINE x == [pass[w] EXCEPT !.doomed = @ \ {j}]
  <2>2. x \in Pass /\ x.at \in Kinds
    BY <2>1 DEF Bury, Pass
  <2>3. pass' = [pass EXCEPT ![w] = x]
    BY <2>1 DEF Bury, Pass
  <2> HIDE DEF x
  <2>4. /\ pass' \in [Workers -> Pass]
        /\ \A v \in Workers : pass'[v].stage \in {"list", "bury"} => pass'[v].at \in Kinds
    BY <2>1, <2>2, <2>3
  <2> QED
    BY <2>4 DEF Bury, ProcessesOK, IInv, TypeOK
<1>2. CASE ~exhausted(jobs[j])
  <2>1. UNCHANGED <<jobs, run, writer, gaveUp>>
    BY <1>2 DEF Bury
  <2> QED
    BY <1>1, <2>1, QuietStep
<1>3. CASE exhausted(jobs[j])
  <2> DEFINE status == IF isTick(jobs[j]) THEN "failed" ELSE "dead"
             row == ended(jobs[j], status)
  <2>1. PICK table \in AfterEnding(jobs, j, row) : Commit(table)
    BY <1>3 DEF Bury
  <2>2. PICK ok \in BOOLEAN : gaveUp' = [gaveUp EXCEPT ![j] = ok /\ ~isTick(jobs[j])]
    BY <1>3 DEF Bury
  <2>3. /\ RowOK(jobs[j]) /\ jobs[j].status = "running"
        /\ jobs[j].attempts >= MaxAttempts[jobs[j].kind]
    BY <1>3, RowsOfIInv DEF exhausted, LeaseExpired
  <2>4. /\ RowOK(row) /\ Keeps(jobs[j], row) /\ row.status = status
    <3>1. status \in {"failed", "dead"} /\ (status = "dead" => ~isTick(jobs[j]))
      OBVIOUS
    <3> HIDE DEF status
    <3> QED
      BY <2>3, <3>1, EndedOK
  <2>5. row.status # "none" /\ (~isTick(jobs[j]) => row.status = "dead")
    <3> HIDE DEF row
    <3> QED BY <2>4
  <2> HIDE DEF row, status
  <2>6. /\ GoodTable(table) /\ table[j] = row
        /\ \A i \in Jobs : i # j => table[i] = jobs[i] \/ jobs[i].status = "none"
    BY <2>1, <2>4, <2>5, EndingTable
  <2>7. jobs' = table /\ UNCHANGED <<run, active, mode, stops>> /\ ~RowLocked(j)
    BY <2>1 DEF Bury, Commit
  <2>8. \A i \in Jobs : RowLocked(i) => jobs'[i].token = jobs[i].token
    <3> SUFFICES ASSUME NEW i \in Jobs, RowLocked(i), i # j PROVE jobs[i].status # "none"
      BY <2>6, <2>7
    <3> QED
      BY RunsOfIInv, RowsOfIInv, JobStoreConstants DEF RowLocked, RowOK
  <2>9. GaveUpOK
    <3>1. gaveUp \in [Jobs -> BOOLEAN] /\ \A i \in Jobs : gaveUp[i] => jobs[i].status = "dead"
      BY DEF IInv, TypeOK, GivenUpIsDead
    <3>2. gaveUp' \in [Jobs -> BOOLEAN] /\ gaveUp'[j] = (ok /\ ~isTick(jobs[j]))
          /\ \A i \in Jobs : i # j => gaveUp'[i] = gaveUp[i]
      BY <2>2, <3>1
    <3>3. \A i \in Jobs : i # j /\ gaveUp[i] => jobs'[i].status = "dead"
      BY <2>6, <2>7, <3>1
    <3>4. gaveUp'[j] => jobs'[j].status = "dead"
      BY <2>5, <2>6, <2>7, <3>2
    <3> QED
      BY <3>2, <3>3, <3>4 DEF GaveUpOK
  <2>10. RunsEvolve
    BY <2>7, <2>8, SameRuns
  <2> QED
    BY <1>1, <2>1, <2>6, <2>9, <2>10, CommitOK, Preservation
<1> QED
  BY <1>2, <1>3

\* A claim gives out leases, so it is the one step that Preservation does not cover.  A fresh
\* token leases no other row and belongs to no attempt, and the attempt that gets it is started
\* from the row as the claim left it.
LEMMA ClaimKeeps ==
    ASSUME IInv, NEW w \in Workers, NEW k \in Kinds, ClaimJobs(w, k)
    PROVE  IInv'
<1> DEFINE table == [j \in Jobs |-> IF jobs[j].kind = k THEN recovered(jobs[j]) ELSE jobs[j]]
<1>1. \A j \in Jobs : /\ RowOK(table[j]) /\ Keeps(jobs[j], table[j])
                      /\ ~recoverable(jobs[j]) => table[j] = jobs[j]
  BY RowsOfIInv, RecoveredOK DEF Keeps, recovered
<1>2. \A j \in Jobs : jobs[j].kind = k /\ recoverable(jobs[j]) => ~RowLocked(j)
  BY DEF ClaimJobs
<1>3. \A j \in Jobs : RowLocked(j) => table[j] = jobs[j]
  BY <1>2 DEF recovered
<1>4. PICK S \in Claimable(w, k, table) : \E token \in [S -> FreshRuns] :
          /\ \A i, j \in S : token[i] = token[j] => i = j
          /\ Commit([j \in Jobs |-> IF j \in S THEN claimed(table[j], token[j]) ELSE table[j]])
          /\ run' = [r \in Runs |->
                IF \E j \in S : token[j] = r
                THEN LET j == CHOOSE i \in S : token[i] = r
                     IN  [NoRun EXCEPT !.phase = "running", !.worker = w, !.job = j,
                                       !.kind = k, !.attempt = table[j].attempts + 1]
                ELSE run[r]]
          /\ active' = [active EXCEPT ![w] = [j \in Jobs |-> IF j \in S THEN token[j] ELSE @[j]]]
  BY DEF ClaimJobs
<1> HIDE DEF table
<1>5. PICK token \in [S -> FreshRuns] :
          /\ \A i, j \in S : token[i] = token[j] => i = j
          /\ Commit([j \in Jobs |-> IF j \in S THEN claimed(table[j], token[j]) ELSE table[j]])
          /\ run' = [r \in Runs |->
                IF \E j \in S : token[j] = r
                THEN LET j == CHOOSE i \in S : token[i] = r
                     IN  [NoRun EXCEPT !.phase = "running", !.worker = w, !.job = j,
                                       !.kind = k, !.attempt = table[j].attempts + 1]
                ELSE run[r]]
          /\ active' = [active EXCEPT ![w] = [j \in Jobs |-> IF j \in S THEN token[j] ELSE @[j]]]
  BY <1>4
<1>6. S \subseteq Jobs /\ \A j \in S : table[j].status = "queued" /\ table[j].kind = k
  BY <1>4 DEF Claimable, Due
<1>7. \A j \in S : /\ token[j] \in Runs /\ token[j] # Null /\ run[token[j]].phase = "idle"
                   /\ \A i \in Jobs : jobs[i].token # token[j]
  BY JobStoreConstants DEF FreshRuns
<1>8. jobs' = [j \in Jobs |-> IF j \in S THEN claimed(table[j], token[j]) ELSE table[j]]
  BY <1>5 DEF Commit
<1>9. \A j \in S : /\ RowOK(jobs'[j]) /\ jobs'[j].token = token[j] /\ jobs'[j].kind = k
                   /\ jobs'[j].attempts = table[j].attempts + 1
  BY <1>1, <1>6, <1>7, <1>8, ClaimedOK
<1>10. \A j \in Jobs : j \notin S => jobs'[j] = table[j]
  BY <1>8
<1>11. \A j \in Jobs : RowOK(jobs'[j])
  BY <1>1, <1>9, <1>10
<1>12. jobs' \in [Jobs -> JobRow]
  <2>1. \A j \in Jobs : jobs'[j] \in JobRow
    BY <1>11 DEF RowOK
  <2> QED
    BY <1>8, <2>1
<1>13. \A j \in Jobs : \/ j \in S /\ jobs'[j].token = token[j]
                       \/ jobs'[j].token = Null
                       \/ /\ j \notin S /\ jobs'[j].token = jobs[j].token
                          /\ jobs'[j].kind = jobs[j].kind
                          /\ jobs'[j].attempts = jobs[j].attempts
  BY <1>1, <1>9, <1>10 DEF Keeps
<1>14. \A i, j \in Jobs : jobs'[i].token = jobs'[j].token /\ jobs'[i].token # Null => i = j
  <2>1. \A i, j \in Jobs : jobs[i].token = jobs[j].token /\ jobs[i].token # Null => i = j
    BY DEF IInv, LeaseDiscipline
  <2>2. \A i, j \in S : token[i] = token[j] => i = j
    BY <1>5
  <2> SUFFICES ASSUME NEW i \in Jobs, NEW j \in Jobs, jobs'[i].token = jobs'[j].token,
                      jobs'[i].token # Null
               PROVE  i = j
    OBVIOUS
  <2>3. CASE i \in S /\ j \in S
    BY <1>9, <2>2, <2>3
  <2>4. CASE i \in S /\ j \notin S
    BY <1>7, <1>9, <1>13, <2>4
  <2>5. CASE i \notin S /\ j \in S
    BY <1>7, <1>9, <1>13, <2>5
  <2>6. CASE i \notin S /\ j \notin S
    BY <1>13, <2>1, <2>6
  <2> QED
    BY <2>3, <2>4, <2>5, <2>6
\* The attempts: the claimed rows' are new, the others are what they were.
<1>15. ASSUME NEW r \in Runs, \A j \in S : token[j] # r
       PROVE  run'[r] = run[r]
  BY <1>5, <1>15
<1>16. ASSUME NEW j \in S
       PROVE  run'[token[j]] = [NoRun EXCEPT !.phase = "running", !.worker = w, !.job = j,
                                             !.kind = k, !.attempt = table[j].attempts + 1]
  <2>1. (CHOOSE i \in S : token[i] = token[j]) = j
    BY <1>5
  <2>2. run'[token[j]] = [NoRun EXCEPT !.phase = "running", !.worker = w,
                             !.job = CHOOSE i \in S : token[i] = token[j], !.kind = k,
                             !.attempt = table[CHOOSE i \in S : token[i] = token[j]].attempts + 1]
    BY <1>5, <1>7
  <2> QED
    BY <2>1, <2>2
<1>17. ASSUME NEW j \in S
       PROVE  /\ run'[token[j]] \in Run /\ OutcomeOK(run'[token[j]])
              /\ run'[token[j]].phase = "running" /\ run'[token[j]].worker = w
              /\ run'[token[j]].job = j /\ run'[token[j]].kind = k
              /\ run'[token[j]].attempt = table[j].attempts + 1
  <2>1. table[j].attempts + 1 \in Nat /\ j \in Jobs
    BY <1>1, <1>6 DEF RowOK, JobRow
  <2>2. "running" \in Phases
    BY DEF Phases
  <2>3. NoRun \in Run /\ NoRun.outcome = "none"
    BY NoRunType DEF NoRun
  <2> DEFINE n == table[j].attempts + 1
             x == [NoRun EXCEPT !.phase = "running", !.worker = w, !.job = j, !.kind = k,
                                !.attempt = n]
  <2> HIDE DEF n
  <2>4. /\ x \in Run /\ x.phase = "running" /\ x.worker = w /\ x.job = j /\ x.kind = k
        /\ x.attempt = n /\ x.outcome = "none"
    <3>1. n \in Nat
      BY <2>1 DEF n
    <3> QED
      BY <2>1, <2>2, <2>3, <3>1 DEF Run
  <2>5. run'[token[j]] = x
    BY <1>16 DEF n
  <2> HIDE DEF x
  <2>6. OutcomeOK(x)
    BY <2>4 DEF OutcomeOK
  <2> QED
    BY <2>4, <2>5, <2>6 DEF n
<1>18. \A r \in Runs : run'[r] \in Run /\ OutcomeOK(run'[r])
  <2> SUFFICES ASSUME NEW r \in Runs PROVE run'[r] \in Run /\ OutcomeOK(run'[r])
    OBVIOUS
  <2>1. CASE \E j \in S : token[j] = r
    BY <1>17, <2>1
  <2>2. CASE \A j \in S : token[j] # r
    BY <1>15, <2>2, RunsOfIInv
  <2> QED
    BY <2>1, <2>2
<1>19. run' \in [Runs -> Run]
  BY <1>5, <1>18
<1>20. ASSUME NEW r \in Runs, run'[r].phase # "idle"
       PROVE  /\ run'[r].worker \in Workers /\ run'[r].job \in Jobs /\ run'[r].kind \in Kinds
              /\ run'[r].phase = "tx" => jobs'[run'[r].job].token = r
              /\ \A j \in Jobs : jobs'[j].token = r =>
                    /\ run'[r].job = j /\ run'[r].kind = jobs'[j].kind
                    /\ run'[r].attempt = jobs'[j].attempts
  <2>1. CASE \E j \in S : token[j] = r
    <3>1. PICK j \in S : token[j] = r
      BY <2>1
    <3>2. j \in Jobs /\ jobs'[j].token = r /\ r # Null
      BY <1>6, <1>7, <1>9, <3>1
    <3>3. \A i \in Jobs : jobs'[i].token = r => i = j
      BY <1>14, <3>2
    <3> QED
      BY <1>9, <1>17, <3>1, <3>2, <3>3
  <2>2. CASE \A j \in S : token[j] # r
    <3>1. run'[r] = run[r]
      BY <1>15, <2>2
    <3>2. ASSUME run[r].phase = "tx"
          PROVE  jobs'[run[r].job].token = r
      <4>1. /\ run[r].job \in Jobs /\ RowLocked(run[r].job) /\ jobs[run[r].job].token = r
            /\ jobs[run[r].job].status = "running"
        BY <3>2, RunsOfIInv, RowsOfIInv, JobStoreConstants DEF RowLocked, RowOK
      <4> QED
        BY <1>3, <1>6, <1>10, <4>1
    <3>3. r # Null
      BY JobStoreConstants
    <3>4. ASSUME NEW j \in Jobs, jobs'[j].token = r
          PROVE  /\ jobs[j].token = r /\ jobs'[j].kind = jobs[j].kind
                 /\ jobs'[j].attempts = jobs[j].attempts
      BY <1>13, <2>2, <3>3, <3>4
    <3> QED
      BY <1>20, <3>1, <3>2, <3>4, RunsOfIInv DEF IInv, LeaseDiscipline
  <2> QED
    BY <2>1, <2>2
<1>21. \A v \in Workers, j \in Jobs :
          active'[v][j] = IF v = w /\ j \in S THEN token[j] ELSE active[v][j]
  <2>1. active \in [Workers -> [Jobs -> Runs \cup {Null}]]
    BY DEF IInv, TypeOK
  <2> QED
    BY <1>5, <2>1
<1>22. ASSUME NEW v \in Workers, NEW j \in Jobs, NEW r \in Runs, active'[v][j] = r
       PROVE  run'[r].phase # "idle" /\ run'[r].worker = v /\ run'[r].job = j
  <2>1. CASE v = w /\ j \in S
    BY <1>17, <1>22, <1>21, <2>1
  <2>2. CASE ~(v = w /\ j \in S)
    <3>1. run[r].phase # "idle" /\ run[r].worker = v /\ run[r].job = j
      BY <1>22, <1>21, <2>2 DEF IInv, LeaseDiscipline
    <3> QED
      BY <1>7, <1>15, <3>1
  <2> QED
    BY <2>1, <2>2
<1>23. LeaseDiscipline'
  <2>1. \A j \in Jobs : (jobs'[j].status = "running" <=> jobs'[j].token # Null)
    BY <1>11 DEF RowOK
  <2>2. \A r \in Runs : run'[r].phase = "tx" => jobs'[run'[r].job].token = r
    BY <1>20
  <2> QED
    BY <1>14, <1>18, <1>20, <1>22, <2>1, <2>2 DEF LeaseDiscipline, OutcomeOK
<1>24. WritersOK
  <2>1. writer' = [j \in Jobs |-> IF jobs'[j].token = jobs[j].token THEN writer[j] ELSE Null]
    BY <1>5 DEF Commit
  <2>2. /\ writer \in [Jobs -> Runs \cup {Null}]
        /\ \A j \in Jobs : writer[j] # Null => jobs[j].token = writer[j]
    BY DEF IInv, TypeOK, FencedWrites
  <2> QED
    BY <2>1, <2>2 DEF WritersOK
<1>25. GaveUpOK
  <2>1. \A j \in Jobs : jobs[j].status = "dead" => jobs'[j].status = "dead"
    <3> SUFFICES ASSUME NEW j \in Jobs, jobs[j].status = "dead" PROVE jobs'[j].status = "dead"
      OBVIOUS
    <3>1. table[j] = jobs[j]
      BY <1>1 DEF recoverable, LeaseExpired
    <3> QED
      BY <1>6, <1>10, <3>1
  <2> QED
    BY <2>1, SameGaveUp DEF ClaimJobs
<1>26. /\ active' \in [Workers -> [Jobs -> Runs \cup {Null}]]
       /\ mode' \in [Workers -> Modes] /\ pass' \in [Workers -> Pass] /\ stops' \in Nat
       /\ \A v \in Workers : pass'[v].stage \in {"list", "bury"} => pass'[v].at \in Kinds
  <2>1. active' \in [Workers -> [Jobs -> Runs \cup {Null}]]
    <3>1. active \in [Workers -> [Jobs -> Runs \cup {Null}]]
      BY DEF IInv, TypeOK
    <3>2. [j \in Jobs |-> IF j \in S THEN token[j] ELSE active[w][j]] \in [Jobs -> Runs \cup {Null}]
      BY <1>7, <3>1
    <3>3. active' = [active EXCEPT ![w] =
                        [j \in Jobs |-> IF j \in S THEN token[j] ELSE active[w][j]]]
      BY <1>5, <3>1
    <3> QED
      BY <3>1, <3>2, <3>3
  <2>2. /\ pass' \in [Workers -> Pass]
        /\ \A v \in Workers : pass'[v].stage \in {"list", "bury"} => pass'[v].at \in Kinds
    <3>1. /\ pass \in [Workers -> Pass]
          /\ \A v \in Workers : pass[v].stage \in {"list", "bury"} => pass[v].at \in Kinds
      BY DEF IInv, TypeOK
    <3> DEFINE x == [pass[w] EXCEPT !.stage = "list", !.todo = @ \ {k}, !.at = k]
    <3>2. x \in Pass /\ x.at \in Kinds
      <4>1. pass[w] \in Pass /\ pass[w].todo \ {k} \in SUBSET Kinds /\ "list" \in Stages
        BY <3>1 DEF Pass, Stages
      <4> QED
        BY <4>1 DEF Pass
    <3>3. pass' = [pass EXCEPT ![w].stage = "list", ![w].todo = @ \ {k}, ![w].at = k]
      BY DEF ClaimJobs
    <3>4. pass' = [pass EXCEPT ![w] = x]
      BY <3>1, <3>3 DEF Pass
    <3> HIDE DEF x
    <3> QED
      BY <3>1, <3>2, <3>4
  <2> QED
    BY <2>1, <2>2 DEF ClaimJobs, IInv, TypeOK
<1>27. AttemptsAccounted'
       /\ \A j \in Jobs : jobs'[j].status # "none" => jobs'[j].kind \in Kinds
  BY <1>11 DEF RowOK, AttemptsAccounted
<1>28. TypeOK'
  BY <1>12, <1>19, <1>20, <1>24, <1>25, <1>26, <1>27
     DEF TypeOK, WritersOK, GaveUpOK
<1> QED
  BY <1>23, <1>24, <1>25, <1>27, <1>28
     DEF IInv, WritersOK, GaveUpOK, FencedWrites, GivenUpIsDead

\* An attempt that holds its lease: its row runs, is the one the attempt copied, and no other
\* attempt's transaction is open on it.
LEMMA HeldRow ==
    ASSUME IInv, NEW r \in Runs, run[r].phase # "idle", Held(r)
    PROVE  /\ run[r].job \in Jobs /\ RowOK(jobs[run[r].job])
           /\ jobs[run[r].job].status = "running" /\ jobs[run[r].job].token = r
           /\ jobs[run[r].job].kind = run[r].kind /\ jobs[run[r].job].attempts = run[r].attempt
           /\ jobs[run[r].job].kind \in Kinds
           /\ \A i \in Runs : i # r /\ run[i].phase = "tx" => run[i].job # run[r].job
<1>1. run[r].job \in Jobs /\ jobs[run[r].job].status = "running" /\ jobs[run[r].job].token = r
  BY RunsOfIInv DEF Held, heldBy
<1>2. RowOK(jobs[run[r].job])
  BY <1>1, RowsOfIInv
<1> QED
  BY <1>1, <1>2, RunsOfIInv DEF RowOK

\* No step of one attempt takes the lease from the open transaction of another: it writes the
\* row it holds, and rows that were free.
LEMMA OthersKeepTx ==
    ASSUME IInv, NEW r \in Runs, NEW j \in Jobs,
           \A i \in Runs : i # r /\ run[i].phase = "tx" => run[i].job # j,
           \A i \in Jobs : i # j => jobs'[i] = jobs[i] \/ jobs[i].status = "none"
    PROVE  \A i \in Runs : i # r /\ run[i].phase = "tx" => jobs'[run[i].job].token = i
<1> SUFFICES ASSUME NEW i \in Runs, i # r, run[i].phase = "tx"
             PROVE  jobs'[run[i].job].token = i
  OBVIOUS
<1>1. run[i].job \in Jobs /\ jobs[run[i].job].token = i /\ i # Null /\ run[i].job # j
  BY RunsOfIInv, JobStoreConstants
<1>2. jobs[run[i].job].status # "none"
  BY <1>1, RowsOfIInv DEF RowOK
<1> QED
  BY <1>1, <1>2

\* The finally of an attempt keeps the types of the active map.
LEMMA FinishOK ==
    ASSUME IInv, NEW r \in Runs, run[r].phase # "idle", Finish(r), UNCHANGED <<mode, pass, stops>>,
           \A i \in Runs : i # r /\ run[i].phase = "tx" => jobs'[run[i].job].token = i
    PROVE  RunsEvolve /\ ProcessesOK
<1>1. /\ active' \in [Workers -> [Jobs -> Runs \cup {Null}]]
      /\ \A w \in Workers, j \in Jobs :
            active'[w][j] = IF w = run[r].worker /\ j = run[r].job THEN Null ELSE active[w][j]
  <2>1. active \in [Workers -> [Jobs -> Runs \cup {Null}]] /\ run[r].worker \in Workers
        /\ run[r].job \in Jobs
    BY RunsOfIInv DEF IInv, TypeOK
  <2>2. active' = [active EXCEPT ![run[r].worker] = [active[run[r].worker] EXCEPT ![run[r].job] = Null]]
    BY <2>1 DEF Finish
  <2>3. [active[run[r].worker] EXCEPT ![run[r].job] = Null] \in [Jobs -> Runs \cup {Null}]
    BY <2>1
  <2> QED
    BY <2>1, <2>2, <2>3
<1>2. RunsEvolve
  <2>1. run' = [run EXCEPT ![r] = NoRun]
    BY DEF Finish
  <2>2. \A w \in Workers, j \in Jobs : active'[w][j] # r
    BY <1>1, JobStoreConstants DEF IInv, LeaseDiscipline
  <2> QED
    BY <2>1, <2>2, NoRunType, OneRun
<1> QED
  BY <1>1, <1>2 DEF ProcessesOK, IInv, TypeOK

\* An attempt of which only the phase and the outcome change, while the rows stay.
LEMMA PhaseStep ==
    ASSUME IInv, NEW r \in Runs, run[r].phase # "idle",
           NEW phase \in Phases \ {"idle"}, NEW outcome \in Outcomes,
           run' = [run EXCEPT ![r] = [run[r] EXCEPT !.phase = phase, !.outcome = outcome]],
           UNCHANGED <<jobs, active, mode, pass, stops, writer, gaveUp>>,
           phase = "tx" => Held(r),
           OutcomeOK([run[r] EXCEPT !.phase = phase, !.outcome = outcome])
    PROVE  IInv'
<1> DEFINE x == [run[r] EXCEPT !.phase = phase, !.outcome = outcome]
<1>1. run[r] \in Run
  BY RunsOfIInv
<1>2. /\ x \in Run /\ x.phase = phase /\ x.worker = run[r].worker /\ x.job = run[r].job
      /\ x.kind = run[r].kind /\ x.attempt = run[r].attempt
  BY <1>1 DEF Run
<1>3. x.phase = "tx" => jobs'[run[r].job].token = r
  BY <1>2, HeldRow
<1>4. \A i \in Runs : i # r /\ run[i].phase = "tx" => jobs'[run[i].job].token = i
  BY RunsOfIInv
<1>5. run' = [run EXCEPT ![r] = x] /\ OutcomeOK(x)
  OBVIOUS
<1> HIDE DEF x
<1>6. RunsEvolve
  BY <1>2, <1>3, <1>4, <1>5, OneRun
<1> QED
  BY <1>6, SameRows, SameGaveUp, SameProcesses, Preservation

\* The steps of an attempt that end nothing.
LEMMA RunningKeeps ==
    ASSUME IInv, NEW r \in Runs,
           \/ HeartbeatJob(r) \/ TxBegin(r) \/ TxCommit(r) \/ TxRollback(r) \/ HandlerEnds(r)
           \/ OnExhaustedFails(r)
    PROVE  IInv'
<1>0. /\ run[r] \in Run /\ OutcomeOK(run[r]) /\ run \in [Runs -> Run]
      /\ {"running", "tx", "settling", "burying"} \subseteq Phases \ {"idle"}
  BY RunsOfIInv DEF IInv, TypeOK, Phases
<1>1. CASE HeartbeatJob(r)
  <2> DEFINE j == run[r].job
             table == [jobs EXCEPT ![j] = renewed(jobs[j])]
  <2>1. /\ j \in Jobs /\ RowOK(jobs[j]) /\ jobs[j].token = r /\ jobs[j].kind \in Kinds
        /\ jobs[j].status = "running"
    BY <1>1, HeldRow DEF HeartbeatJob
  <2>2. /\ RowOK(renewed(jobs[j])) /\ Keeps(jobs[j], renewed(jobs[j]))
        /\ renewed(jobs[j]).token = jobs[j].token /\ renewed(jobs[j]).status = jobs[j].status
    BY <2>1, RenewedOK
  <2>3. GoodTable(table)
    BY <2>1, <2>2, SameTable, OneRowTable
  <2>4. Commit(table) /\ jobs' = table /\ UNCHANGED <<run, active, mode, pass, stops, gaveUp>>
    BY <1>1 DEF HeartbeatJob, Commit
  <2>5. \A i \in Jobs : jobs'[i].token = jobs[i].token /\ jobs'[i].status = jobs[i].status
    BY <2>1, <2>2, <2>4 DEF IInv, TypeOK
  <2> QED
    BY <2>3, <2>4, <2>5, CommitOK, SameRuns, SameGaveUp, SameProcesses, Preservation
<1>2. CASE TxBegin(r)
  <2>1. run' = [run EXCEPT ![r] = [run[r] EXCEPT !.phase = "tx", !.outcome = run[r].outcome]]
    BY <1>0, <1>2 DEF TxBegin, Run
  <2>2. OutcomeOK([run[r] EXCEPT !.phase = "tx", !.outcome = run[r].outcome])
    BY <1>0 DEF OutcomeOK, Run
  <2>3. run[r].outcome \in Outcomes
    BY <1>0 DEF Run
  <2> QED
    BY <1>0, <1>2, <2>1, <2>2, <2>3, PhaseStep DEF TxBegin
<1>3. CASE TxCommit(r)
  <2> DEFINE j == run[r].job
             x == [run[r] EXCEPT !.phase = "running"]
  <2>1. /\ run[r].phase = "tx" /\ j \in Jobs /\ jobs[j].token = r /\ r # Null
        /\ \A i \in Runs : i # r /\ run[i].phase = "tx" => run[i].job # j
    BY <1>3, RunsOfIInv, JobStoreConstants DEF TxCommit
  <2>2. RowOK(jobs[j]) /\ jobs[j].status = "running" /\ jobs[j].kind \in Kinds
    BY <2>1, RowsOfIInv DEF RowOK
  <2>3. /\ RowOK(renewed(jobs[j])) /\ Keeps(jobs[j], renewed(jobs[j]))
        /\ renewed(jobs[j]).token = r /\ renewed(jobs[j]).status = "running"
    BY <2>1, <2>2, RenewedOK
  <2>4. /\ jobs' = [jobs EXCEPT ![j] = renewed(jobs[j])] /\ writer' = [writer EXCEPT ![j] = r]
        /\ UNCHANGED <<active, mode, pass, stops, gaveUp>>
    BY <1>3, <2>1 DEF TxCommit
  <2>5. jobs \in [Jobs -> JobRow] /\ writer \in [Jobs -> Runs \cup {Null}]
        /\ \A i \in Jobs : writer[i] # Null => jobs[i].token = writer[i]
    BY DEF IInv, TypeOK, FencedWrites
  <2>6. RowsEvolve
    BY <2>1, <2>3, <2>4, SameTable, OneRowTable DEF GoodTable, RowsEvolve
  <2>7. jobs'[j] = renewed(jobs[j]) /\ \A i \in Jobs : i # j => jobs'[i] = jobs[i]
    BY <2>1, <2>4, <2>5
  <2>8. WritersOK
    <3>1. writer' \in [Jobs -> Runs \cup {Null}]
      BY <2>4, <2>5
    <3> QED
      BY <2>1, <2>3, <2>4, <2>5, <2>7, <3>1 DEF WritersOK
  <2>9. \A i \in Runs : i # r /\ run[i].phase = "tx" => jobs'[run[i].job].token = i
    BY <2>1, <2>7, OthersKeepTx
  <2>10. /\ x \in Run /\ x.phase = "running" /\ OutcomeOK(x) /\ x.worker = run[r].worker
         /\ x.job = run[r].job /\ x.kind = run[r].kind /\ x.attempt = run[r].attempt
    BY <1>0 DEF Run, OutcomeOK
  <2>11. run' = [run EXCEPT ![r] = x]
    BY <1>0, <1>3 DEF TxCommit, Run
  <2>12. RunsEvolve
    <3> HIDE DEF x, j
    <3> QED BY <2>1, <2>9, <2>10, <2>11, OneRun
  <2>13. GaveUpOK
    BY <2>2, <2>4, <2>7, SameGaveUp
  <2> QED
    BY <2>4, <2>6, <2>8, <2>12, <2>13, SameProcesses, Preservation
<1>4. CASE TxRollback(r)
  <2>1. run' = [run EXCEPT ![r] = [run[r] EXCEPT !.phase = "running", !.outcome = run[r].outcome]]
    BY <1>0, <1>4 DEF TxRollback, Run
  <2>2. OutcomeOK([run[r] EXCEPT !.phase = "running", !.outcome = run[r].outcome])
    BY <1>0 DEF OutcomeOK, Run
  <2>3. run[r].outcome \in Outcomes
    BY <1>0 DEF Run
  <2> QED
    BY <1>0, <1>4, <2>1, <2>2, <2>3, PhaseStep DEF TxRollback
<1>5. CASE HandlerEnds(r)
  <2>1. PICK outcome \in {"succeeded"} \cup
                      (IF mode[run[r].worker] = "stopping" THEN {"released"}
                       ELSE {outcomeOfFailure(r, n) : n \in BOOLEAN}) :
          run' = [run EXCEPT ![r].phase = "settling", ![r].outcome = outcome]
    BY <1>5 DEF HandlerEnds
  <2>2. /\ outcome \in Outcomes \ {"none"}
        /\ outcome = "retry" => run[r].attempt < MaxAttempts[run[r].kind]
        /\ outcome = "exhausted" =>
              run[r].attempt >= MaxAttempts[run[r].kind] /\ run[r].kind \notin Scheduled
    <3>1. run[r].attempt \in Nat /\ MaxAttempts[run[r].kind] \in Nat
      BY <1>0, <1>5, RunsOfIInv, JobStoreConstants DEF HandlerEnds, Run
    <3> QED
      BY <2>1, <3>1 DEF outcomeOfFailure, Outcomes
  <2>3. run' = [run EXCEPT ![r] = [run[r] EXCEPT !.phase = "settling", !.outcome = outcome]]
    BY <1>0, <2>1 DEF Run
  <2>4. OutcomeOK([run[r] EXCEPT !.phase = "settling", !.outcome = outcome])
    <3> DEFINE x == [run[r] EXCEPT !.phase = "settling", !.outcome = outcome]
    <3>1. /\ x.phase = "settling" /\ x.outcome = outcome /\ x.attempt = run[r].attempt
          /\ x.kind = run[r].kind
      BY <1>0 DEF Run
    <3> HIDE DEF x
    <3>2. OutcomeOK(x)
      BY <2>2, <3>1 DEF OutcomeOK
    <3> QED BY <3>2 DEF x
  <2> QED
    BY <1>0, <1>5, <2>2, <2>3, <2>4, PhaseStep DEF HandlerEnds
<1>6. CASE OnExhaustedFails(r)
  <2>1. run' = [run EXCEPT ![r] = [run[r] EXCEPT !.phase = "burying", !.outcome = run[r].outcome]]
    BY <1>0, <1>6 DEF OnExhaustedFails, Run
  <2>2. OutcomeOK([run[r] EXCEPT !.phase = "burying", !.outcome = run[r].outcome])
    BY <1>0, <1>6 DEF OutcomeOK, Run, OnExhaustedFails
  <2>3. run[r].outcome \in Outcomes
    BY <1>0 DEF Run
  <2> QED
    BY <1>0, <1>6, <2>1, <2>2, <2>3, PhaseStep DEF OnExhaustedFails
<1> QED
  BY <1>1, <1>2, <1>3, <1>4, <1>5, <1>6

\* The steps that end an attempt.
LEMMA SettlingKeeps ==
    ASSUME IInv, NEW r \in Runs,
           Settle(r) \/ SettleExhausted(r) \/ SettleOrBury(r) \/ SettleFails(r)
    PROVE  IInv'
<1> DEFINE j == run[r].job
<1>0. /\ run[r] \in Run /\ OutcomeOK(run[r]) /\ run[r].phase \in {"settling", "burying"}
      /\ run[r].phase # "idle" /\ Finish(r) /\ UNCHANGED <<mode, pass, stops>> /\ j \in Jobs
      /\ jobs \in [Jobs -> JobRow]
  BY RunsOfIInv DEF Settle, SettleExhausted, SettleOrBury, SettleFails, IInv, TypeOK
<1>1. ASSUME UNCHANGED <<jobs, writer, gaveUp>>
      PROVE  IInv'
  <2>1. \A i \in Runs : i # r /\ run[i].phase = "tx" => jobs'[run[i].job].token = i
    BY <1>1, RunsOfIInv
  <2> QED
    BY <1>0, <1>1, <2>1, FinishOK, SameRows, SameGaveUp, Preservation
<1>2. ASSUME Held(r), NEW table, GoodTable(table), Commit(table), GaveUpOK,
             \A i \in Jobs : i # j => table[i] = jobs[i] \/ jobs[i].status = "none"
      PROVE  IInv'
  <2>1. \A i \in Runs : i # r /\ run[i].phase = "tx" => jobs'[run[i].job].token = i
    <3>1. \A i \in Runs : i # r /\ run[i].phase = "tx" => run[i].job # j
      BY <1>0, <1>2, HeldRow
    <3>2. jobs' = table
      BY <1>2 DEF Commit
    <3> QED
      BY <1>0, <1>2, <3>1, <3>2, OthersKeepTx
  <2> QED
    BY <1>0, <1>2, <2>1, FinishOK, CommitOK, Preservation
<1>3. CASE Settle(r)
  <2>1. CASE ~Held(r)
    BY <1>1, <1>3, <2>1 DEF Settle
  <2>2. CASE Held(r)
    <3> DEFINE row == EndingRow(jobs[j], run[r].outcome)
    <3>1. PICK table \in AfterEnding(jobs, j, row) : Commit(table)
      BY <1>3, <2>2 DEF Settle
    <3>2. /\ RowOK(jobs[j]) /\ jobs[j].status = "running"
          /\ jobs[j].kind = run[r].kind /\ jobs[j].attempts = run[r].attempt
      BY <1>0, <2>2, HeldRow
    <3>3. run[r].outcome \in {"succeeded", "failed", "retry", "released"}
      BY <1>0, <1>3 DEF Settle, Run, Outcomes, OutcomeOK
    <3>4. run[r].outcome = "retry" => jobs[j].attempts < MaxAttempts[jobs[j].kind]
      BY <1>0, <3>2 DEF OutcomeOK
    <3>5. /\ RowOK(row) /\ Keeps(jobs[j], row)
          /\ row.status \in {"succeeded", "failed", "queued"}
      <4> HIDE DEF j
      <4> QED BY <3>2, <3>3, <3>4, EndingRowOK
    <3> HIDE DEF row
    <3>6. /\ GoodTable(table) /\ table[j] = row
          /\ \A i \in Jobs : i # j => table[i] = jobs[i] \/ jobs[i].status = "none"
      BY <1>0, <3>1, <3>5, EndingTable
    <3>7. GaveUpOK
      <4>1. jobs' = table /\ UNCHANGED gaveUp
        BY <1>3, <3>1 DEF Settle, Commit
      <4> QED
        BY <3>2, <3>6, <4>1, SameGaveUp
    <3> HIDE DEF j
    <3> QED
      BY <1>2, <2>2, <3>1, <3>6, <3>7
  <2> QED
    BY <2>1, <2>2
<1>4. ASSUME Held(r), run[r].outcome = "exhausted",
             Commit([jobs EXCEPT ![j] = ended(jobs[j], "dead")]),
             \/ gaveUp' = [gaveUp EXCEPT ![j] = TRUE]
             \/ gaveUp' = gaveUp
      PROVE  IInv'
  <2> DEFINE row == ended(jobs[j], "dead")
             table == [jobs EXCEPT ![j] = row]
  <2>1. /\ RowOK(jobs[j]) /\ jobs[j].status = "running" /\ jobs[j].kind = run[r].kind
        /\ jobs[j].attempts = run[r].attempt
    BY <1>0, <1>4, HeldRow
  <2>2. jobs[j].attempts >= MaxAttempts[jobs[j].kind] /\ ~isTick(jobs[j])
    BY <1>0, <1>4, <2>1 DEF OutcomeOK, isTick
  <2>3. RowOK(row) /\ Keeps(jobs[j], row) /\ row.status = "dead"
    <3>1. "dead" \in {"failed", "dead"}
      OBVIOUS
    <3> HIDE DEF j
    <3> QED BY <1>4, <2>1, <2>2, <3>1, EndedOK
  <2> HIDE DEF row
  <2>4. GoodTable(table) /\ table[j] = row /\ \A i \in Jobs : i # j => table[i] = jobs[i]
    BY <1>0, <2>3, SameTable, OneRowTable
  <2>5. jobs' = table /\ Commit(table)
    BY <1>4 DEF Commit, row
  <2>6. GaveUpOK
    BY <1>0, <1>4, <2>3, <2>4, <2>5 DEF GaveUpOK, IInv, TypeOK, GivenUpIsDead
  <2> HIDE DEF table
  <2> QED
    BY <1>2, <1>4, <2>4, <2>5, <2>6
<1>6. CASE SettleExhausted(r)
  <2>1. CASE ~Held(r)
    BY <1>1, <1>6, <2>1 DEF SettleExhausted
  <2>2. CASE Held(r)
    <3>1. /\ Commit([jobs EXCEPT ![j] = ended(jobs[j], "dead")])
          /\ gaveUp' = [gaveUp EXCEPT ![j] = TRUE] /\ run[r].outcome = "exhausted"
      BY <1>6, <2>2 DEF SettleExhausted
    <3> QED
      BY <1>4, <2>2, <3>1
  <2> QED
    BY <2>1, <2>2
<1>7. CASE SettleOrBury(r)
  <2>1. CASE ~Held(r)
    BY <1>1, <1>7, <2>1 DEF SettleOrBury
  <2>2. CASE Held(r)
    <3>1. /\ Commit([jobs EXCEPT ![j] = ended(jobs[j], "dead")])
          /\ gaveUp' = gaveUp /\ run[r].phase = "burying"
      BY <1>7, <2>2 DEF SettleOrBury
    <3>2. run[r].outcome = "exhausted"
      BY <1>0, <3>1 DEF OutcomeOK
    <3> QED
      BY <1>4, <2>2, <3>1, <3>2
  <2> QED
    BY <2>1, <2>2
<1>8. CASE SettleFails(r)
  BY <1>1, <1>8 DEF SettleFails
<1> QED
  BY <1>3, <1>6, <1>7, <1>8

\* The life of a process.
LEMMA ProcessKeeps ==
    ASSUME IInv, NEW w \in Workers, Process(w)
    PROVE  IInv'
<1>0. /\ mode \in [Workers -> Modes] /\ stops \in Nat /\ run \in [Runs -> Run]
      /\ active \in [Workers -> [Jobs -> Runs \cup {Null}]] /\ pass \in [Workers -> Pass]
      /\ jobs \in [Jobs -> JobRow]
      /\ \A v \in Workers : pass[v].stage \in {"list", "bury"} => pass[v].at \in Kinds
  BY DEF IInv, TypeOK
<1>1. ASSUME NEW m \in Modes, mode' = [mode EXCEPT ![w] = m], stops' \in Nat,
             UNCHANGED <<jobs, run, active, pass, writer, gaveUp>>
      PROVE  IInv'
  <2>1. ProcessesOK
    BY <1>0, <1>1 DEF ProcessesOK
  <2> QED
    BY <1>1, <2>1, QuietStep
<1>2. {"draining", "stopping", "starting", "stopped", "crashed"} \subseteq Modes
  BY DEF Modes
<1>3. ASSUME NEW drain \in BOOLEAN, Stop(w, drain) PROVE IInv'
  <2>1. PICK m \in {"draining", "stopping"} : mode' = [mode EXCEPT ![w] = m]
    BY <1>3 DEF Stop
  <2>2. stops' \in Nat /\ UNCHANGED <<jobs, run, active, pass, writer, gaveUp>>
    BY <1>0, <1>3 DEF Stop
  <2> QED
    BY <1>1, <1>2, <2>1, <2>2
<1>4. CASE DrainEnds(w)
  BY <1>0, <1>1, <1>2, <1>4 DEF DrainEnds
<1>5. CASE Restart(w)
  BY <1>0, <1>1, <1>2, <1>5 DEF Restart
<1>6. ASSUME NEW how \in Modes, Gone(w, how), stops' \in Nat PROVE IInv'
  <2>1. \A v \in Workers, j \in Jobs : active'[v][j] = IF v = w THEN Null ELSE active[v][j]
    BY <1>0, <1>6 DEF Gone
  <2>2. RunsEvolve
    <3>1. run' \in [Runs -> Run]
      BY <1>0, <1>6, NoRunType DEF Gone
    <3>2. \A r \in Runs : \/ run'[r] = run[r]
                          \/ /\ run'[r] = NoRun
                             /\ \A v \in Workers, j \in Jobs : active'[v][j] # r
      BY <1>6, <2>1, JobStoreConstants DEF Gone, IInv, LeaseDiscipline
    <3>3. UNCHANGED jobs
      BY <1>6 DEF Gone
    <3> QED
      BY <3>1, <3>2, <3>3, RunsOfIInv DEF RunsEvolve
  <2>3. ProcessesOK
    <3>1. NoPass \in Pass /\ NoPass.stage = "off"
      BY DEF NoPass, Pass, Stages
    <3>2. [j \in Jobs |-> Null] \in [Jobs -> Runs \cup {Null}]
      OBVIOUS
    <3>3. active' \in [Workers -> [Jobs -> Runs \cup {Null}]]
      BY <1>0, <1>6, <3>2 DEF Gone
    <3>4. /\ pass' \in [Workers -> Pass] /\ mode' \in [Workers -> Modes]
          /\ \A v \in Workers : pass'[v].stage \in {"list", "bury"} => pass'[v].at \in Kinds
      BY <1>0, <1>6, <3>1 DEF Gone
    <3> QED
      BY <1>6, <2>1, <3>3, <3>4 DEF ProcessesOK
  <2> QED
    BY <1>6, <2>2, <2>3, SameRows, SameGaveUp, Preservation DEF Gone
<1>7. CASE Exit(w)
  BY <1>0, <1>2, <1>6, <1>7 DEF Exit
<1>8. CASE Crash(w)
  BY <1>0, <1>2, <1>6, <1>8 DEF Crash
<1>9. ASSUME NEW j \in Jobs, ReleaseActive(w, j) PROVE IInv'
  <2> DEFINE r == active[w][j]
             x == [run[r] EXCEPT !.released = TRUE]
  <2>1. /\ r \in Runs /\ ~RowLocked(j) /\ UNCHANGED <<active, mode, pass, stops, gaveUp>>
    BY <1>0, <1>9 DEF ReleaseActive
  <2>2. /\ x \in Run /\ x.phase = run[r].phase /\ x.worker = run[r].worker /\ x.job = run[r].job
        /\ x.kind = run[r].kind /\ x.attempt = run[r].attempt /\ x.outcome = run[r].outcome
    BY <1>0, <2>1 DEF Run
  <2>3. run' = [run EXCEPT ![r] = x]
    BY <1>0, <1>9, <2>1 DEF ReleaseActive, Run
  <2>4. run[r].phase # "idle" /\ run[r].job = j /\ run[r].worker = w
    BY <2>1 DEF IInv, LeaseDiscipline
  <2>5. OutcomeOK(x) /\ x.phase # "tx"
    BY <2>1, <2>2, <2>4, RunsOfIInv DEF OutcomeOK, RowLocked
  <2>6. ASSUME \A i \in Jobs : i # j => jobs'[i] = jobs[i]
        PROVE  RunsEvolve
    <3>1. \A i \in Runs : i # r /\ run[i].phase = "tx" => run[i].job # j
      BY <2>1 DEF RowLocked
    <3>2. \A i \in Runs : i # r /\ run[i].phase = "tx" => jobs'[run[i].job].token = i
      <4> HIDE DEF r
      <4> QED BY <2>1, <2>6, <3>1, OthersKeepTx
    <3> HIDE DEF x, r
    <3> QED
      BY <2>1, <2>2, <2>3, <2>4, <2>5, <3>2, OneRun
  <2>7. CASE UNCHANGED <<jobs, writer>>
    BY <2>1, <2>6, <2>7, SameRows, SameGaveUp, SameProcesses, Preservation
  <2>8. CASE Held(r) /\ Commit([jobs EXCEPT ![j] = released(jobs[j])])
    <3> DEFINE row == released(jobs[j])
               table == [jobs EXCEPT ![j] = row]
    <3>1. RowOK(jobs[j]) /\ jobs[j].status = "running"
      <4> HIDE DEF r
      <4> QED BY <2>1, <2>4, <2>8, HeldRow
    <3>2. RowOK(row) /\ Keeps(jobs[j], row)
      <4>1. EndingRow(jobs[j], "released") = row
        BY DEF EndingRow
      <4> QED
        BY <3>1, <4>1, EndingRowOK
    <3> HIDE DEF row
    <3>3. GoodTable(table) /\ table[j] = row /\ \A i \in Jobs : i # j => table[i] = jobs[i]
      BY <1>0, <3>2, SameTable, OneRowTable
    <3>4. Commit(table) /\ jobs' = table
      BY <2>8 DEF Commit, row
    <3> HIDE DEF table
    <3>5. GaveUpOK
      BY <2>1, <3>1, <3>3, <3>4, SameGaveUp
    <3> QED
      BY <2>1, <2>6, <3>3, <3>4, <3>5, CommitOK, SameProcesses, Preservation
  <2>9. CASE Commit(jobs)
    <3>1. RunsEvolve /\ jobs' = jobs
      BY <2>6, <2>9 DEF Commit
    <3> QED
      BY <2>1, <2>9, <3>1, SameTable, CommitOK, SameGaveUp, SameProcesses, Preservation
  <2> QED
    BY <1>9, <2>7, <2>8, <2>9 DEF ReleaseActive
<1> QED
  BY <1>3, <1>4, <1>5, <1>7, <1>8, <1>9 DEF Process

-----------------------------------------------------------------------------
(* The theorems. *)

\* The empty queue and the processes that start are in order.
LEMMA InitOK == Init => IInv
<1> SUFFICES ASSUME Init PROVE IInv
  OBVIOUS
<1>1. \A j \in Jobs : RowOK(jobs[j]) /\ jobs[j].token = Null
  BY NoRowOK DEF Init, NoRow
<1>2. \A r \in Runs : run[r] \in Run /\ OutcomeOK(run[r]) /\ run[r].phase = "idle"
  BY NoRunType DEF Init
<1>3. NoPass \in Pass /\ NoPass.stage = "off" /\ "starting" \in Modes
  BY DEF NoPass, Pass, Stages, Modes
<1>4. TypeOK
  BY <1>1, <1>2, <1>3, NoRowType DEF TypeOK, Init, RowOK
<1>5. LeaseDiscipline
  <2>1. \A w \in Workers, j \in Jobs, r \in Runs : active[w][j] # r
    BY JobStoreConstants DEF Init
  <2> QED
    BY <1>1, <1>2, <2>1, JobStoreConstants DEF LeaseDiscipline, RowOK, OutcomeOK
<1>6. AttemptsAccounted
  BY <1>1 DEF AttemptsAccounted, RowOK
<1>7. FencedWrites /\ GivenUpIsDead
  BY DEF Init, FencedWrites, GivenUpIsDead
<1> QED
  BY <1>4, <1>5, <1>6, <1>7 DEF IInv

\* Every step of the callers, the clock, the workers and their attempts keeps the invariant.
LEMMA StepOK == IInv /\ [Next]_vars => IInv'
<1> SUFFICES ASSUME IInv, [Next]_vars PROVE IInv'
  OBVIOUS
<1>1. CASE UNCHANGED vars
  BY <1>1, SameProcesses, QuietStep DEF vars
<1>2. CASE Callers \/ ClockTick
  BY <1>2, CallersKeep
<1>3. ASSUME NEW w \in Workers, OnePass(w) PROVE IInv'
  BY <1>3, ReadsKeep, EnsureScheduleKeeps, ClaimKeeps, BuryKeeps DEF OnePass
<1>4. ASSUME NEW w \in Workers, Process(w) PROVE IInv'
  BY <1>4, ProcessKeeps
<1>5. ASSUME NEW r \in Runs, Attempt(r) PROVE IInv'
  BY <1>5, RunningKeeps, SettlingKeeps DEF Attempt
<1> QED
  BY <1>1, <1>2, <1>3, <1>4, <1>5 DEF Next

\* The invariant holds in every state the executor reaches, for any number of jobs, workers,
\* kinds and keys, and any leases, limits, slots and backoffs.
THEOREM Invariance == Spec => []IInv
BY InitOK, StepOK, PTL DEF Spec

\* Type correctness of the rows, the attempts and the worker processes (store.ts, worker.ts).
THEOREM TypeCorrect == Spec => []TypeOK
<1>1. IInv => TypeOK
  BY DEF IInv
<1> QED
  BY Invariance, <1>1, PTL

\* A row is leased exactly while it runs, by one attempt whose copy of the row is current, and
\* an open transaction keeps its lease whatever the clock, the claims, the burials and the other
\* workers do (lockLeasedJob, renewLockedJobLease).
THEOREM LeasesAreExclusive == Spec => []LeaseDiscipline
<1>1. IInv => LeaseDiscipline
  BY DEF IInv
<1> QED
  BY Invariance, <1>1, PTL

\* No attempt that lost its lease writes on the job's subject after another one took it over:
\* what control.transaction commits, it commits for the attempt that has the lease.
THEOREM WritesAreFenced == Spec => []FencedWrites
<1>1. IInv => FencedWrites
  BY DEF IInv
<1> QED
  BY Invariance, <1>1, PTL

\* No job makes more attempts than its kind allows, and every queued job has one left, through
\* retries, recovered leases, released attempts and retries by an operator; a dead one used them up.
THEOREM AttemptsAreBounded == Spec => []AttemptsAccounted
<1>1. IInv => AttemptsAccounted
  BY DEF IInv
<1> QED
  BY Invariance, <1>1, PTL

\* onExhausted gave the subject up only where the job is dead: it commits with the death, and
\* the manual retry that revives the job takes it back.
THEOREM GivenUpJobsAreDead == Spec => []GivenUpIsDead
<1>1. IInv => GivenUpIsDead
  BY DEF IInv
<1> QED
  BY Invariance, <1>1, PTL

-----------------------------------------------------------------------------
(* The dedupe keys and the concurrency limits. *)

\* A row is live only with the kind and key it was live with, and runs only if it ran, in the
\* group it had.
GoesOn(old, new) ==
    /\ Live(new) => Live(old) /\ new.kind = old.kind /\ new.key = old.key
    /\ new.status = "running" => old.status = "running" /\ new.group = old.group

\* A row comes to the queue only while its key has no other live row: the unique index.
Admitted(table, j) ==
    /\ table[j].status = "queued"
    /\ table[j].key # Null =>
          \A i \in Jobs : i # j =>
              ~(Live(table[i]) /\ table[i].kind = table[j].kind /\ table[i].key = table[j].key)

Admits(table) ==
    /\ table \in [Jobs -> JobRow]
    /\ \A j \in Jobs : GoesOn(jobs[j], table[j]) \/ Admitted(table, j)

\* The table as it is.
LEMMA SameAdmits == ASSUME IInv PROVE Admits(jobs)
BY DEF IInv, TypeOK, Admits, GoesOn

\* A row that came from a live one with its kind and key, or is admitted, is the only live one.
LEMMA AdmitsKeepsKeys ==
    ASSUME OneLivePerKey,
           \A j \in Jobs :
               \/ Live(jobs'[j]) => /\ Live(jobs[j]) /\ jobs'[j].kind = jobs[j].kind
                                    /\ jobs'[j].key = jobs[j].key
               \/ Admitted(jobs', j)
    PROVE  OneLivePerKey'
<1> SUFFICES ASSUME NEW i \in Jobs, NEW j \in Jobs, Live(jobs'[i]), Live(jobs'[j]),
                    jobs'[i].kind = jobs'[j].kind, jobs'[i].key = jobs'[j].key,
                    jobs'[i].key # Null
             PROVE  i = j
  BY DEF OneLivePerKey
<1>1. CASE Admitted(jobs', i) \/ Admitted(jobs', j)
  BY <1>1 DEF Admitted
<1>2. CASE ~Admitted(jobs', i) /\ ~Admitted(jobs', j)
  BY <1>2 DEF OneLivePerKey
<1> QED
  BY <1>1, <1>2

\* The running rows of a kind, in all and in a group, are within the limits of the kind.
Within(table, k) ==
    /\ Cardinality(RunningOf(table, k)) <= Global[k]
    /\ \A g \in Groups :
          Cardinality({j \in RunningOf(table, k) : table[j].group = g}) <= PerKey[k]

\* The limits, kind by kind.
LEMMA LimitsAreWithin == ConcurrencyLimits <=> \A k \in Kinds : Within(jobs, k)
BY DEF ConcurrencyLimits, Within, RunningOf

\* A part of a set of rows that is within a limit is within the limit.
LEMMA PartIsWithin ==
    ASSUME NEW T \in SUBSET Jobs, NEW U \in SUBSET T, NEW n \in Nat, Cardinality(T) <= n
    PROVE  Cardinality(U) <= n
<1>1. IsFiniteSet(T)
  BY JobStoreConstants, FS_Subset
<1>2. IsFiniteSet(U) /\ Cardinality(U) <= Cardinality(T)
  BY <1>1, FS_Subset
<1>3. Cardinality(U) \in Nat /\ Cardinality(T) \in Nat
  BY <1>1, <1>2, FS_CardinalityType
<1> QED
  BY <1>2, <1>3

\* The rows of a kind that run are no more than before.
LEMMA FewerRun ==
    ASSUME NEW k \in Kinds, Within(jobs, k),
           \A j \in RunningOf(jobs', k) :
               j \in RunningOf(jobs, k) /\ jobs'[j].group = jobs[j].group
    PROVE  Within(jobs', k)
<1>1. Global[k] \in Nat /\ PerKey[k] \in Nat
  BY JobStoreConstants
<1>2. /\ RunningOf(jobs, k) \in SUBSET Jobs /\ RunningOf(jobs', k) \in SUBSET RunningOf(jobs, k)
      /\ Cardinality(RunningOf(jobs, k)) <= Global[k]
  BY DEF RunningOf, Within
<1>3. Cardinality(RunningOf(jobs', k)) <= Global[k]
  BY <1>1, <1>2, PartIsWithin
<1>4. ASSUME NEW g \in Groups
      PROVE  Cardinality({j \in RunningOf(jobs', k) : jobs'[j].group = g}) <= PerKey[k]
  <2> DEFINE old == {j \in RunningOf(jobs, k) : jobs[j].group = g}
             new == {j \in RunningOf(jobs', k) : jobs'[j].group = g}
  <2>1. new \in SUBSET old /\ old \in SUBSET Jobs /\ Cardinality(old) <= PerKey[k]
    BY <1>2 DEF Within
  <2> HIDE DEF old, new
  <2>2. Cardinality(new) <= PerKey[k]
    BY <1>1, <2>1, PartIsWithin
  <2> QED
    BY <2>2 DEF new
<1> QED
  BY <1>3, <1>4 DEF Within

\* Nothing that goes on or is admitted comes to run.
LEMMA AdmitsKeepsLimits ==
    ASSUME ConcurrencyLimits, Admits(jobs')
    PROVE  ConcurrencyLimits'
<1> SUFFICES ASSUME NEW k \in Kinds PROVE Within(jobs', k)
  BY DEF ConcurrencyLimits, Within, RunningOf
<1>1. \A j \in RunningOf(jobs', k) : j \in RunningOf(jobs, k) /\ jobs'[j].group = jobs[j].group
  BY DEF RunningOf, Admits, GoesOn, Admitted, Live
<1> QED
  BY <1>1, LimitsAreWithin, FewerRun

\* One row goes on, or is free or ended.
LEMMA OneRowAdmits ==
    ASSUME IInv, NEW j \in Jobs, NEW row, row \in JobRow, GoesOn(jobs[j], row)
    PROVE  Admits([jobs EXCEPT ![j] = row])
<1>1. jobs \in [Jobs -> JobRow]
  BY DEF IInv, TypeOK
<1> QED
  BY <1>1 DEF Admits, GoesOn

\* An insert admits what it inserts, and takes nothing from what was admitted before.
LEMMA EnqueueAdmits ==
    ASSUME IInv, NEW table, Admits(table),
           NEW k \in Kinds, NEW key \in DedupeKeys \cup {Null},
           NEW group \in Groups \cup {Null}, NEW delay \in Int,
           NEW new \in AfterEnqueue(table, k, key, group, delay)
    PROVE  Admits(new)
<1> DEFINE row == QueuedRow(k, key, group, delay)
<1>1. row \in JobRow /\ row.status = "queued" /\ row.kind = k /\ row.key = key
  BY QueuedRowOK DEF RowOK
<1> HIDE DEF row
<1>2. CASE new = table
  BY <1>2
<1>3. CASE new # table
  <2>1. /\ key # Null => LiveUnder(table, k, key) = {}
        /\ \E i \in FreeRows(table) : new = [table EXCEPT ![i] = row]
    BY <1>3 DEF AfterEnqueue, row
  <2>2. PICK i \in Jobs : table[i].status = "none" /\ new = [table EXCEPT ![i] = row]
    BY <2>1 DEF FreeRows
  <2>3. /\ new \in [Jobs -> JobRow] /\ new[i] = row
        /\ \A j \in Jobs : j # i => new[j] = table[j]
    BY <1>1, <2>2 DEF Admits
  <2>4. key # Null => \A j \in Jobs : ~(Live(table[j]) /\ table[j].kind = k /\ table[j].key = key)
    BY <2>1 DEF LiveUnder
  <2>5. Admitted(new, i)
    BY <1>1, <2>3, <2>4 DEF Admitted
  <2>6. ASSUME NEW j \in Jobs, j # i, Admitted(table, j)
        PROVE  Admitted(new, j)
    BY <1>1, <2>3, <2>4, <2>6 DEF Admitted, Live
  <2> QED
    BY <2>3, <2>5, <2>6 DEF Admits
<1> QED
  BY <1>2, <1>3

\* So does an ending with the tick that follows it.
LEMMA EndingAdmits ==
    ASSUME IInv, NEW j \in Jobs, NEW row, RowOK(row), GoesOn(jobs[j], row),
           NEW new \in AfterEnding(jobs, j, row)
    PROVE  Admits(new)
<1> DEFINE table == [jobs EXCEPT ![j] = row]
<1>1. Admits(table)
  BY OneRowAdmits DEF RowOK
<1> HIDE DEF table
<1>2. CASE isTick(row) /\ Ended(row)
  <2>1. new \in AfterEnqueue(table, row.kind, row.key, Null, Every[row.kind])
    BY <1>2 DEF AfterEnding, table
  <2>2. row.kind \in Kinds /\ row.key \in DedupeKeys \cup {Null} /\ Every[row.kind] \in Int
    BY <1>2, JobStoreConstants DEF isTick, RowOK, JobRow
  <2>3. Null \in Groups \cup {Null}
    OBVIOUS
  <2> QED
    BY <1>1, <2>1, <2>2, <2>3, EnqueueAdmits
<1>3. CASE ~(isTick(row) /\ Ended(row))
  BY <1>1, <1>3 DEF AfterEnding, table
<1> QED
  BY <1>2, <1>3

\* The callers of the queue and the clock admit what they queue.
LEMMA CallersAdmit == ASSUME IInv, Callers \/ ClockTick PROVE Admits(jobs')
<1>1. ASSUME NEW q \in Requests, EnqueueJob(q.kind, q.key, q.group, q.delay)
      PROVE  Admits(jobs')
  <2>1. PICK table \in AfterEnqueue(jobs, q.kind, q.key, q.group, q.delay) : jobs' = table
    BY <1>1 DEF EnqueueJob, Commit
  <2>2. /\ q.kind \in Kinds /\ q.key \in DedupeKeys \cup {Null}
        /\ q.group \in Groups \cup {Null} /\ q.delay \in Int
    BY JobExecutorConstants DEF DedupeKeys
  <2> QED
    BY <2>1, <2>2, SameAdmits, EnqueueAdmits
<1>2. ASSUME NEW k \in Kinds, NEW key \in Keys, Withdraw(k, key)
      PROVE  Admits(jobs')
  <2>1. PICK j \in Jobs : jobs' = [jobs EXCEPT ![j] = NoRow]
    BY <1>2 DEF Withdraw, Commit
  <2>2. GoesOn(jobs[j], NoRow)
    BY DEF GoesOn, NoRow, Live
  <2> QED
    BY <2>1, <2>2, NoRowType, OneRowAdmits
<1>3. ASSUME NEW j \in Jobs, PruneEndedJobs(j)
      PROVE  Admits(jobs')
  <2>1. jobs' = [jobs EXCEPT ![j] = NoRow]
    BY <1>3 DEF PruneEndedJobs, Commit
  <2>2. GoesOn(jobs[j], NoRow)
    BY DEF GoesOn, NoRow, Live
  <2> QED
    BY <2>1, <2>2, NoRowType, OneRowAdmits
<1>4. ASSUME NEW j \in Jobs, RetryJob(j)
      PROVE  Admits(jobs')
  <2> DEFINE row == requeued(jobs[j])
  <2>1. /\ jobs' = [jobs EXCEPT ![j] = row] /\ jobs[j].status \in {"failed", "dead"}
        /\ jobs[j].key # Null => LiveUnder(jobs, jobs[j].kind, jobs[j].key) = {}
        /\ jobs \in [Jobs -> JobRow]
    BY <1>4 DEF RetryJob, Commit, IInv, TypeOK
  <2>2. /\ row \in JobRow /\ row.status = "queued" /\ row.kind = jobs[j].kind
        /\ row.key = jobs[j].key
    BY <2>1, RowsOfIInv, RequeuedOK DEF RowOK
  <2> HIDE DEF row
  <2>3. /\ jobs' \in [Jobs -> JobRow] /\ jobs'[j] = row
        /\ \A i \in Jobs : i # j => jobs'[i] = jobs[i]
    BY <2>1, <2>2
  <2>4. Admitted(jobs', j)
    BY <2>1, <2>2, <2>3 DEF Admitted, LiveUnder
  <2> QED
    BY <2>3, <2>4 DEF Admits, GoesOn
<1>5. CASE ClockTick
  <2>1. jobs' = [j \in Jobs |-> aged(jobs[j])]
    BY <1>5 DEF ClockTick, Commit
  <2>2. ASSUME NEW j \in Jobs
        PROVE  aged(jobs[j]) \in JobRow /\ GoesOn(jobs[j], aged(jobs[j]))
    <3>1. jobs[j] \in JobRow
      BY DEF IInv, TypeOK
    <3>2. /\ aged(jobs[j]) \in JobRow /\ aged(jobs[j]).status = jobs[j].status
          /\ aged(jobs[j]).kind = jobs[j].kind /\ aged(jobs[j]).key = jobs[j].key
          /\ aged(jobs[j]).group = jobs[j].group
      BY <3>1, AgedType DEF aged, JobRow
    <3> QED
      BY <3>2 DEF GoesOn, Live
  <2> QED
    BY <2>1, <2>2 DEF Admits
<1> QED
  BY <1>1, <1>2, <1>3, <1>4, <1>5 DEF Callers

\* The schedules are checked: a tick is inserted, or made due.
LEMMA EnsureScheduleAdmits ==
    ASSUME IInv, NEW w \in Workers, NEW k \in Kinds, EnsureSchedule(w, k)
    PROVE  Admits(jobs')
<1>1. PICK table \in AfterEnqueue(jobs, k, scheduleDedupeKey(k), Null, 0) :
        \/ jobs' = table
        \/ jobs' = [j \in Jobs |-> IF /\ isTick(table[j]) /\ table[j].kind = k
                                      /\ table[j].status = "queued"
                                   THEN [table[j] EXCEPT !.wait = 0]
                                   ELSE table[j]]
  BY DEF EnsureSchedule, Commit
<1>2. Admits(table)
  <2>1. scheduleDedupeKey(k) \in DedupeKeys \cup {Null} /\ Null \in Groups \cup {Null} /\ 0 \in Int
    BY DEF EnsureSchedule, DedupeKeys
  <2> QED
    BY <1>1, <2>1, SameAdmits, EnqueueAdmits
<1>3. ASSUME jobs' # table
      PROVE  Admits(jobs')
  <2>1. ASSUME NEW j \in Jobs
        PROVE  /\ jobs'[j] \in JobRow /\ jobs'[j].status = table[j].status
               /\ jobs'[j].kind = table[j].kind /\ jobs'[j].key = table[j].key
               /\ jobs'[j].group = table[j].group
    <3>1. table[j] \in JobRow /\ 0 \in Int
      BY <1>2 DEF Admits
    <3> DEFINE row == [table[j] EXCEPT !.wait = 0]
    <3>2. /\ row \in JobRow /\ row.status = table[j].status
          /\ row.kind = table[j].kind /\ row.key = table[j].key /\ row.group = table[j].group
      BY <3>1 DEF JobRow
    <3>3. jobs'[j] = row \/ jobs'[j] = table[j]
      BY <1>1, <1>3
    <3> QED
      BY <3>1, <3>2, <3>3
  <2>2. jobs' \in [Jobs -> JobRow]
    BY <1>1, <1>3, <2>1
  <2> QED
    BY <1>2, <2>1, <2>2 DEF Admits, GoesOn, Admitted, Live
<1> QED
  BY <1>2, <1>3

\* What an attempt ends is live no more, or waits as the job it was.
LEMMA EndedGoesOn ==
    ASSUME NEW row, RowOK(row), row.status = "running"
    PROVE  /\ \A status \in {"succeeded", "failed", "dead"} :
                 GoesOn(row, ended(row, status))
           /\ \A outcome \in {"succeeded", "failed", "retry", "released"} :
                 (outcome = "retry" => row.attempts < MaxAttempts[row.kind]) =>
                 GoesOn(row, EndingRow(row, outcome))
<1>1. ASSUME NEW status \in {"succeeded", "failed", "dead"}
      PROVE  GoesOn(row, ended(row, status))
  <2>1. row \in JobRow
    BY DEF RowOK
  <2>2. ended(row, status).status = status
    BY <2>1 DEF ended, noLease, JobRow
  <2> QED
    BY <2>2 DEF GoesOn, Live
<1>2. ASSUME NEW outcome \in {"succeeded", "failed", "retry", "released"},
             outcome = "retry" => row.attempts < MaxAttempts[row.kind]
      PROVE  GoesOn(row, EndingRow(row, outcome))
  <2>1. /\ EndingRow(row, outcome).kind = row.kind /\ EndingRow(row, outcome).key = row.key
        /\ EndingRow(row, outcome).status \in {"succeeded", "failed", "queued"}
    BY <1>2, EndingRowOK
  <2> QED
    BY <2>1 DEF GoesOn, Live
<1> QED
  BY <1>1, <1>2

\* The burial of a job, with the tick that follows a tick.
LEMMA BuryAdmits ==
    ASSUME IInv, NEW w \in Workers, NEW j \in Jobs, Bury(w, j)
    PROVE  Admits(jobs')
<1>1. CASE ~exhausted(jobs[j])
  BY <1>1, SameAdmits DEF Bury
<1>2. CASE exhausted(jobs[j])
  <2> DEFINE status == IF isTick(jobs[j]) THEN "failed" ELSE "dead"
             row == ended(jobs[j], status)
  <2>1. PICK table \in AfterEnding(jobs, j, row) : jobs' = table
    BY <1>2 DEF Bury, Commit
  <2>2. /\ RowOK(jobs[j]) /\ jobs[j].status = "running"
        /\ jobs[j].attempts >= MaxAttempts[jobs[j].kind]
    BY <1>2, RowsOfIInv DEF exhausted, LeaseExpired
  <2>3. status \in {"failed", "dead"} /\ (status = "dead" => ~isTick(jobs[j]))
    OBVIOUS
  <2>4. RowOK(row) /\ GoesOn(jobs[j], row)
    <3> HIDE DEF status
    <3> QED
      BY <2>2, <2>3, EndedOK, EndedGoesOn
  <2> HIDE DEF row
  <2> QED
    BY <2>1, <2>4, EndingAdmits
<1> QED
  BY <1>1, <1>2

\* The steps of an attempt.
LEMMA AttemptAdmits ==
    ASSUME IInv, NEW r \in Runs, Attempt(r)
    PROVE  Admits(jobs')
<1> DEFINE j == run[r].job
<1>1. CASE jobs' = jobs
  BY <1>1, SameAdmits
<1>2. run[r].phase # "idle" /\ run[r] \in Run /\ OutcomeOK(run[r]) /\ j \in Jobs
  <2>1. run[r].phase # "idle"
    BY DEF Attempt, HeartbeatJob, TxBegin, TxCommit, TxRollback, HandlerEnds, Settle,
           SettleExhausted, OnExhaustedFails, SettleOrBury, SettleFails
  <2> QED
    BY <2>1, RunsOfIInv
<1>3. RowOK(jobs[j])
  BY <1>2, RowsOfIInv
<1>4. CASE HeartbeatJob(r) \/ TxCommit(r)
  <2>1. jobs' = [jobs EXCEPT ![j] = renewed(jobs[j])] \/ jobs' = jobs
    <3>1. jobs \in [Jobs -> JobRow]
      BY DEF IInv, TypeOK
    <3> QED
      BY <1>2, <1>4, <3>1 DEF HeartbeatJob, TxCommit, Commit
  <2>2. jobs' # jobs => jobs[j].status = "running" /\ jobs[j].kind \in Kinds
    <3>1. CASE HeartbeatJob(r)
      BY <1>2, <3>1, HeldRow DEF HeartbeatJob
    <3>2. CASE TxCommit(r)
      BY <1>2, <1>3, <3>2, RunsOfIInv, JobStoreConstants DEF TxCommit, RowOK
    <3> QED
      BY <1>4, <3>1, <3>2
  <2>3. CASE jobs' # jobs
    <3> HIDE DEF j
    <3>1. /\ renewed(jobs[j]) \in JobRow /\ renewed(jobs[j]).status = jobs[j].status
          /\ renewed(jobs[j]).kind = jobs[j].kind /\ renewed(jobs[j]).key = jobs[j].key
          /\ renewed(jobs[j]).group = jobs[j].group
      BY <1>3, <2>2, <2>3, RenewedOK DEF RowOK
    <3>2. GoesOn(jobs[j], renewed(jobs[j]))
      BY <3>1 DEF GoesOn, Live
    <3> QED
      BY <1>2, <2>1, <2>3, <3>1, <3>2, OneRowAdmits
  <2> QED
    BY <1>1, <2>3
<1>5. CASE Settle(r)
  <2>1. CASE Held(r)
    <3> DEFINE row == EndingRow(jobs[j], run[r].outcome)
    <3>1. PICK table \in AfterEnding(jobs, j, row) : jobs' = table
      BY <1>5, <2>1 DEF Settle, Commit
    <3>2. jobs[j].status = "running" /\ jobs[j].kind = run[r].kind
          /\ jobs[j].attempts = run[r].attempt
      BY <1>2, <2>1, HeldRow
    <3>3. run[r].outcome \in {"succeeded", "failed", "retry", "released"}
      BY <1>2, <1>5 DEF Settle, Run, Outcomes, OutcomeOK
    <3>4. run[r].outcome = "retry" => jobs[j].attempts < MaxAttempts[jobs[j].kind]
      BY <1>2, <3>2 DEF OutcomeOK
    <3> HIDE DEF j
    <3>5. RowOK(row) /\ GoesOn(jobs[j], row)
      BY <1>3, <3>2, <3>3, <3>4, EndingRowOK, EndedGoesOn
    <3> HIDE DEF row
    <3> QED
      BY <1>2, <3>1, <3>5, EndingAdmits
  <2>2. CASE ~Held(r)
    BY <1>1, <1>5, <2>2 DEF Settle
  <2> QED
    BY <2>1, <2>2
<1>6. CASE SettleExhausted(r) \/ SettleOrBury(r)
  <2>1. CASE Held(r)
    <3>1. jobs' = [jobs EXCEPT ![j] = ended(jobs[j], "dead")]
      BY <1>6, <2>1 DEF SettleExhausted, SettleOrBury, Commit
    <3>2. /\ jobs[j].status = "running" /\ jobs[j].kind = run[r].kind
          /\ jobs[j].attempts = run[r].attempt
      BY <1>2, <2>1, HeldRow
    <3>3. run[r].outcome = "exhausted"
      BY <1>2, <1>6 DEF SettleExhausted, SettleOrBury, OutcomeOK
    <3>4. jobs[j].attempts >= MaxAttempts[jobs[j].kind] /\ ~isTick(jobs[j])
      BY <1>2, <3>2, <3>3 DEF OutcomeOK, isTick
    <3> HIDE DEF j
    <3>5. /\ ended(jobs[j], "dead") \in JobRow
          /\ GoesOn(jobs[j], ended(jobs[j], "dead"))
      BY <1>3, <3>2, <3>4, EndedOK, EndedGoesOn DEF RowOK
    <3> QED
      BY <1>2, <3>1, <3>5, OneRowAdmits
  <2>2. CASE ~Held(r)
    BY <1>1, <1>6, <2>2 DEF SettleExhausted, SettleOrBury
  <2> QED
    BY <2>1, <2>2
<1> QED
  BY <1>1, <1>4, <1>5, <1>6
     DEF Attempt, TxBegin, TxRollback, HandlerEnds, OnExhaustedFails, SettleFails

\* The life of a process: a stop gives back what it holds.
LEMMA ProcessAdmits ==
    ASSUME IInv, NEW w \in Workers, Process(w)
    PROVE  Admits(jobs')
<1>1. CASE jobs' = jobs
  BY <1>1, SameAdmits
<1>2. ASSUME NEW j \in Jobs, ReleaseActive(w, j), jobs' # jobs
      PROVE  Admits(jobs')
  <2> DEFINE r == active[w][j]
  <2>1. /\ r # Null /\ Held(r) /\ jobs' = [jobs EXCEPT ![j] = released(jobs[j])]
    BY <1>2 DEF ReleaseActive, Commit
  <2>2. r \in Runs
    BY <2>1 DEF IInv, TypeOK
  <2>3. run[r].phase # "idle" /\ run[r].job = j
    BY <2>2 DEF IInv, LeaseDiscipline
  <2> HIDE DEF r
  <2>4. RowOK(jobs[j]) /\ jobs[j].status = "running"
    BY <2>1, <2>2, <2>3, HeldRow
  <2>5. EndingRow(jobs[j], "released") = released(jobs[j])
    BY DEF EndingRow
  <2>6. released(jobs[j]) \in JobRow /\ GoesOn(jobs[j], released(jobs[j]))
    BY <2>4, <2>5, EndingRowOK, EndedGoesOn DEF RowOK
  <2> QED
    BY <2>1, <2>6, OneRowAdmits
<1> QED
  BY <1>1, <1>2 DEF Process, Stop, DrainEnds, Exit, Crash, Restart, Gone

\* What a claim has before it, once recovery took the rows whose lease ran out: nothing that was
\* not live before.
LEMMA RecoveredTable ==
    ASSUME IInv, NEW j \in Jobs
    PROVE  /\ recovered(jobs[j]).kind = jobs[j].kind /\ recovered(jobs[j]).key = jobs[j].key
           /\ recovered(jobs[j]).group = jobs[j].group
           /\ Live(recovered(jobs[j])) => Live(jobs[j])
           /\ recovered(jobs[j]).status = "running" => jobs[j].status = "running"
<1>1. jobs[j] \in JobRow
  BY DEF IInv, TypeOK
<1>2. CASE recoverable(jobs[j])
  <2>1. /\ recovered(jobs[j]).status = "queued" /\ recovered(jobs[j]).kind = jobs[j].kind
        /\ recovered(jobs[j]).key = jobs[j].key /\ recovered(jobs[j]).group = jobs[j].group
    BY <1>1, <1>2 DEF recovered, noLease, JobRow
  <2>2. jobs[j].status = "running"
    BY <1>2 DEF recoverable, LeaseExpired
  <2> QED
    BY <2>1, <2>2 DEF Live
<1>3. CASE ~recoverable(jobs[j])
  BY <1>3 DEF recovered
<1> QED
  BY <1>2, <1>3

\* A claim takes due rows as they are, within both limits, and recovers others.
LEMMA ClaimAdmits ==
    ASSUME IInv, OneLivePerKey, ConcurrencyLimits,
           NEW w \in Workers, NEW k \in Kinds, ClaimJobs(w, k)
    PROVE  OneLivePerKey' /\ ConcurrencyLimits'
<1> DEFINE table == [j \in Jobs |-> IF jobs[j].kind = k THEN recovered(jobs[j]) ELSE jobs[j]]
<1>1. \A j \in Jobs : /\ RowOK(table[j])
                      /\ table[j].kind = jobs[j].kind /\ table[j].key = jobs[j].key
                      /\ table[j].group = jobs[j].group
                      /\ Live(table[j]) => Live(jobs[j])
                      /\ table[j].status = "running" => jobs[j].status = "running"
                      /\ jobs[j].kind # k => table[j] = jobs[j]
  BY RowsOfIInv, RecoveredOK, RecoveredTable
<1>2. PICK S \in Claimable(w, k, table) : \E token \in [S -> FreshRuns] :
          Commit([j \in Jobs |-> IF j \in S THEN claimed(table[j], token[j]) ELSE table[j]])
  BY DEF ClaimJobs
<1> HIDE DEF table
<1>3. PICK token \in [S -> FreshRuns] :
          jobs' = [j \in Jobs |-> IF j \in S THEN claimed(table[j], token[j]) ELSE table[j]]
  BY <1>2 DEF Commit
<1>4. S \subseteq Jobs /\ \A j \in S : table[j].status = "queued" /\ table[j].kind = k
  BY <1>2 DEF Claimable, Due
<1>5. \A j \in S : /\ jobs'[j].status = "running" /\ jobs'[j].kind = k
                   /\ jobs'[j].key = jobs[j].key /\ jobs'[j].group = jobs[j].group
                   /\ jobs[j].kind = k /\ Live(jobs[j])
  <2> SUFFICES ASSUME NEW j \in S
               PROVE  /\ jobs'[j].status = "running" /\ jobs'[j].kind = k
                      /\ jobs'[j].key = jobs[j].key /\ jobs'[j].group = jobs[j].group
                      /\ jobs[j].kind = k /\ Live(jobs[j])
    OBVIOUS
  <2>1. token[j] \in Runs /\ j \in Jobs /\ RowOK(table[j]) /\ Live(table[j])
    BY <1>1, <1>4 DEF FreshRuns, Live
  <2>2. jobs'[j] = claimed(table[j], token[j])
    BY <1>3, <1>4
  <2> QED
    BY <1>1, <1>4, <2>1, <2>2, ClaimedOK
<1>6. \A j \in Jobs : j \notin S => jobs'[j] = table[j]
  BY <1>3
<1>7. OneLivePerKey'
  <2>1. \A j \in Jobs : Live(jobs'[j]) => /\ Live(jobs[j]) /\ jobs'[j].kind = jobs[j].kind
                                          /\ jobs'[j].key = jobs[j].key
    BY <1>1, <1>5, <1>6
  <2> QED
    BY <2>1, AdmitsKeepsKeys
<1>8. ASSUME NEW g \in Kinds, g # k \/ S = {}
      PROVE  Within(jobs', g)
  <2>1. \A j \in RunningOf(jobs', g) : j \in RunningOf(jobs, g) /\ jobs'[j].group = jobs[j].group
    BY <1>1, <1>5, <1>6, <1>8 DEF RunningOf
  <2> QED
    BY <2>1, LimitsAreWithin, FewerRun
<1>9. ASSUME S # {}
      PROVE  Within(jobs', k)
  <2> DEFINE running == RunningOf(table, k)
  <2>1. /\ Global[k] \in Nat /\ PerKey[k] \in Nat
        /\ running \in SUBSET Jobs /\ RunningOf(jobs', k) = running \cup S
        /\ \A j \in running \cup S : jobs'[j].group = table[j].group
    <3>1. Global[k] \in Nat /\ PerKey[k] \in Nat
      BY JobStoreConstants
    <3>2. running \in SUBSET Jobs
      BY DEF RunningOf
    <3>3. RunningOf(jobs', k) = running \cup S
      BY <1>4, <1>5, <1>6 DEF RunningOf
    <3>4. \A j \in running \cup S : jobs'[j].group = table[j].group
      BY <1>1, <1>4, <1>5, <1>6, <3>2
    <3> QED
      BY <3>1, <3>2, <3>3, <3>4
  <2>2. /\ Cardinality(S) + Cardinality(running) <= Global[k]
        /\ \A j \in S : FitsKey(table, k, S, j)
    BY <1>2, <1>9 DEF Claimable
  <2> HIDE DEF running
  <2>3. Cardinality(RunningOf(jobs', k)) <= Global[k]
    <3>1. IsFiniteSet(running) /\ IsFiniteSet(S)
      BY <1>4, <2>1, JobStoreConstants, FS_Subset
    <3>2. /\ IsFiniteSet(running \cap S)
          /\ Cardinality(S \cup running) =
                Cardinality(S) + Cardinality(running) - Cardinality(S \cap running)
      BY <3>1, FS_Union, FS_Subset
    <3>3. /\ Cardinality(S) \in Nat /\ Cardinality(running) \in Nat
          /\ Cardinality(S \cap running) \in Nat
      BY <3>1, <3>2, FS_CardinalityType
    <3>4. S \cup running = RunningOf(jobs', k)
      BY <2>1
    <3>5. Cardinality(S \cup running) <= Global[k]
      BY <2>1, <2>2, <3>2, <3>3
    <3> QED
      BY <3>4, <3>5
  <2>4. ASSUME NEW g \in Groups
        PROVE  Cardinality({j \in RunningOf(jobs', k) : jobs'[j].group = g}) <= PerKey[k]
    <3>1. {j \in RunningOf(jobs', k) : jobs'[j].group = g}
             = {j \in running \cup S : table[j].group = g}
      BY <2>1
    <3>2. CASE \E j \in S : table[j].group = g
      <4>1. PICK j \in S : table[j].group = g
        BY <3>2
      <4>2. table[j].group # Null
        BY <4>1, JobStoreConstants
      <4>3. Cardinality({i \in running \cup S : table[i].group = g}) <= PerKey[k]
        BY <2>2, <4>1, <4>2 DEF FitsKey, running
      <4> QED
        BY <3>1, <4>3
    <3>3. CASE \A j \in S : table[j].group # g
      <4> DEFINE old == {j \in RunningOf(jobs, k) : jobs[j].group = g}
                 new == {j \in RunningOf(jobs', k) : jobs'[j].group = g}
      <4>1. new \in SUBSET old
        BY <1>1, <2>1, <3>1, <3>3 DEF RunningOf, running
      <4>2. old \in SUBSET Jobs /\ Cardinality(old) <= PerKey[k]
        BY LimitsAreWithin DEF Within, RunningOf
      <4> HIDE DEF old, new
      <4>3. Cardinality(new) <= PerKey[k]
        BY <2>1, <4>1, <4>2, PartIsWithin
      <4> QED
        BY <4>3 DEF new
    <3> QED
      BY <3>2, <3>3
  <2> QED
    BY <2>3, <2>4 DEF Within
<1>10. ConcurrencyLimits'
  <2>1. \A g \in Kinds : Within(jobs', g)
    BY <1>8, <1>9
  <2> QED
    BY <2>1 DEF ConcurrencyLimits, Within, RunningOf
<1> QED
  BY <1>7, <1>10

\* Every step keeps one live job per key and both limits.
LEMMA LimitsStep ==
    IInv /\ OneLivePerKey /\ ConcurrencyLimits /\ [Next]_vars => (OneLivePerKey /\ ConcurrencyLimits)'
<1> SUFFICES ASSUME IInv, OneLivePerKey, ConcurrencyLimits, [Next]_vars
             PROVE  OneLivePerKey' /\ ConcurrencyLimits'
  OBVIOUS
<1>1. ASSUME Admits(jobs')
      PROVE  OneLivePerKey' /\ ConcurrencyLimits'
  <2>1. OneLivePerKey'
    BY <1>1, AdmitsKeepsKeys DEF Admits, GoesOn
  <2> QED
    BY <1>1, <2>1, AdmitsKeepsLimits
<1>2. CASE UNCHANGED vars
  BY <1>1, <1>2, SameAdmits DEF vars
<1>3. CASE Callers \/ ClockTick
  BY <1>1, <1>3, CallersAdmit
<1>4. ASSUME NEW w \in Workers, OnePass(w)
      PROVE  OneLivePerKey' /\ ConcurrencyLimits'
  <2>1. CASE jobs' = jobs
    BY <1>1, <2>1, SameAdmits
  <2>2. CASE jobs' # jobs
    <3>1. \/ \E k \in Kinds : EnsureSchedule(w, k) \/ ClaimJobs(w, k)
          \/ \E j \in Jobs : Bury(w, j)
      BY <1>4, <2>2 DEF OnePass, PassBegin, ListExhausted, BuryDone, PollFails, PassEnd, SkipClaim
    <3> QED
      BY <1>1, <3>1, EnsureScheduleAdmits, ClaimAdmits, BuryAdmits
  <2> QED
    BY <2>1, <2>2
<1>5. ASSUME NEW w \in Workers, Process(w)
      PROVE  OneLivePerKey' /\ ConcurrencyLimits'
  BY <1>1, <1>5, ProcessAdmits
<1>6. ASSUME NEW r \in Runs, Attempt(r)
      PROVE  OneLivePerKey' /\ ConcurrencyLimits'
  BY <1>1, <1>6, AttemptAdmits
<1> QED
  BY <1>2, <1>3, <1>4, <1>5, <1>6 DEF Next

\* The empty queue has no live job.
LEMMA LimitsInit == Init => OneLivePerKey /\ ConcurrencyLimits
<1> SUFFICES ASSUME Init PROVE OneLivePerKey /\ ConcurrencyLimits
  OBVIOUS
<1>1. \A j \in Jobs : jobs[j].status = "none"
  BY DEF Init, NoRow
<1>2. OneLivePerKey
  BY <1>1 DEF OneLivePerKey, Live
<1>3. ASSUME NEW k \in Kinds
      PROVE  Within(jobs, k)
  <2>1. /\ RunningOf(jobs, k) = {} /\ Cardinality({}) = 0
        /\ Global[k] \in Nat /\ PerKey[k] \in Nat
    BY <1>1, FS_EmptySet, JobStoreConstants DEF RunningOf
  <2>2. \A g \in Groups : {j \in RunningOf(jobs, k) : jobs[j].group = g} = {}
    BY <2>1
  <2> QED
    BY <2>1, <2>2 DEF Within
<1> QED
  BY <1>2, <1>3, LimitsAreWithin

\* At most one live job per kind and dedupe key, whoever enqueues, retries, recovers or ends jobs
\* and whatever schedules tick at once (platform_jobs_live_dedupe_idx, enqueueJob, retryJob).
THEOREM OneJobPerKey == Spec => []OneLivePerKey
<1>1. Spec => [](OneLivePerKey /\ ConcurrencyLimits)
  BY Invariance, LimitsInit, LimitsStep, PTL DEF Spec
<1> QED
  BY <1>1, PTL

\* Of a kind no more jobs run than its limit allows, nor under one concurrency key, whatever
\* workers claim, recover and lose at once (claimJobs).
THEOREM LimitsHold == Spec => []ConcurrencyLimits
<1>1. Spec => [](OneLivePerKey /\ ConcurrencyLimits)
  BY Invariance, LimitsInit, LimitsStep, PTL DEF Spec
<1> QED
  BY <1>1, PTL

-----------------------------------------------------------------------------
(* A stop in order.  What a worker gives back it finds in its active map, so the argument is about *)
(* what that map leaves out: nothing, unless a claim overwrites an entry.                          *)

\* An attempt that has not ended is in the active map of its worker, its job is of the kind it was
\* claimed with or is gone, and once released it neither holds its lease nor can get it back.
Tracked(r) ==
    /\ run[r].phase = "idle" => run[r] = NoRun
    /\ run[r].phase # "idle" =>
          /\ active[run[r].worker][run[r].job] = r
          /\ jobs[run[r].job].kind = run[r].kind \/ jobs[run[r].job].status = "none"
          /\ run[r].released => run[r].phase # "tx" /\ ~Held(r)

Tracking == \A r \in Runs : Tracked(r)

\* An entry of an active map stays until it is taken out.
EntriesLast ==
    \A w \in Workers, j \in Jobs :
        active[w][j] # Null => active'[w][j] \in {active[w][j], Null}

\* A row is of the kind it was of or is gone, and has no lease that runs but the one that ran.
Follows(old, new) ==
    /\ new.status = "none" \/ (old.status # "none" /\ new.kind = old.kind)
    /\ new.status = "running" /\ new.lease > 0 =>
          old.status = "running" /\ old.lease > 0 /\ new.token = old.token

\* So it is of every row that an attempt refers to.
Followed(table) ==
    \A j \in Jobs : Follows(jobs[j], table[j]) \/ \A r \in Runs : run[r].job # j

\* The table as it is, and one with a row replaced.
LEMMA RowFollowed ==
    /\ Followed(jobs)
    /\ \A j \in Jobs : \A row :
          IInv /\ Follows(jobs[j], row) => Followed([jobs EXCEPT ![j] = row])
BY DEF Followed, Follows, IInv, TypeOK

\* An inserted row has an id that no attempt remembers (createPlatformId).
LEMMA EnqueueFollowed ==
    ASSUME NEW table, DOMAIN table = Jobs, Followed(table),
           NEW k, NEW key, NEW group, NEW delay,
           NEW new \in AfterEnqueue(table, k, key, group, delay)
    PROVE  Followed(new)
<1>1. CASE new = table
  BY <1>1
<1>2. CASE \E i \in FreeRows(table) : new = [table EXCEPT ![i] = QueuedRow(k, key, group, delay)]
  <2>1. PICK i \in Jobs : /\ \A r \in Runs : run[r].job # i
                          /\ new = [table EXCEPT ![i] = QueuedRow(k, key, group, delay)]
    BY <1>2 DEF FreeRows
  <2> QED
    BY <2>1 DEF Followed
<1> QED
  BY <1>1, <1>2 DEF AfterEnqueue

\* So has the tick that follows a tick.
LEMMA EndingFollowed ==
    ASSUME IInv, NEW j \in Jobs, NEW row, Follows(jobs[j], row), NEW new \in AfterEnding(jobs, j, row)
    PROVE  Followed(new)
<1> DEFINE table == [jobs EXCEPT ![j] = row]
<1>1. Followed(table) /\ DOMAIN table = Jobs
  BY RowFollowed DEF IInv, TypeOK
<1> HIDE DEF table
<1>2. new = table \/ new \in AfterEnqueue(table, row.kind, row.key, Null, Every[row.kind])
  BY DEF AfterEnding, table
<1> QED
  BY <1>1, <1>2, EnqueueFollowed

\* A row that is no longer leased follows the row it was.
LEMMA EndedFollows ==
    ASSUME NEW row, RowOK(row), row.status = "running"
    PROVE  /\ \A status \in {"succeeded", "failed", "dead"} :
                 Follows(row, ended(row, status))
           /\ \A outcome \in {"succeeded", "failed", "retry", "released"} :
                 (outcome = "retry" => row.attempts < MaxAttempts[row.kind]) =>
                 Follows(row, EndingRow(row, outcome))
<1>1. ASSUME NEW status \in {"succeeded", "failed", "dead"}
      PROVE  Follows(row, ended(row, status))
  <2>1. row \in JobRow
    BY DEF RowOK
  <2>2. ended(row, status).status = status /\ ended(row, status).kind = row.kind
    BY <2>1 DEF ended, noLease, JobRow
  <2> QED
    BY <2>2 DEF Follows
<1>2. ASSUME NEW outcome \in {"succeeded", "failed", "retry", "released"},
             outcome = "retry" => row.attempts < MaxAttempts[row.kind]
      PROVE  Follows(row, EndingRow(row, outcome))
  <2>1. /\ EndingRow(row, outcome).kind = row.kind
        /\ EndingRow(row, outcome).status \in {"succeeded", "failed", "queued"}
    BY <1>2, EndingRowOK
  <2> QED
    BY <2>1 DEF Follows
<1> QED
  BY <1>1, <1>2

\* The callers of the queue and the clock.
LEMMA CallersFollowed == ASSUME IInv, Callers \/ ClockTick PROVE Followed(jobs')
<1>0. jobs \in [Jobs -> JobRow] /\ DOMAIN jobs = Jobs
  BY DEF IInv, TypeOK
<1>1. ASSUME NEW q \in Requests, EnqueueJob(q.kind, q.key, q.group, q.delay)
      PROVE  Followed(jobs')
  <2>1. PICK table \in AfterEnqueue(jobs, q.kind, q.key, q.group, q.delay) : jobs' = table
    BY <1>1 DEF EnqueueJob, Commit
  <2> QED
    BY <1>0, <2>1, RowFollowed, EnqueueFollowed
<1>2. ASSUME NEW j \in Jobs, jobs' = [jobs EXCEPT ![j] = NoRow]
      PROVE  Followed(jobs')
  <2>1. Follows(jobs[j], NoRow)
    BY DEF Follows, NoRow
  <2> QED
    BY <1>2, <2>1, RowFollowed
<1>3. ASSUME NEW j \in Jobs, RetryJob(j)
      PROVE  Followed(jobs')
  <2> DEFINE row == requeued(jobs[j])
  <2>1. jobs' = [jobs EXCEPT ![j] = row] /\ jobs[j].status \in {"failed", "dead"}
    BY <1>3 DEF RetryJob, Commit
  <2>2. row.status = "queued" /\ row.kind = jobs[j].kind
    BY <2>1, RowsOfIInv, RequeuedOK
  <2>3. Follows(jobs[j], row)
    BY <2>1, <2>2 DEF Follows
  <2> HIDE DEF row
  <2> QED
    BY <2>1, <2>3, RowFollowed
<1>4. CASE ClockTick
  <2>1. jobs' = [j \in Jobs |-> aged(jobs[j])]
    BY <1>4 DEF ClockTick, Commit
  <2>2. ASSUME NEW j \in Jobs
        PROVE  Follows(jobs[j], aged(jobs[j]))
    <3>1. jobs[j] \in JobRow /\ jobs[j].lease \in Nat
      BY <1>0 DEF JobRow
    <3>2. /\ aged(jobs[j]).status = jobs[j].status /\ aged(jobs[j]).kind = jobs[j].kind
          /\ aged(jobs[j]).token = jobs[j].token
          /\ aged(jobs[j]).lease = IF jobs[j].lease > 0 THEN jobs[j].lease - 1 ELSE 0
      BY <3>1 DEF aged, JobRow
    <3> QED
      BY <3>1, <3>2 DEF Follows
  <2> QED
    BY <2>1, <2>2 DEF Followed
<1> QED
  BY <1>1, <1>2, <1>3, <1>4 DEF Callers, Withdraw, PruneEndedJobs, Commit

\* The schedules are checked: a tick is inserted, or made due.
LEMMA EnsureScheduleFollowed ==
    ASSUME IInv, NEW w \in Workers, NEW k \in Kinds, EnsureSchedule(w, k)
    PROVE  Followed(jobs')
<1>1. PICK table \in AfterEnqueue(jobs, k, scheduleDedupeKey(k), Null, 0) :
        \/ jobs' = table
        \/ jobs' = [j \in Jobs |-> IF /\ isTick(table[j]) /\ table[j].kind = k
                                      /\ table[j].status = "queued"
                                   THEN [table[j] EXCEPT !.wait = 0]
                                   ELSE table[j]]
  BY DEF EnsureSchedule, Commit
<1>2. table \in [Jobs -> JobRow] /\ Followed(table)
  <2>1. scheduleDedupeKey(k) \in DedupeKeys \cup {Null} /\ Null \in Groups \cup {Null} /\ 0 \in Int
    BY DEF EnsureSchedule, DedupeKeys
  <2>2. GoodTable(table)
    BY <1>1, <2>1, SameTable, EnqueueTable
  <2>3. DOMAIN jobs = Jobs
    BY DEF IInv, TypeOK
  <2> QED
    BY <1>1, <2>2, <2>3, RowFollowed, EnqueueFollowed DEF GoodTable
<1>3. ASSUME jobs' # table, NEW j \in Jobs
      PROVE  /\ jobs'[j].status = table[j].status /\ jobs'[j].kind = table[j].kind
             /\ jobs'[j].lease = table[j].lease /\ jobs'[j].token = table[j].token
  <2>1. table[j] \in JobRow
    BY <1>2
  <2> DEFINE row == [table[j] EXCEPT !.wait = 0]
  <2>2. /\ row.status = table[j].status /\ row.kind = table[j].kind
        /\ row.lease = table[j].lease /\ row.token = table[j].token
    BY <2>1 DEF JobRow
  <2>3. jobs'[j] = row \/ jobs'[j] = table[j]
    BY <1>1, <1>3
  <2> QED
    BY <2>2, <2>3
<1>4. CASE jobs' # table
  BY <1>2, <1>3, <1>4 DEF Followed, Follows
<1> QED
  BY <1>2, <1>4

\* The burial of a job, with the tick that follows a tick.
LEMMA BuryFollowed ==
    ASSUME IInv, NEW w \in Workers, NEW j \in Jobs, Bury(w, j)
    PROVE  Followed(jobs')
<1>1. CASE ~exhausted(jobs[j])
  BY <1>1, RowFollowed DEF Bury
<1>2. CASE exhausted(jobs[j])
  <2> DEFINE status == IF isTick(jobs[j]) THEN "failed" ELSE "dead"
             row == ended(jobs[j], status)
  <2>1. PICK table \in AfterEnding(jobs, j, row) : jobs' = table
    BY <1>2 DEF Bury, Commit
  <2>2. RowOK(jobs[j]) /\ jobs[j].status = "running"
    BY <1>2, RowsOfIInv DEF exhausted, LeaseExpired
  <2>3. status \in {"failed", "dead"}
    OBVIOUS
  <2>4. Follows(jobs[j], row)
    <3> HIDE DEF status
    <3> QED
      BY <2>2, <2>3, EndedFollows
  <2> HIDE DEF row
  <2> QED
    BY <2>1, <2>4, EndingFollowed
<1> QED
  BY <1>1, <1>2

\* An attempt that a step leaves alone, with its entry and its row.
LEMMA OthersTracked ==
    ASSUME IInv, Tracking, NEW r \in Runs, run'[r] = run[r],
           run[r].phase # "idle" =>
              /\ active'[run[r].worker][run[r].job] = active[run[r].worker][run[r].job]
              /\ Followed(jobs')
    PROVE  Tracked(r)'
<1>1. CASE run[r].phase = "idle"
  BY <1>1 DEF Tracking, Tracked
<1>2. CASE run[r].phase # "idle"
  <2>1. run[r].job \in Jobs
    BY <1>2, RunsOfIInv
  <2>2. Follows(jobs[run[r].job], jobs'[run[r].job])
    BY <1>2, <2>1 DEF Followed
  <2>3. Held(r)' => Held(r)
    BY <2>2 DEF Follows, Held, heldBy
  <2> QED
    BY <1>2, <2>2, <2>3 DEF Tracking, Tracked, Follows
<1> QED
  BY <1>1, <1>2

\* A step that changes rows only.
LEMMA RowsTracked ==
    ASSUME IInv, Tracking, Followed(jobs'), UNCHANGED <<run, active>>
    PROVE  Tracking'
BY OthersTracked DEF Tracking

\* A claim that overwrites no entry: what it starts is in the map, and a fresh token is nobody's.
LEMMA ClaimTracked ==
    ASSUME IInv, Tracking, EntriesLast, NEW w \in Workers, NEW k \in Kinds, ClaimJobs(w, k)
    PROVE  Tracking'
<1> DEFINE table == [j \in Jobs |-> IF jobs[j].kind = k THEN recovered(jobs[j]) ELSE jobs[j]]
<1>1. PICK S \in Claimable(w, k, table) : \E token \in [S -> FreshRuns] :
          /\ \A i, j \in S : token[i] = token[j] => i = j
          /\ Commit([j \in Jobs |-> IF j \in S THEN claimed(table[j], token[j]) ELSE table[j]])
          /\ run' = [r \in Runs |->
                IF \E j \in S : token[j] = r
                THEN LET j == CHOOSE i \in S : token[i] = r
                     IN  [NoRun EXCEPT !.phase = "running", !.worker = w, !.job = j,
                                       !.kind = k, !.attempt = table[j].attempts + 1]
                ELSE run[r]]
          /\ active' = [active EXCEPT ![w] = [j \in Jobs |-> IF j \in S THEN token[j] ELSE @[j]]]
  BY DEF ClaimJobs
<1>2. \A j \in Jobs : /\ RowOK(table[j]) /\ table[j].kind = jobs[j].kind
                      /\ jobs[j].status # "none" \/ table[j] = jobs[j]
                      /\ Follows(jobs[j], table[j])
  <2> SUFFICES ASSUME NEW j \in Jobs
               PROVE  /\ RowOK(table[j]) /\ table[j].kind = jobs[j].kind
                      /\ jobs[j].status # "none" \/ table[j] = jobs[j]
                      /\ Follows(jobs[j], table[j])
    OBVIOUS
  <2>1. RowOK(jobs[j]) /\ jobs[j] \in JobRow /\ RowOK(table[j])
    BY RowsOfIInv, RecoveredOK DEF RowOK
  <2>2. \/ table[j] = jobs[j]
        \/ /\ recoverable(jobs[j]) /\ table[j].status = "queued" /\ table[j].kind = jobs[j].kind
    BY <2>1 DEF recovered, noLease, JobRow
  <2> QED
    BY <2>1, <2>2 DEF Follows, recoverable, LeaseExpired
<1> HIDE DEF table
<1>3. PICK token \in [S -> FreshRuns] :
          /\ jobs' = [j \in Jobs |-> IF j \in S THEN claimed(table[j], token[j]) ELSE table[j]]
          /\ \A i, j \in S : token[i] = token[j] => i = j
          /\ run' = [r \in Runs |->
                IF \E j \in S : token[j] = r
                THEN LET j == CHOOSE i \in S : token[i] = r
                     IN  [NoRun EXCEPT !.phase = "running", !.worker = w, !.job = j,
                                       !.kind = k, !.attempt = table[j].attempts + 1]
                ELSE run[r]]
          /\ active' = [active EXCEPT ![w] = [j \in Jobs |-> IF j \in S THEN token[j] ELSE @[j]]]
  BY <1>1 DEF Commit
<1>4. S \subseteq Jobs /\ \A j \in S : table[j].status = "queued" /\ table[j].kind = k
  BY <1>1 DEF Claimable, Due
<1>5. \A j \in S : token[j] \in Runs /\ token[j] # Null /\ run[token[j]].phase = "idle"
  BY JobStoreConstants DEF FreshRuns
<1>6. active \in [Workers -> [Jobs -> Runs \cup {Null}]]
  BY DEF IInv, TypeOK
<1>7. \A v \in Workers, j \in Jobs :
          active'[v][j] = IF v = w /\ j \in S THEN token[j] ELSE active[v][j]
  BY <1>3, <1>6
<1>8. ASSUME NEW j \in S
      PROVE  /\ jobs'[j].kind = k /\ jobs'[j].status = "running" /\ jobs'[j].token = token[j]
             /\ jobs[j].status # "none" /\ jobs[j].kind = k
  <2>1. jobs'[j] = claimed(table[j], token[j])
    BY <1>3, <1>4
  <2>2. RowOK(table[j]) /\ table[j].status = "queued" /\ table[j].kind = k
    BY <1>2, <1>4
  <2>3. jobs[j].status # "none" /\ jobs[j].kind = k
    BY <1>2, <1>4
  <2> QED
    BY <1>5, <2>1, <2>2, <2>3, ClaimedOK
<1>9. ASSUME NEW r \in Runs, \A j \in S : token[j] # r
      PROVE  Tracked(r)'
  <2>1. run'[r] = run[r]
    BY <1>3, <1>9
  <2>2. CASE run[r].phase = "idle"
    BY <2>1, <2>2, OthersTracked
  <2>3. CASE run[r].phase # "idle"
    <3> DEFINE i == run[r].job
    <3>1. i \in Jobs /\ run[r].worker \in Workers /\ r # Null
      BY <2>3, RunsOfIInv, JobStoreConstants
    <3>2. active[run[r].worker][i] = r
      BY <2>3 DEF Tracking, Tracked
    <3>3. active'[run[r].worker][i] = r
      BY <1>5, <1>7, <3>1, <3>2 DEF EntriesLast
    <3>4. i \notin S \/ run[r].worker # w
      BY <1>7, <1>9, <3>1, <3>3
    <3>5. CASE i \in S
      <4>1. jobs'[i].kind = k /\ jobs'[i].token # r /\ jobs[i].status # "none" /\ jobs[i].kind = k
        BY <1>8, <1>9, <3>5
      <4>2. ~Held(r)'
        BY <2>1, <4>1 DEF Held, heldBy
      <4>3. jobs[i].kind = run[r].kind /\ (run[r].released => run[r].phase # "tx")
        BY <2>3, <4>1 DEF Tracking, Tracked
      <4> QED
        BY <2>1, <2>3, <3>3, <4>1, <4>2, <4>3 DEF Tracked
    <3>6. CASE i \notin S
      <4>1. jobs'[i] = table[i] /\ Follows(jobs[i], jobs'[i])
        BY <1>2, <1>3, <3>1, <3>6
      <4>2. Held(r)' => Held(r)
        BY <2>1, <4>1 DEF Held, heldBy, Follows
      <4> QED
        BY <2>1, <2>3, <3>3, <4>1, <4>2 DEF Tracking, Tracked, Follows
    <3> QED
      BY <3>5, <3>6
  <2> QED
    BY <2>2, <2>3
<1>10. ASSUME NEW j \in S
       PROVE  Tracked(token[j])'
  <2>1. (CHOOSE i \in S : token[i] = token[j]) = j
    BY <1>3
  <2>2. run'[token[j]] = [NoRun EXCEPT !.phase = "running", !.worker = w,
                             !.job = CHOOSE i \in S : token[i] = token[j], !.kind = k,
                             !.attempt = table[CHOOSE i \in S : token[i] = token[j]].attempts + 1]
    BY <1>3, <1>5
  <2>3. /\ run'[token[j]].phase = "running" /\ run'[token[j]].worker = w
        /\ run'[token[j]].job = j /\ run'[token[j]].kind = k /\ ~run'[token[j]].released
    BY <2>1, <2>2 DEF NoRun
  <2>4. active'[w][j] = token[j]
    BY <1>4, <1>7
  <2> QED
    BY <1>8, <2>3, <2>4 DEF Tracked
<1> QED
  BY <1>9, <1>10 DEF Tracking

\* With one slot a worker overwrites no entry: an attempt that lost its lease and still runs counts
\* against the slot of the kind of its job.
LEMMA OneSlotLasts ==
    ASSUME IInv, Tracking, NEW w \in Workers, NEW k \in Kinds, Slots[w][k] <= 1, ClaimJobs(w, k)
    PROVE  EntriesLast
<1> DEFINE table == [j \in Jobs |-> IF jobs[j].kind = k THEN recovered(jobs[j]) ELSE jobs[j]]
<1>1. PICK S \in Claimable(w, k, table) : \E token \in [S -> FreshRuns] :
          active' = [active EXCEPT ![w] = [j \in Jobs |-> IF j \in S THEN token[j] ELSE @[j]]]
  BY DEF ClaimJobs
<1>2. PICK token \in [S -> FreshRuns] :
          active' = [active EXCEPT ![w] = [j \in Jobs |-> IF j \in S THEN token[j] ELSE @[j]]]
  BY <1>1
<1>3. active \in [Workers -> [Jobs -> Runs \cup {Null}]]
  BY DEF IInv, TypeOK
<1>4. \A v \in Workers, j \in Jobs :
          active'[v][j] = IF v = w /\ j \in S THEN token[j] ELSE active[v][j]
  BY <1>2, <1>3
<1>5. ASSUME NEW j \in Jobs, table[j].status = "queued", table[j].kind = k
      PROVE  jobs[j].status # "none" /\ jobs[j].kind = k
  <2>1. jobs[j] \in JobRow
    BY DEF IInv, TypeOK
  <2> QED
    BY <1>5, <2>1 DEF recovered, noLease, JobRow, recoverable, LeaseExpired
<1>6. S \subseteq Jobs /\ \A j \in S : jobs[j].status # "none" /\ jobs[j].kind = k
  BY <1>1, <1>5 DEF Claimable, Due
<1>7. S = {} \/ Cardinality(S) + Cardinality(ActiveOf(w, k)) <= Slots[w][k]
  BY <1>1 DEF Claimable
<1> HIDE DEF table
<1>8. ASSUME NEW j \in S
      PROVE  active[w][j] = Null
  <2> SUFFICES ASSUME active[w][j] # Null PROVE FALSE
    OBVIOUS
  <2> DEFINE r == active[w][j]
  <2>1. j \in Jobs /\ r \in Runs
    BY <1>3, <1>6
  <2>2. run[r].phase # "idle" /\ run[r].job = j
    BY <2>1 DEF IInv, LeaseDiscipline
  <2>3. run[r].kind = k
    BY <1>6, <2>1, <2>2 DEF Tracking, Tracked
  <2>4. j \in ActiveOf(w, k)
    BY <2>1, <2>3 DEF ActiveOf
  <2>5. IsFiniteSet(S) /\ IsFiniteSet(ActiveOf(w, k))
    BY <1>6, FS_Subset, JobStoreConstants DEF ActiveOf
  <2>6. Cardinality(S) \in Nat \ {0} /\ Cardinality(ActiveOf(w, k)) \in Nat \ {0}
    BY <2>4, <2>5, FS_CardinalityType, FS_EmptySet
  <2>7. Slots[w][k] \in Nat
    BY JobExecutorConstants
  <2> QED
    BY <1>7, <2>6, <2>7
<1> QED
  BY <1>4, <1>8 DEF EntriesLast

\* An attempt goes on to its next phase; released, it opens no transaction.
LEMMA PhaseTracked ==
    ASSUME IInv, Tracking, NEW r \in Runs, run[r].phase # "idle",
           NEW x, run' = [run EXCEPT ![r] = x], UNCHANGED <<jobs, active>>,
           x.phase # "idle", x.worker = run[r].worker, x.job = run[r].job, x.kind = run[r].kind,
           x.released = run[r].released, x.phase = "tx" => ~run[r].released
    PROVE  Tracking'
<1>1. run'[r] = x /\ \A i \in Runs : i # r => run'[i] = run[i]
  BY DEF IInv, TypeOK
<1>2. \A i \in Runs : i # r => Tracked(i)'
  BY <1>1, RowFollowed, OthersTracked
<1>3. Tracked(r)
  BY DEF Tracking
<1>4. Tracked(r)'
  BY <1>1, <1>3 DEF Tracked, Held
<1> QED
  BY <1>2, <1>4 DEF Tracking

\* An attempt ends and takes its own entry out, and no other's.
LEMMA FinishTracked ==
    ASSUME IInv, Tracking, NEW r \in Runs, run[r].phase # "idle", Finish(r), Followed(jobs')
    PROVE  Tracking'
<1>1. /\ run \in [Runs -> Run] /\ active \in [Workers -> [Jobs -> Runs \cup {Null}]]
      /\ run[r].worker \in Workers /\ run[r].job \in Jobs
  BY RunsOfIInv DEF IInv, TypeOK
<1>2. /\ run'[r] = NoRun /\ \A i \in Runs : i # r => run'[i] = run[i]
      /\ \A w \in Workers, j \in Jobs :
            active'[w][j] = IF w = run[r].worker /\ j = run[r].job THEN Null ELSE active[w][j]
  BY <1>1 DEF Finish
<1>3. Tracked(r)'
  BY <1>2 DEF Tracked, NoRun
<1>4. ASSUME NEW i \in Runs, i # r
      PROVE  Tracked(i)'
  <2>1. ASSUME run[i].phase # "idle"
        PROVE  active'[run[i].worker][run[i].job] = active[run[i].worker][run[i].job]
    <3>1. run[i].worker \in Workers /\ run[i].job \in Jobs
      BY <2>1, RunsOfIInv
    <3>2. active[run[i].worker][run[i].job] = i /\ active[run[r].worker][run[r].job] = r
      BY <2>1 DEF Tracking, Tracked
    <3> QED
      BY <1>2, <1>4, <3>1, <3>2
  <2> QED
    BY <1>2, <1>4, <2>1, OthersTracked
<1> QED
  BY <1>3, <1>4 DEF Tracking

\* The steps of an attempt.
LEMMA AttemptTracked ==
    ASSUME IInv, Tracking, NEW r \in Runs, Attempt(r)
    PROVE  Tracking'
<1> DEFINE j == run[r].job
<1>0. /\ run[r].phase # "idle" /\ run[r] \in Run /\ OutcomeOK(run[r]) /\ j \in Jobs
      /\ run \in [Runs -> Run] /\ jobs \in [Jobs -> JobRow]
  <2>1. run[r].phase # "idle"
    BY DEF Attempt, HeartbeatJob, TxBegin, TxCommit, TxRollback, HandlerEnds, Settle,
           SettleExhausted, OnExhaustedFails, SettleOrBury, SettleFails
  <2> QED
    BY <2>1, RunsOfIInv DEF IInv, TypeOK
<1>1. ASSUME Held(r)
      PROVE  /\ RowOK(jobs[j]) /\ jobs[j].status = "running" /\ jobs[j].token = r
             /\ jobs[j].kind = run[r].kind /\ jobs[j].attempts = run[r].attempt
             /\ jobs[j].kind \in Kinds
  BY <1>0, <1>1, HeldRow
<1>2. CASE HeartbeatJob(r)
  <2>1. jobs' = [jobs EXCEPT ![j] = renewed(jobs[j])] /\ Held(r) /\ UNCHANGED <<run, active>>
    BY <1>2 DEF HeartbeatJob, Commit
  <2>2. jobs[j].lease > 0
    BY <2>1 DEF Held, heldBy
  <2>3. Follows(jobs[j], renewed(jobs[j]))
    BY <1>1, <2>1, <2>2, RenewedOK DEF Follows
  <2> QED
    BY <1>0, <2>1, <2>3, RowFollowed, RowsTracked
<1>3. CASE TxCommit(r)
  <2>1. /\ run[r].phase = "tx" /\ jobs[j].token = r /\ RowOK(jobs[j]) /\ r # Null
        /\ jobs[j].status = "running" /\ jobs[j].kind \in Kinds
    BY <1>0, <1>3, RunsOfIInv, RowsOfIInv, JobStoreConstants DEF TxCommit, RowOK
  <2>2. /\ jobs'[j] = renewed(jobs[j]) /\ \A i \in Jobs : i # j => jobs'[i] = jobs[i]
        /\ run' = [run EXCEPT ![r].phase = "running"] /\ UNCHANGED active
    BY <1>0, <1>3, <2>1 DEF TxCommit
  <2>3. /\ jobs'[j].token = r /\ jobs'[j].kind = jobs[j].kind
    BY <2>1, <2>2, RenewedOK
  <2>4. /\ run'[r].phase = "running" /\ run'[r].worker = run[r].worker /\ run'[r].job = j
        /\ run'[r].kind = run[r].kind /\ run'[r].released = run[r].released
        /\ \A i \in Runs : i # r => run'[i] = run[i]
    BY <1>0, <2>2 DEF Run
  <2>5. Tracked(r)'
    BY <1>0, <2>1, <2>2, <2>3, <2>4 DEF Tracking, Tracked
  <2>6. ASSUME NEW i \in Runs, i # r
        PROVE  Tracked(i)'
    <3>1. CASE run[i].phase = "idle"
      BY <2>4, <2>6, <3>1, OthersTracked
    <3>2. CASE run[i].phase # "idle"
      <4>1. run[i].job \in Jobs /\ Tracked(i)
        BY <3>2, RunsOfIInv DEF Tracking
      <4>2. CASE run[i].job = j
        <5>1. ~Held(i)'
          BY <2>3, <2>4, <2>6, <4>2 DEF Held, heldBy
        <5> QED
          BY <2>1, <2>2, <2>3, <2>4, <2>6, <3>2, <4>1, <4>2, <5>1 DEF Tracked
      <4>3. CASE run[i].job # j
        <5>1. Held(i)' = Held(i)
          BY <2>2, <2>4, <2>6, <4>1, <4>3 DEF Held, heldBy
        <5> QED
          BY <2>2, <2>4, <2>6, <3>2, <4>1, <4>3, <5>1 DEF Tracked
      <4> QED
        BY <4>2, <4>3
    <3> QED
      BY <3>1, <3>2
  <2> QED
    BY <2>5, <2>6 DEF Tracking
<1>4. CASE TxBegin(r) \/ TxRollback(r) \/ OnExhaustedFails(r)
  <2>1. PICK phase \in {"tx", "running", "burying"} :
          /\ run' = [run EXCEPT ![r].phase = phase] /\ UNCHANGED <<jobs, active>>
          /\ phase = "tx" => Held(r)
    BY <1>4 DEF TxBegin, TxRollback, OnExhaustedFails
  <2> DEFINE x == [run[r] EXCEPT !.phase = phase]
  <2>2. /\ run' = [run EXCEPT ![r] = x] /\ x.phase = phase /\ x.worker = run[r].worker
        /\ x.job = run[r].job /\ x.kind = run[r].kind /\ x.released = run[r].released
    BY <1>0, <2>1 DEF Run
  <2>3. phase = "tx" => ~run[r].released
    BY <1>0, <2>1 DEF Tracking, Tracked
  <2> HIDE DEF x
  <2> QED
    BY <1>0, <2>1, <2>2, <2>3, PhaseTracked
<1>5. CASE HandlerEnds(r)
  <2>1. PICK outcome : /\ run' = [run EXCEPT ![r].phase = "settling", ![r].outcome = outcome]
                       /\ UNCHANGED <<jobs, active>>
    BY <1>5 DEF HandlerEnds
  <2> DEFINE x == [run[r] EXCEPT !.phase = "settling", !.outcome = outcome]
  <2>2. /\ run' = [run EXCEPT ![r] = x] /\ x.phase = "settling" /\ x.worker = run[r].worker
        /\ x.job = run[r].job /\ x.kind = run[r].kind /\ x.released = run[r].released
    BY <1>0, <2>1 DEF Run
  <2> HIDE DEF x
  <2> QED
    BY <1>0, <2>1, <2>2, PhaseTracked
<1>6. CASE Settle(r)
  <2>1. Finish(r) /\ run[r].outcome \in {"succeeded", "failed", "retry", "released"}
    BY <1>0, <1>6 DEF Settle, OutcomeOK, Run, Outcomes
  <2>2. CASE ~Held(r)
    BY <1>0, <1>6, <2>1, <2>2, RowFollowed, FinishTracked DEF Settle
  <2>3. CASE Held(r)
    <3>1. PICK table \in AfterEnding(jobs, j, EndingRow(jobs[j], run[r].outcome)) : jobs' = table
      BY <1>6, <2>3 DEF Settle, Commit
    <3>2. run[r].outcome = "retry" => jobs[j].attempts < MaxAttempts[jobs[j].kind]
      BY <1>0, <1>1, <2>3 DEF OutcomeOK
    <3>3. Follows(jobs[j], EndingRow(jobs[j], run[r].outcome))
      BY <1>1, <2>1, <2>3, <3>2, EndedFollows
    <3> QED
      BY <1>0, <2>1, <3>1, <3>3, EndingFollowed, FinishTracked
  <2> QED
    BY <2>2, <2>3
<1>7. CASE SettleExhausted(r) \/ SettleOrBury(r) \/ SettleFails(r)
  <2>1. /\ Finish(r)
        /\ \/ jobs' = jobs
           \/ /\ Held(r)
              /\ jobs' = [jobs EXCEPT ![j] = ended(jobs[j], "dead")]
    BY <1>7 DEF SettleExhausted, SettleOrBury, SettleFails, Commit
  <2>2. CASE jobs' = jobs
    BY <1>0, <2>1, <2>2, RowFollowed, FinishTracked
  <2>3. CASE jobs' # jobs
    <3>1. jobs' = [jobs EXCEPT ![j] = ended(jobs[j], "dead")]
      BY <2>1, <2>3
    <3>2. Follows(jobs[j], ended(jobs[j], "dead"))
      BY <1>1, <2>1, <2>3, EndedFollows
    <3> QED
      BY <1>0, <2>1, <3>1, <3>2, RowFollowed, FinishTracked
  <2> QED
    BY <2>2, <2>3
<1> QED
  BY <1>2, <1>3, <1>4, <1>5, <1>6, <1>7 DEF Attempt

\* The life of a process whose database does not fail: what it releases it gives back.
LEMMA ProcessTracked ==
    ASSUME ~DbFails, IInv, Tracking, NEW w \in Workers, Process(w)
    PROVE  Tracking'
<1>1. /\ run \in [Runs -> Run] /\ active \in [Workers -> [Jobs -> Runs \cup {Null}]]
      /\ jobs \in [Jobs -> JobRow]
  BY DEF IInv, TypeOK
<1>2. CASE UNCHANGED <<jobs, run, active>>
  BY <1>2, RowFollowed, RowsTracked
<1>3. ASSUME NEW how, Gone(w, how)
      PROVE  Tracking'
  <2>1. /\ \A v \in Workers, j \in Jobs : v # w => active'[v][j] = active[v][j]
        /\ UNCHANGED jobs
        /\ \A r \in Runs : run'[r] = IF run[r].worker = w THEN NoRun ELSE run[r]
    BY <1>1, <1>3 DEF Gone
  <2> SUFFICES ASSUME NEW r \in Runs PROVE Tracked(r)'
    BY DEF Tracking
  <2>2. CASE run[r].worker = w
    <3>1. run'[r] = NoRun /\ NoRun.phase = "idle"
      BY <2>1, <2>2, NoRunType
    <3> QED
      BY <3>1, NoRunType DEF Tracked
  <2>3. CASE run[r].worker # w
    <3>1. run[r].phase # "idle" => run[r].worker \in Workers /\ run[r].job \in Jobs
      BY RunsOfIInv
    <3>2. run[r].phase # "idle" =>
            active'[run[r].worker][run[r].job] = active[run[r].worker][run[r].job]
      BY <2>1, <2>3, <3>1
    <3> QED
      BY <2>1, <2>3, <3>2, RowFollowed, OthersTracked
  <2> QED
    BY <2>2, <2>3
<1>4. ASSUME NEW j \in Jobs, ReleaseActive(w, j)
      PROVE  Tracking'
  <2>0. PICK r \in Runs : active[w][j] = r
    BY <1>1, <1>4 DEF ReleaseActive
  <2>1. /\ ~RowLocked(j) /\ UNCHANGED active
        /\ run' = [run EXCEPT ![r].released = TRUE]
        /\ jobs' = IF Held(r) THEN [jobs EXCEPT ![j] = released(jobs[j])] ELSE jobs
    BY <1>1, <1>4, <2>0 DEF ReleaseActive, Commit
  <2>2. run[r].phase # "idle" /\ run[r].job = j /\ run[r].phase # "tx"
    BY <2>0, <2>1 DEF IInv, LeaseDiscipline, RowLocked
  <2>3. /\ run'[r].phase = run[r].phase /\ run'[r].worker = run[r].worker /\ run'[r].job = j
        /\ run'[r].kind = run[r].kind /\ \A i \in Runs : i # r => run'[i] = run[i]
    BY <1>1, <2>1, <2>2 DEF Run
  <2>4. Followed(jobs') /\ Follows(jobs[j], jobs'[j]) /\ ~heldBy(jobs'[j], r)
    <3>1. CASE ~Held(r)
      BY <2>1, <2>2, <3>1, RowFollowed DEF Follows, Held
    <3>2. CASE Held(r)
      <4>1. RowOK(jobs[j]) /\ jobs[j].status = "running"
        BY <2>1, <2>2, <3>2, HeldRow
      <4>2. EndingRow(jobs[j], "released") = released(jobs[j])
        BY DEF EndingRow
      <4>3. /\ released(jobs[j]).status # "running" /\ Follows(jobs[j], released(jobs[j]))
        <5>1. EndingRow(jobs[j], "released").status \in {"succeeded", "failed", "queued"}
          BY <4>1, EndingRowOK
        <5>2. Follows(jobs[j], EndingRow(jobs[j], "released"))
          BY <4>1, EndedFollows
        <5> QED
          BY <4>2, <5>1, <5>2
      <4>4. jobs' = [jobs EXCEPT ![j] = released(jobs[j])] /\ jobs'[j] = released(jobs[j])
        BY <1>1, <2>1, <3>2
      <4> QED
        BY <4>3, <4>4, RowFollowed DEF heldBy
    <3> QED
      BY <3>1, <3>2
  <2>5. \A i \in Runs : i # r => Tracked(i)'
    BY <2>1, <2>3, <2>4, OthersTracked
  <2>6. Tracked(r)'
    BY <2>1, <2>2, <2>3, <2>4 DEF Tracking, Tracked, Held, Follows
  <2> QED
    BY <2>1, <2>5, <2>6 DEF Tracking
<1> QED
  BY <1>2, <1>3, <1>4 DEF Process, Stop, DrainEnds, Exit, Crash, Restart

\* What a stopping worker has not taken out of its map went through releaseActive.
LEMMA ExitReleases ==
    ASSUME IInv, Tracking, NEW w \in Workers, Exit(w), NEW r \in Runs, run[r].worker = w
    PROVE  ~Held(r)
<1>1. run[r].phase # "idle"
  BY JobExecutorConstants DEF Tracking, Tracked, NoRun
<1>2. run[r].job \in Jobs /\ active[w][run[r].job] = r /\ r # Null
  BY <1>1, RunsOfIInv, JobStoreConstants DEF Tracking, Tracked
<1>3. run[r].released
  BY <1>2 DEF Exit, AllReleased
<1> QED
  BY <1>1, <1>3 DEF Tracking, Tracked

\* Every step that overwrites no entry keeps track of the attempts, and only Exit ends a stop.
LEMMA TrackingStep ==
    ASSUME ~DbFails, IInv, Tracking, [Next]_vars, [EntriesLast]_vars
    PROVE  /\ Tracking'
           /\ \A w \in Workers : mode[w] = "stopping" /\ mode'[w] = "stopped" =>
                \A r \in Runs : run[r].worker = w => ~Held(r)
<1>0. mode \in [Workers -> Modes] /\ "stopping" # "stopped"
  BY DEF IInv, TypeOK
<1>1. CASE UNCHANGED vars
  BY <1>1, RowFollowed, RowsTracked DEF vars
<1>2. CASE Callers \/ ClockTick
  <2>1. UNCHANGED <<run, active, mode>>
    BY <1>2 DEF Callers, ClockTick, EnqueueJob, Withdraw, PruneEndedJobs, RetryJob
  <2> QED
    BY <1>2, <2>1, CallersFollowed, RowsTracked
<1>3. ASSUME NEW w \in Workers, OnePass(w)
      PROVE  Tracking'
  <2>1. CASE UNCHANGED <<jobs, run, active>>
    BY <2>1, RowFollowed, RowsTracked
  <2>2. ASSUME NEW k \in Kinds, EnsureSchedule(w, k)
        PROVE  Tracking'
    BY <2>2, EnsureScheduleFollowed, RowsTracked DEF EnsureSchedule
  <2>3. ASSUME NEW j \in Jobs, Bury(w, j)
        PROVE  Tracking'
    BY <2>3, BuryFollowed, RowsTracked DEF Bury
  <2>4. ASSUME NEW k \in Kinds, ClaimJobs(w, k)
        PROVE  Tracking'
    <3>1. CASE UNCHANGED vars
      BY <3>1, <2>1 DEF vars
    <3>2. CASE EntriesLast
      BY <2>4, <3>2, ClaimTracked
    <3> QED
      BY <3>1, <3>2
  <2> QED
    BY <1>3, <2>1, <2>2, <2>3, <2>4
       DEF OnePass, PassBegin, ListExhausted, BuryDone, PollFails, PassEnd, SkipClaim
<1>4. ASSUME NEW w \in Workers, OnePass(w), NEW v \in Workers
      PROVE  mode'[v] # "stopped" \/ mode[v] = "stopped"
  BY <1>0, <1>4 DEF OnePass, PassBegin, ListExhausted, BuryDone, PollFails, PassEnd, SkipClaim,
                    EnsureSchedule, ClaimJobs, Bury
<1>5. ASSUME NEW w \in Workers, Process(w), NEW v \in Workers, mode[v] = "stopping",
             mode'[v] = "stopped"
      PROVE  Exit(v)
  <2>1. ASSUME NEW m, mode' = [mode EXCEPT ![w] = m] PROVE v = w /\ m = "stopped"
    BY <1>0, <1>5, <2>1
  <2>2. ASSUME NEW drain \in BOOLEAN PROVE ~Stop(w, drain)
    BY <2>1 DEF Stop
  <2>3. ~DrainEnds(w) /\ ~Restart(w) /\ ~Crash(w)
    BY <2>1 DEF DrainEnds, Restart, Crash, Gone
  <2>4. ASSUME NEW j \in Jobs PROVE ~ReleaseActive(w, j)
    BY <1>5 DEF ReleaseActive
  <2>5. Exit(w)
    BY <1>5, <2>2, <2>3, <2>4 DEF Process
  <2>6. mode' = [mode EXCEPT ![w] = "stopped"]
    BY <2>5 DEF Exit, Gone
  <2> QED
    BY <2>1, <2>5, <2>6
<1>6. ASSUME NEW r \in Runs, Attempt(r)
      PROVE  UNCHANGED mode
  BY <1>6 DEF Attempt, HeartbeatJob, TxBegin, TxCommit, TxRollback, HandlerEnds, Settle,
              SettleExhausted, OnExhaustedFails, SettleOrBury, SettleFails
<1>7. UNCHANGED mode \/ \E w \in Workers : OnePass(w) \/ Process(w)
  <2>1. CASE Callers \/ ClockTick
    BY <2>1 DEF Callers, ClockTick, EnqueueJob, Withdraw, PruneEndedJobs, RetryJob
  <2> QED
    BY <1>6, <2>1 DEF Next, vars
<1>8. Tracking'
  BY <1>1, <1>2, <1>3, ProcessTracked, AttemptTracked DEF Next
<1>9. ASSUME NEW w \in Workers, mode[w] = "stopping", mode'[w] = "stopped",
             NEW r \in Runs, run[r].worker = w
      PROVE  ~Held(r)
  <2>1. Exit(w)
    BY <1>0, <1>4, <1>5, <1>7, <1>9
  <2> QED
    BY <1>9, <2>1, ExitReleases
<1> QED
  BY <1>8, <1>9

\* At first nothing runs.
LEMMA TrackingInit == Init => Tracking
BY DEF Init, Tracking, Tracked, NoRun

\* With one slot per kind, every step overwrites no entry.
LEMMA OneSlotSteps ==
    ASSUME \A w \in Workers, k \in Kinds : Slots[w][k] <= 1, IInv, Tracking, [Next]_vars
    PROVE  [EntriesLast]_vars
<1>1. CASE UNCHANGED active
  BY <1>1 DEF EntriesLast
<1>2. active \in [Workers -> [Jobs -> Runs \cup {Null}]]
  BY DEF IInv, TypeOK
<1>3. ASSUME NEW w \in Workers, OnePass(w), active' # active
      PROVE  EntriesLast
  <2>1. PICK k \in Kinds : ClaimJobs(w, k)
    BY <1>3 DEF OnePass, PassBegin, ListExhausted, BuryDone, PollFails, PassEnd, SkipClaim,
                EnsureSchedule, Bury
  <2> QED
    BY <2>1, OneSlotLasts
<1>4. ASSUME NEW w \in Workers, Process(w), active' # active
      PROVE  EntriesLast
  <2>1. active' = [active EXCEPT ![w] = [j \in Jobs |-> Null]]
    BY <1>4 DEF Process, Stop, DrainEnds, Exit, Crash, Restart, ReleaseActive, Gone
  <2> QED
    BY <1>2, <2>1 DEF EntriesLast
<1>5. ASSUME NEW r \in Runs, Attempt(r), active' # active
      PROVE  EntriesLast
  <2>1. Finish(r)
    BY <1>5 DEF Attempt, HeartbeatJob, TxBegin, TxCommit, TxRollback, HandlerEnds, Settle,
                SettleExhausted, OnExhaustedFails, SettleOrBury, SettleFails
  <2> QED
    BY <1>2, <2>1 DEF EntriesLast, Finish
<1>6. CASE Callers \/ ClockTick
  BY <1>1, <1>6 DEF Callers, ClockTick, EnqueueJob, Withdraw, PruneEndedJobs, RetryJob
<1> QED
  BY <1>1, <1>3, <1>4, <1>5, <1>6 DEF Next, vars

\* A worker whose transactions do not fail leaves no lease behind when it stops, in every behaviour
\* in which no claim overwrites an entry of an active map (releaseActive, and the map keyed by job).
THEOREM StopsReleaseTracked ==
    ASSUME ~DbFails
    PROVE  Spec /\ [][EntriesLast]_vars => StopReleasesLeases
<1>1. IInv /\ Tracking /\ [Next]_vars /\ [EntriesLast]_vars => Tracking'
  BY TrackingStep
<1>2. IInv /\ Tracking /\ [Next]_vars /\ [EntriesLast]_vars =>
        [\A w \in Workers : mode[w] = "stopping" /\ mode'[w] = "stopped" =>
            \A r \in Runs : run[r].worker = w => ~Held(r)]_vars
  BY TrackingStep
<1> QED
  BY Invariance, TrackingInit, <1>1, <1>2, PTL DEF Spec, StopReleasesLeases

\* So it is without that condition where a process runs at most one attempt of a kind at a time.
THEOREM StopsRelease ==
    ASSUME ~DbFails, \A w \in Workers, k \in Kinds : Slots[w][k] <= 1
    PROVE  Spec => StopReleasesLeases
<1>1. IInv /\ Tracking /\ [Next]_vars => [EntriesLast]_vars /\ Tracking'
  BY OneSlotSteps, TrackingStep
<1>2. Spec => [][EntriesLast]_vars
  BY Invariance, TrackingInit, <1>1, PTL DEF Spec
<1> QED
  BY <1>2, StopsReleaseTracked, PTL
=============================================================================
