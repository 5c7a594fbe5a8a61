---------------------------- MODULE JobExecutor ----------------------------
(***************************************************************************)
(* The job executor: the workers of                                        *)
(* packages/postgres-store/src/jobs/worker.ts over the rows of JobStore.   *)
(* A database transaction is one step, except control.transaction: a       *)
(* handler holds the row lock over many calls of its own, so its begin and *)
(* its commit are two steps and time passes between them.                  *)
(***************************************************************************)
EXTENDS JobStore

CONSTANTS
    Workers,       \* the worker processes
    Slots,         \* [Workers -> [Kinds -> Nat]]: attempts of a kind one process runs at once
    Retryable,     \* the kinds with a manual retry (job-retries.ts)
    DueAtStart,    \* the scheduled kinds whose waiting tick a starting process makes due
    KeptKeys,      \* keys of subjects marked for deletion: their dead jobs are never pruned
    Requests,      \* what callers enqueue: kind, dedupe key, concurrency key and delay
    DbFails,       \* whether a transaction of the executor itself may fail
    MaxStops       \* bound: how often a process stops or crashes

ASSUME JobExecutorConstants ==
    /\ IsFiniteSet(Runs)
    /\ Slots \in [Workers -> [Kinds -> Nat]]
    /\ Retryable \subseteq Kinds \ Scheduled
    /\ DueAtStart \subseteq Scheduled
    /\ KeptKeys \subseteq Keys
    /\ Requests \subseteq [kind: Kinds \ Scheduled, key: Keys \cup {Null},
                            group: Groups \cup {Null}, delay: Nat]
    /\ DbFails \in BOOLEAN
    /\ MaxStops \in Nat
    /\ Null \notin Workers

VARIABLES
    jobs,      \* platform_jobs
    run,       \* the attempts: the closures of run(handler, row), by lease token
    active,    \* [Workers -> [Jobs -> Runs or Null]]: the active map of each worker
    mode,      \* the life of each worker process
    pass,      \* the pass each worker is in
    stops,     \* how often a process stopped or crashed
    writer,    \* history: the attempt whose transaction wrote the job's subject since the
               \* lease last changed hands
    gaveUp     \* history: onExhausted committed for the job and no retry put the subject back

vars == <<jobs, run, active, mode, pass, stops, writer, gaveUp>>

Phases == {"idle", "running", "tx", "settling", "burying"}

Outcomes == {"none", "succeeded", "failed", "retry", "exhausted", "released"}

Modes == {"starting", "up", "draining", "stopping", "stopped", "crashed"}

Stages == {"off", "next", "list", "bury"}

Run == [phase: Phases, worker: Workers \cup {Null}, job: Jobs \cup {Null},
        kind: Kinds \cup {Null}, attempt: Nat, outcome: Outcomes, released: BOOLEAN]

NoRun == [phase |-> "idle", worker |-> Null, job |-> Null, kind |-> Null,
          attempt |-> 0, outcome |-> "none", released |-> FALSE]

Pass == [stage: Stages, todo: SUBSET Kinds, at: Kinds \cup {Null}, doomed: SUBSET Jobs]

NoPass == [stage |-> "off", todo |-> {}, at |-> Null, doomed |-> {}]

TypeOK ==
    /\ jobs \in [Jobs -> JobRow]
    /\ run \in [Runs -> Run]
    /\ active \in [Workers -> [Jobs -> Runs \cup {Null}]]
    /\ mode \in [Workers -> Modes]
    /\ pass \in [Workers -> Pass]
    /\ stops \in Nat
    /\ writer \in [Jobs -> Runs \cup {Null}]
    /\ gaveUp \in [Jobs -> BOOLEAN]
    /\ \A j \in Jobs : jobs[j].status # "none" => jobs[j].kind \in Kinds
    /\ \A r \in Runs : run[r].phase # "idle" =>
          run[r].worker \in Workers /\ run[r].job \in Jobs /\ run[r].kind \in Kinds
    /\ \A w \in Workers : pass[w].stage \in {"list", "bury"} => pass[w].at \in Kinds

Init ==
    /\ jobs = [j \in Jobs |-> NoRow]
    /\ run = [r \in Runs |-> NoRun]
    /\ active = [w \in Workers |-> [j \in Jobs |-> Null]]
    /\ mode = [w \in Workers |-> "starting"]
    /\ pass = [w \in Workers |-> NoPass]
    /\ stops = 0
    /\ writer = [j \in Jobs |-> Null]
    /\ gaveUp = [j \in Jobs |-> FALSE]

-----------------------------------------------------------------------------
\* The table after a transaction.  An attempt's writes count for the lease they were made under.
Commit(table) ==
    /\ jobs' = table
    /\ writer' = [j \in Jobs |-> IF table[j].token = jobs[j].token THEN writer[j] ELSE Null]

\* Mutant: control.transaction checks the lease without locking the row.
RowLocked_never(j) == FALSE

\* The row lock a handler's open transaction holds.
RowLocked(j) == \E r \in Runs : run[r].phase = "tx" /\ run[r].job = j

\* Mutant: the index covers queued rows only.
LiveUnder_queuedOnly(table, k, key) ==
    {j \in Jobs : table[j].status = "queued" /\ table[j].kind = k /\ table[j].key = key}

\* The partial unique index platform_jobs_live_dedupe_idx.
LiveUnder(table, k, key) ==
    {j \in Jobs : Live(table[j]) /\ table[j].kind = k /\ table[j].key = key}

\* Mutant: a running job whose lease ran out no longer counts against the limits.
RunningOf_leased(table, k) ==
    {j \in Jobs : table[j].status = "running" /\ table[j].kind = k /\ table[j].lease > 0}

\* The running jobs of a kind, which both limits count.
RunningOf(table, k) == {j \in Jobs : table[j].status = "running" /\ table[j].kind = k}

\* createPlatformId: an id no row has and no process remembers.
FreeRows(table) ==
    {j \in Jobs : /\ table[j].status = "none"
                  /\ \A r \in Runs : run[r].job # j
                  /\ \A w \in Workers : j \notin pass[w].doomed}

\* enqueueJob in a transaction: nothing is inserted while the key has a live job.  The tables it
\* can leave behind; without a free id (a bound of the model) there is none.
AfterEnqueue(table, k, key, group, delay) ==
    IF key # Null /\ LiveUnder(table, k, key) # {}
    THEN {table}
    ELSE {[table EXCEPT ![j] = QueuedRow(k, key, group, delay)] : j \in FreeRows(table)}

\* Mutant: only a tick that succeeded enqueues the next one.
AfterEnding_onSuccess(table, j, row) ==
    LET endedTable == [table EXCEPT ![j] = row]
    IN  IF isTick(row) /\ row.status = "succeeded"
        THEN AfterEnqueue(endedTable, row.kind, row.key, Null, Every[row.kind])
        ELSE {endedTable}

\* enqueueTickAfter: ending a tick enqueues the next one in the same transaction.
AfterEnding(table, j, row) ==
    LET endedTable == [table EXCEPT ![j] = row]
    IN  IF isTick(row) /\ Ended(row)
        THEN AfterEnqueue(endedTable, row.kind, row.key, Null, Every[row.kind])
        ELSE {endedTable}

-----------------------------------------------------------------------------
\* What the rest of the product does to the queue.
EnqueueJob(k, key, group, delay) ==
    /\ \E table \in AfterEnqueue(jobs, k, key, group, delay) :
          /\ table # jobs
          /\ Commit(table)
    /\ UNCHANGED <<run, active, mode, pass, stops, gaveUp>>

\* withdraw deletes the queued job of a dedupe key.
Withdraw(k, key) ==
    /\ \E j \in Jobs :
          /\ jobs[j].status = "queued" /\ jobs[j].kind = k /\ jobs[j].key = key
          /\ Commit([jobs EXCEPT ![j] = NoRow])
    /\ UNCHANGED <<run, active, mode, pass, stops, gaveUp>>

\* pruneEndedJobs.  How long ago a job ended is left open: retention is days, leases seconds.
PruneEndedJobs(j) ==
    /\ Ended(jobs[j])
    /\ ~(jobs[j].status = "dead" /\ jobs[j].key \in KeptKeys)
    /\ Commit([jobs EXCEPT ![j] = NoRow])
    /\ gaveUp' = [gaveUp EXCEPT ![j] = FALSE]
    /\ UNCHANGED <<run, active, mode, pass, stops>>

\* Mutant: the job is queued again and its subject stays given up.
RetryJob_subjectForgotten(j) ==
    /\ jobs[j].status \in {"failed", "dead"}
    /\ jobs[j].key # Null => LiveUnder(jobs, jobs[j].kind, jobs[j].key) = {}
    /\ jobs[j].kind \in Retryable
    /\ Commit([jobs EXCEPT ![j] = requeued(@)])
    /\ UNCHANGED <<run, active, mode, pass, stops, gaveUp>>

\* JobAdminWorkflow.retry: the job is queued and its subject put back in one transaction.  A
\* superseded job, a kind without a retry and a subject that cannot be restored roll it back.
RetryJob(j) ==
    /\ jobs[j].status \in {"failed", "dead"}
    /\ jobs[j].key # Null => LiveUnder(jobs, jobs[j].kind, jobs[j].key) = {}
    /\ jobs[j].kind \in Retryable
    /\ Commit([jobs EXCEPT ![j] = requeued(@)])
    /\ gaveUp' = [gaveUp EXCEPT ![j] = FALSE]
    /\ UNCHANGED <<run, active, mode, pass, stops>>

\* The clock of the database moves on.
ClockTick ==
    /\ \E j \in Jobs : aged(jobs[j]) # jobs[j]
    /\ Commit([j \in Jobs |-> aged(jobs[j])])
    /\ UNCHANGED <<run, active, mode, pass, stops, gaveUp>>

-----------------------------------------------------------------------------
\* One pass of a worker.

Serves(w) == mode[w] \in {"starting", "up"}

Passing(w) == pass[w].stage # "off"

\* ensureSchedules for one schedule: the tick exists afterwards.  The first check of a process
\* also makes a waiting tick due (dueAtStart).
EnsureSchedule(w, k) ==
    /\ Serves(w) /\ ~Passing(w) /\ k \in Scheduled
    /\ \E table \in AfterEnqueue(jobs, k, scheduleDedupeKey(k), Null, 0) :
          /\ Commit(IF mode[w] = "starting" /\ k \in DueAtStart
                    THEN [j \in Jobs |-> IF /\ isTick(table[j]) /\ table[j].kind = k
                                            /\ table[j].status = "queued"
                                         THEN [table[j] EXCEPT !.wait = 0]
                                         ELSE table[j]]
                    ELSE table)
          /\ jobs' # jobs
    /\ UNCHANGED <<run, active, mode, pass, stops, gaveUp>>

\* listKindsWithWork, the read that starts a pass.
KindsWithWork ==
    {k \in Kinds : \E j \in Jobs :
        /\ jobs[j].kind = k
        /\ \/ jobs[j].status = "queued" /\ jobs[j].wait <= 0
           \/ LeaseExpired(jobs[j])}

\* What the first check of the schedules leaves.
TickReady(k) ==
    LET ticks == LiveUnder(jobs, k, scheduleDedupeKey(k))
    IN  ticks # {} /\ (k \in DueAtStart => \A j \in ticks : jobs[j].wait <= 0)

PassBegin(w) ==
    /\ Serves(w) /\ ~Passing(w)
    /\ mode[w] = "starting" => \A k \in Scheduled : TickReady(k)
    /\ mode' = [mode EXCEPT ![w] = "up"]
    /\ pass' = [pass EXCEPT ![w] = [NoPass EXCEPT !.stage = "next", !.todo = KindsWithWork]]
    /\ UNCHANGED <<jobs, run, active, stops, writer, gaveUp>>

\* Tokens nobody refers to any more.
FreshRuns == {r \in Runs : run[r].phase = "idle" /\ \A j \in Jobs : jobs[j].token # r}

\* The entries of the active map that count against a worker's slots.
ActiveOf(w, k) == {j \in Jobs : active[w][j] # Null /\ run[active[w][j]].kind = k}

Due(table, k) ==
    {j \in Jobs : table[j].status = "queued" /\ table[j].kind = k /\ table[j].wait <= 0}

\* The claim loop's limit per concurrency key, with the rows of S claimed.
FitsKey(table, k, S, j) ==
    table[j].group = Null \/
    Cardinality({i \in RunningOf(table, k) \cup S : table[i].group = table[j].group}) <= PerKey[k]

\* The sets of rows one claim can take: up to the free slots, each within both limits, and the
\* loop only stops early when no further candidate fits.
Claimable(w, k, table) ==
    LET free == {n \in 0..Cardinality(FreshRuns) :
                    /\ n + Cardinality(ActiveOf(w, k)) <= Slots[w][k]
                    /\ n + Cardinality(RunningOf(table, k)) <= Global[k]}
    IN  {S \in SUBSET Due(table, k) :
            /\ S = {} \/ Cardinality(S) \in free
            /\ \A j \in S : FitsKey(table, k, S, j)
            /\ \A j \in Due(table, k) \ S :
                  \/ Cardinality(S) + 1 \notin free
                  \/ ~FitsKey(table, k, S \cup {j}, j)}

\* claimJobs, under the kind's advisory lock, and run() for every row it returns.  Recovery
\* waits for the row locks of open transactions.
ClaimJobs(w, k) ==
    LET table == [j \in Jobs |-> IF jobs[j].kind = k THEN recovered(jobs[j]) ELSE jobs[j]]
    IN  /\ pass[w].stage = "next" /\ k \in pass[w].todo /\ Slots[w][k] > 0
        /\ \A j \in Jobs : jobs[j].kind = k /\ recoverable(jobs[j]) => ~RowLocked(j)
        /\ \E S \in Claimable(w, k, table) : \E token \in [S -> FreshRuns] :
              /\ \A i, j \in S : token[i] = token[j] => i = j
              /\ Commit([j \in Jobs |-> IF j \in S THEN claimed(table[j], token[j])
                                        ELSE table[j]])
              /\ run' = [r \in Runs |->
                    IF \E j \in S : token[j] = r
                    THEN LET j == CHOOSE i \in S : token[i] = r
                         IN  [NoRun EXCEPT !.phase = "running", !.worker = w, !.job = j,
                                           !.kind = k, !.attempt = table[j].attempts + 1]
                    ELSE run[r]]
              /\ active' = [active EXCEPT ![w] = [j \in Jobs |->
                                IF j \in S THEN token[j] ELSE @[j]]]
        /\ pass' = [pass EXCEPT ![w].stage = "list", ![w].todo = @ \ {k}, ![w].at = k]
        /\ UNCHANGED <<mode, stops, gaveUp>>

\* A burial has no slots: the process claims nothing of the kind.
SkipClaim(w, k) ==
    /\ pass[w].stage = "next" /\ k \in pass[w].todo /\ Slots[w][k] = 0
    /\ pass' = [pass EXCEPT ![w].stage = "list", ![w].todo = @ \ {k}, ![w].at = k]
    /\ UNCHANGED <<jobs, run, active, mode, stops, writer, gaveUp>>

\* listExhaustedJobIds: a read outside the transactions that bury.
ListExhausted(w) ==
    /\ pass[w].stage = "list"
    /\ pass' = [pass EXCEPT ![w].stage = "bury",
                            ![w].doomed = {j \in Jobs : /\ jobs[j].kind = pass[w].at
                                                        /\ exhausted(jobs[j])}]
    /\ UNCHANGED <<jobs, run, active, mode, stops, writer, gaveUp>>

\* bury: lockExhaustedJob checks the listed job again.  A tick fails; any other job is dead, with
\* its onExhausted or, when that threw and rolled back, without.
Bury(w, j) ==
    /\ pass[w].stage = "bury" /\ j \in pass[w].doomed /\ ~RowLocked(j)
    /\ pass' = [pass EXCEPT ![w].doomed = @ \ {j}]
    /\ IF exhausted(jobs[j])
       THEN /\ \E table \in AfterEnding(jobs, j,
                   ended(jobs[j], IF isTick(jobs[j]) THEN "failed" ELSE "dead")) : Commit(table)
            /\ \E ok \in BOOLEAN :
                  gaveUp' = [gaveUp EXCEPT ![j] = ok /\ ~isTick(jobs[j])]
       ELSE UNCHANGED <<jobs, writer, gaveUp>>
    /\ UNCHANGED <<run, active, mode, stops>>

BuryDone(w) ==
    /\ pass[w].stage = "bury" /\ pass[w].doomed = {}
    /\ pass' = [pass EXCEPT ![w].stage = "next", ![w].at = Null]
    /\ UNCHANGED <<jobs, run, active, mode, stops, writer, gaveUp>>

\* The poll of one kind fails: the pass goes on with the next kind.
PollFails(w) ==
    /\ DbFails
    /\ \/ /\ pass[w].stage \in {"list", "bury"}
          /\ pass' = [pass EXCEPT ![w] = [NoPass EXCEPT !.stage = "next", !.todo = pass[w].todo]]
       \/ /\ pass[w].stage = "next"
          /\ \E k \in pass[w].todo : pass' = [pass EXCEPT ![w].todo = @ \ {k}]
    /\ UNCHANGED <<jobs, run, active, mode, stops, writer, gaveUp>>

\* Mutant: nothing waits for releaseActive.
AllReleased_notAwaited(w) == TRUE

\* Every entry of the active map went through releaseActive.
AllReleased(w) == \A j \in Jobs : active[w][j] # Null => run[active[w][j]].released

\* The end of a pass.  A worker that was told to stop meanwhile first gives back what it holds.
PassEnd(w) ==
    /\ pass[w].stage = "next" /\ pass[w].todo = {}
    /\ mode[w] = "stopping" => AllReleased(w)
    /\ pass' = [pass EXCEPT ![w] = NoPass]
    /\ UNCHANGED <<jobs, run, active, mode, stops, writer, gaveUp>>

-----------------------------------------------------------------------------
\* One attempt.

Held(r) == heldBy(jobs[run[r].job], r)

\* beat: an expired lease is never renewed.  A heartbeat behind an open transaction's lock waits.
HeartbeatJob(r) ==
    /\ run[r].phase = "running" /\ ~run[r].released /\ Held(r)
    /\ Commit([jobs EXCEPT ![run[r].job] = renewed(@)])
    /\ jobs' # jobs
    /\ UNCHANGED <<run, active, mode, pass, stops, gaveUp>>

\* control.transaction takes the row lock while the lease is held, or throws JobLeaseLostError.
TxBegin(r) ==
    /\ run[r].phase = "running" /\ Held(r)
    /\ run' = [run EXCEPT ![r].phase = "tx"]
    /\ UNCHANGED <<jobs, active, mode, pass, stops, writer, gaveUp>>

\* It commits the handler's writes and leaves the lease renewed, even when it ran out meanwhile
\* (renewLockedJobLease asks for the id and the token only).
TxCommit(r) ==
    LET j == run[r].job
    IN  /\ run[r].phase = "tx"
        /\ jobs' = [jobs EXCEPT ![j] = IF @.token = r THEN renewed(@) ELSE @]
        /\ writer' = [writer EXCEPT ![j] = r]
        /\ run' = [run EXCEPT ![r].phase = "running"]
        /\ UNCHANGED <<active, mode, pass, stops, gaveUp>>

\* The handler's own work in the transaction fails: nothing is written, the lease is not renewed.
TxRollback(r) ==
    /\ run[r].phase = "tx"
    /\ run' = [run EXCEPT ![r].phase = "running"]
    /\ UNCHANGED <<jobs, active, mode, pass, stops, writer, gaveUp>>

\* outcomeOfFailure, from the row as it was claimed.
outcomeOfFailure(r, nonRetryable) ==
    IF nonRetryable \/ run[r].kind \in Scheduled THEN "failed"
    ELSE IF run[r].attempt < MaxAttempts[run[r].kind] THEN "retry"
    ELSE "exhausted"

\* The handler returns or throws; the heartbeat stops and the outcome is fixed.  A throw while
\* the worker is stopping is no failure of the job, unless the worker drains.
HandlerEnds(r) ==
    /\ run[r].phase = "running"
    /\ \E outcome \in {"succeeded"} \cup
                      (IF mode[run[r].worker] = "stopping" THEN {"released"}
                       ELSE {outcomeOfFailure(r, n) : n \in BOOLEAN}) :
          run' = [run EXCEPT ![r].phase = "settling", ![r].outcome = outcome]
    /\ UNCHANGED <<jobs, active, mode, pass, stops, writer, gaveUp>>

\* The finally of run(): the entry of the job leaves the active map, whichever attempt put it
\* there.
Finish(r) ==
    /\ run' = [run EXCEPT ![r] = NoRun]
    /\ active' = [active EXCEPT ![run[r].worker][run[r].job] = Null]

\* The row after an ending that runs no onExhausted.
EndingRow(row, outcome) ==
    CASE outcome = "succeeded" -> ended(row, "succeeded")
      [] outcome = "failed"    -> ended(row, "failed")
      [] outcome = "retry"     -> retried(row)
      [] outcome = "released"  -> released(row)

\* settle: one transaction locks the row, checks the lease, ends the attempt and, for a tick,
\* enqueues the next one.  Nothing is written when the lease was lost.
Settle(r) ==
    /\ run[r].phase = "settling" /\ run[r].outcome # "exhausted"
    /\ IF Held(r)
       THEN \E table \in AfterEnding(jobs, run[r].job,
                                     EndingRow(jobs[run[r].job], run[r].outcome)) : Commit(table)
       ELSE UNCHANGED <<jobs, writer>>
    /\ Finish(r)
    /\ UNCHANGED <<mode, pass, stops, gaveUp>>

\* settle of the last attempt's failure: onExhausted commits with the dead job.
SettleExhausted(r) ==
    /\ run[r].phase = "settling" /\ run[r].outcome = "exhausted"
    /\ IF Held(r)
       THEN /\ Commit([jobs EXCEPT ![run[r].job] = ended(@, "dead")])
            /\ gaveUp' = [gaveUp EXCEPT ![run[r].job] = TRUE]
       ELSE UNCHANGED <<jobs, writer, gaveUp>>
    /\ Finish(r)
    /\ UNCHANGED <<mode, pass, stops>>

\* onExhausted throws: its transaction rolled back, and the job is buried in another one.
OnExhaustedFails(r) ==
    /\ run[r].phase = "settling" /\ run[r].outcome = "exhausted" /\ Held(r)
    /\ run' = [run EXCEPT ![r].phase = "burying"]
    /\ UNCHANGED <<jobs, active, mode, pass, stops, writer, gaveUp>>

SettleOrBury(r) ==
    /\ run[r].phase = "burying"
    /\ IF Held(r)
       THEN Commit([jobs EXCEPT ![run[r].job] = ended(@, "dead")])
       ELSE UNCHANGED <<jobs, writer>>
    /\ Finish(r)
    /\ UNCHANGED <<mode, pass, stops, gaveUp>>

\* The attempt could not be ended; its lease will expire.
SettleFails(r) ==
    /\ DbFails
    /\ run[r].phase \in {"settling", "burying"}
    /\ Finish(r)
    /\ UNCHANGED <<jobs, mode, pass, stops, writer, gaveUp>>

-----------------------------------------------------------------------------
\* The life of a worker process.

\* stop(): with a drain the jobs may still end on their own.
Stop(w, drain) ==
    /\ Serves(w) /\ stops < MaxStops
    /\ mode' = [mode EXCEPT ![w] = IF drain THEN "draining" ELSE "stopping"]
    /\ stops' = stops + 1
    /\ UNCHANGED <<jobs, run, active, pass, writer, gaveUp>>

\* shutDown after the drain: all ended, the time is over or a second stop() cut it.
DrainEnds(w) ==
    /\ mode[w] = "draining" /\ ~Passing(w)
    /\ mode' = [mode EXCEPT ![w] = "stopping"]
    /\ UNCHANGED <<jobs, run, active, pass, stops, writer, gaveUp>>

\* releaseActive for one entry: the heartbeat stops and the job is settled as released, while
\* its handler may still run.
ReleaseActive(w, j) ==
    LET r == active[w][j]
    IN  /\ mode[w] = "stopping" /\ r # Null
        /\ pass[w].stage = "off" \/ (pass[w].stage = "next" /\ pass[w].todo = {})
        /\ ~run[r].released /\ ~RowLocked(j)
        /\ run' = [run EXCEPT ![r].released = TRUE]
        /\ \/ Commit(IF Held(r) THEN [jobs EXCEPT ![j] = released(@)] ELSE jobs)
           \/ DbFails /\ UNCHANGED <<jobs, writer>>
        /\ UNCHANGED <<active, mode, pass, stops, gaveUp>>

\* What a process that is gone leaves: the rows only.  The database rolls its transactions back.
Gone(w, how) ==
    /\ mode' = [mode EXCEPT ![w] = how]
    /\ run' = [r \in Runs |-> IF run[r].worker = w THEN NoRun ELSE run[r]]
    /\ active' = [active EXCEPT ![w] = [j \in Jobs |-> Null]]
    /\ pass' = [pass EXCEPT ![w] = NoPass]
    /\ UNCHANGED <<jobs, writer, gaveUp>>

\* shutDown resolved, after which the process exits.
Exit(w) ==
    /\ mode[w] = "stopping" /\ ~Passing(w) /\ AllReleased(w)
    /\ Gone(w, "stopped")
    /\ UNCHANGED stops

Crash(w) ==
    /\ mode[w] \notin {"stopped", "crashed"}
    /\ stops < MaxStops
    /\ Gone(w, "crashed")
    /\ stops' = stops + 1

\* The process supervisor starts the process again, with a new worker id.
Restart(w) ==
    /\ mode[w] \in {"stopped", "crashed"}
    /\ mode' = [mode EXCEPT ![w] = "starting"]
    /\ UNCHANGED <<jobs, run, active, pass, stops, writer, gaveUp>>

-----------------------------------------------------------------------------
Callers ==
    \/ \E q \in Requests : EnqueueJob(q.kind, q.key, q.group, q.delay)
    \/ \E k \in Kinds, key \in Keys : Withdraw(k, key)
    \/ \E j \in Jobs : PruneEndedJobs(j) \/ RetryJob(j)

OnePass(w) ==
    \/ PassBegin(w) \/ ListExhausted(w) \/ BuryDone(w) \/ PollFails(w) \/ PassEnd(w)
    \/ \E k \in Kinds : EnsureSchedule(w, k) \/ ClaimJobs(w, k) \/ SkipClaim(w, k)
    \/ \E j \in Jobs : Bury(w, j)

Attempt(r) ==
    \/ HeartbeatJob(r) \/ TxBegin(r) \/ TxCommit(r) \/ TxRollback(r) \/ HandlerEnds(r)
    \/ Settle(r) \/ SettleExhausted(r) \/ OnExhaustedFails(r) \/ SettleOrBury(r)
    \/ SettleFails(r)

Process(w) ==
    \/ \E drain \in BOOLEAN : Stop(w, drain)
    \/ DrainEnds(w) \/ Exit(w) \/ Crash(w) \/ Restart(w)
    \/ \E j \in Jobs : ReleaseActive(w, j)

Next ==
    \/ Callers
    \/ ClockTick
    \/ \E w \in Workers : OnePass(w) \/ Process(w)
    \/ \E r \in Runs : Attempt(r)

Spec == Init /\ [][Next]_vars

\* The steps of a worker that nothing but its own event loop has to wait for.
PassStep(w) ==
    \/ PassBegin(w) \/ ListExhausted(w) \/ BuryDone(w) \/ PassEnd(w)
    \/ \E k \in Kinds : EnsureSchedule(w, k) \/ ClaimJobs(w, k) \/ SkipClaim(w, k)
    \/ \E j \in Jobs : Bury(w, j)

\* The loop polls every second and the process supervisor restarts what stopped.  A step that
\* waits for a row lock gets it in the end (SF): Postgres queues the waiters.  Handlers end, as
\* the kinds' time limits and the abort signal see to, and so do their transactions.  Retention
\* prunes ended jobs, without which the model runs out of ids.
Fairness ==
    /\ WF_vars(ClockTick)
    /\ \A j \in Jobs : WF_vars(PruneEndedJobs(j))
    /\ \A w \in Workers :
          /\ SF_vars(PassStep(w))
          /\ WF_vars(DrainEnds(w) \/ Exit(w) \/ Restart(w) \/ \E j \in Jobs : ReleaseActive(w, j))
    /\ \A r \in Runs :
          /\ SF_vars(HandlerEnds(r))
          /\ WF_vars(TxCommit(r) \/ TxRollback(r))
          /\ WF_vars(Settle(r) \/ SettleExhausted(r) \/ SettleOrBury(r))

FairSpec == Spec /\ Fairness

-----------------------------------------------------------------------------
\* Both concurrency limits hold across every worker of the instance (claimJobs), although each
\* worker counts on its own and expired attempts keep counting until they are recovered.
ConcurrencyLimits ==
    \A k \in Kinds :
        LET running == {j \in Jobs : jobs[j].status = "running" /\ jobs[j].kind = k}
        IN  /\ Cardinality(running) <= Global[k]
            /\ \A g \in Groups : Cardinality({j \in running : jobs[j].group = g}) <= PerKey[k]

\* One live job per dedupe key of a kind, whoever enqueues, retries or ends jobs; so a schedule
\* has one tick at a time.
OneLivePerKey ==
    \A i, j \in Jobs :
        /\ Live(jobs[i]) /\ Live(jobs[j])
        /\ jobs[i].kind = jobs[j].kind /\ jobs[i].key = jobs[j].key /\ jobs[i].key # Null
        => i = j

\* A queued job has an attempt left, a running one has been counted, a dead one has used them up
\* and is no tick: no job makes more attempts than its kind allows and none dies before, through
\* retries, recoveries and released attempts.
AttemptsAccounted ==
    \A j \in Jobs :
        /\ jobs[j].status = "queued" => jobs[j].attempts < MaxAttempts[jobs[j].kind]
        /\ jobs[j].status = "running" => jobs[j].attempts \in 1..MaxAttempts[jobs[j].kind]
        /\ jobs[j].status = "dead" =>
              jobs[j].attempts = MaxAttempts[jobs[j].kind] /\ ~isTick(jobs[j])

\* An attempt that was taken over changes nothing: what was written on a job's subject since its
\* lease last changed hands was written by the attempt that has the lease.
FencedWrites == \A j \in Jobs : writer[j] # Null => jobs[j].token = writer[j]

\* onExhausted commits with the dead job and the retry that queues the job again takes it back:
\* a subject is never given up while its job may still run.
GivenUpIsDead == \A j \in Jobs : gaveUp[j] => jobs[j].status = "dead"

\* A worker that stops in an orderly way leaves no lease of its own behind (releaseActive gives
\* back what is still held): nobody has to wait for it to expire.
StopReleasesLeases ==
    [][\A w \in Workers : mode[w] = "stopping" /\ mode'[w] = "stopped" =>
        \A r \in Runs : run[r].worker = w => ~Held(r)]_vars

\* What ties an attempt to its row, and the reason the properties above hold.  A row is leased
\* exactly while it runs, one token leases one row, and while it does the attempt's copy of the
\* row (its kind and its count) is the row; an open transaction has the lease throughout; an
\* outcome was worked out from that copy; an entry of the active map is an attempt that has not
\* ended, of that worker and on that job.
LeaseDiscipline ==
    /\ \A j \in Jobs : jobs[j].status = "running" <=> jobs[j].token # Null
    /\ \A i, j \in Jobs : jobs[i].token = jobs[j].token /\ jobs[i].token # Null => i = j
    /\ \A r \in Runs, j \in Jobs :
          run[r].phase # "idle" /\ jobs[j].token = r =>
              run[r].job = j /\ run[r].kind = jobs[j].kind /\ run[r].attempt = jobs[j].attempts
    /\ \A r \in Runs : run[r].phase = "tx" => jobs[run[r].job].token = r
    /\ \A r \in Runs :
          /\ run[r].phase = "settling" => run[r].outcome # "none"
          /\ run[r].phase = "burying" => run[r].outcome = "exhausted"
          /\ run[r].outcome = "retry" => run[r].attempt < MaxAttempts[run[r].kind]
          /\ run[r].outcome = "exhausted" =>
                run[r].attempt >= MaxAttempts[run[r].kind] /\ run[r].kind \notin Scheduled
    /\ \A w \in Workers, j \in Jobs, r \in Runs : active[w][j] = r =>
          run[r].phase # "idle" /\ run[r].worker = w /\ run[r].job = j

\* A job that no schedule runs does not stay queued or running for ever, whatever its attempts
\* meet: crashes between any two steps, lost leases, failing handlers, a worker that stops.
EveryJobEnds ==
    \A j \in Jobs : Live(jobs[j]) /\ ~isTick(jobs[j]) ~> ~Live(jobs[j])

\* A schedule never falls silent: again and again one of its ticks waits, and again and again one
\* runs under a lease.  A tick left running by a dead process would break the chain.
TicksKeepRunning ==
    \A k \in Scheduled :
        /\ []<>(\E j \in Jobs : jobs[j].kind = k /\ jobs[j].status = "queued")
        /\ []<>(\E j \in Jobs : jobs[j].kind = k /\ jobs[j].status = "running"
                                /\ jobs[j].lease > 0)

\* A worker never runs more attempts of a kind than it has slots for it, as its pass means to ensure.
\* This does not hold with two slots: the map of active jobs is keyed by job, so an attempt that
\* lost its lease and still runs is no longer counted once the same worker claims its job again.
SlotsHold ==
    \A w \in Workers, k \in Kinds :
        Cardinality({r \in Runs : run[r].worker = w /\ run[r].kind = k}) <= Slots[w][k]
=============================================================================
