------------------------------ MODULE AgentRun ------------------------------
(***************************************************************************)
(* The runs of a conversation across processes: the API that accepts and   *)
(* cancels them (prepareConversationRunStart, requestAgentRunCancellation),*)
(* the agent_run.execute jobs whose attempts claim and end them, the       *)
(* upkeep tick of packages/core/src/agent-run-jobs.ts, and, while a        *)
(* deploy rolls, a worker and an API of the previous release.  What one    *)
(* attempt does between its claim of the run and its end is RunExecution;  *)
(* here it ends the run or throws.  The job's rows are those of JobStore,  *)
(* with the run's id as the dedupe key.                                    *)
(***************************************************************************)
EXTENDS JobStore, Sequences

CONSTANTS
    AgentRuns,        \* the runs of the conversation
    Execute,          \* the kind agent_run.execute
    Upkeeps,          \* the upkeep ticks that may run at once: one, and one taken over
    Previous,         \* the worker of the previous release: its owner id and its lease token
    PreviousRelease,  \* whether the previous release still runs
    MaxQueued,        \* AGENT_RUN_MAX_QUEUED_MS
    DbFails,          \* whether a transaction may fail
    MaxStops          \* bound: how often an attempt's process stops or dies

ASSUME AgentRunConstants ==
    /\ Kinds = {Execute} /\ Scheduled = {} /\ Keys = AgentRuns
    /\ MaxAttempts[Execute] = 1
    /\ Previous \notin Runs \cup Jobs \cup {Null}
    /\ MaxQueued \in Nat \ {0} /\ MaxStops \in Nat
    /\ {PreviousRelease, DbFails} \subseteq BOOLEAN

INSTANCE AgentRunStore

VARIABLES
    jobs,      \* platform_jobs of the kind agent_run.execute
    runs,      \* agent_runs
    att,       \* the attempts of the jobs, by lease token
    upkeep,    \* the upkeep ticks: whether one runs and the runs it still gives a job
    stops,     \* how often an attempt's process stopped or died
    executors  \* history: the attempts that were given each run to execute

vars == <<jobs, runs, att, upkeep, stops, executors>>

Attempt == [phase: {"idle", "claiming", "executing", "settling"}, job: Jobs \cup {Null},
            run: AgentRuns \cup {Null}, outcome: {"none", "succeeded", "exhausted", "released"},
            released: BOOLEAN]

NoAttempt ==
    [phase |-> "idle", job |-> Null, run |-> Null, outcome |-> "none", released |-> FALSE]

TypeOK ==
    /\ jobs \in [Jobs -> JobRow]
    /\ runs \in [AgentRuns -> AgentRunRow(Jobs \cup {Previous}, Runs \cup {Previous})]
    /\ att \in [Runs -> Attempt]
    /\ upkeep \in [Upkeeps -> [on: BOOLEAN, todo: SUBSET AgentRuns]]
    /\ stops \in Nat
    /\ executors \in [AgentRuns -> SUBSET (Runs \cup {Previous})]
    /\ \A j \in Jobs : jobs[j].status # "none" => jobs[j].kind = Execute /\ jobs[j].key \in Keys
    /\ \A r \in Runs : att[r].phase # "idle" => att[r].job \in Jobs /\ att[r].run \in AgentRuns

Init ==
    /\ jobs = [j \in Jobs |-> NoRow]
    /\ runs = [a \in AgentRuns |-> NoAgentRun]
    /\ att = [r \in Runs |-> NoAttempt]
    /\ upkeep = [u \in Upkeeps |-> [on |-> FALSE, todo |-> {}]]
    /\ stops = 0
    /\ executors = [a \in AgentRuns |-> {}]

-----------------------------------------------------------------------------
\* The runs after failLostAgentRun for a job: a queued run, an ended run and a run that someone
\* else holds under a live lease are left as they are.
failLostRun(a, j) ==
    IF runs[a].status \in STARTED_STATUSES /\ ~heldByAnother(runs[a], j)
    THEN [runs EXCEPT ![a] = failedRun(@)]
    ELSE runs

LiveJobs(a) == {j \in Jobs : jobs[j].key = a /\ Live(jobs[j])}

\* enqueueJob under the run's dedupe key: nothing is inserted while it has a live job.
EnqueueExecute(a) ==
    IF LiveJobs(a) # {} THEN UNCHANGED jobs
    ELSE \E j \in Jobs :
            /\ jobs[j].status = "none" /\ \A r \in Runs : att[r].job # j
            /\ jobs' = [jobs EXCEPT ![j] = QueuedRow(Execute, a, Null, 0)]

\* The conversation has no run in progress: the check of prepareConversationRunStart under the
\* conversation's lock, and the unique index behind it.
ConversationFree == \A a \in AgentRuns : runs[a].status \notin RUN_IN_PROGRESS_STATUSES

\* prepareConversationRunStart: the run and its job are accepted together.
AcceptRun(a) ==
    /\ runs[a].status = "none" /\ ConversationFree
    /\ runs' = [runs EXCEPT ![a] = acceptedRun]
    /\ EnqueueExecute(a)
    /\ UNCHANGED <<att, upkeep, stops, executors>>

RequestCancellation(a) ==
    /\ runs[a].status \in RUN_IN_PROGRESS_STATUSES
    /\ runs' = [runs EXCEPT ![a] = cancelRequested(@)]
    /\ UNCHANGED <<jobs, att, upkeep, stops, executors>>

\* The clock of the database.
ClockTick ==
    /\ jobs' = [j \in Jobs |-> aged(jobs[j])]
    /\ runs' = [a \in AgentRuns |->
                  [runs[a] EXCEPT !.lease = IF @ > 0 THEN @ - 1 ELSE 0,
                                  !.queuedFor = IF runs[a].status = "queued" /\ @ < MaxQueued
                                                THEN @ + 1 ELSE @]]
    /\ <<jobs, runs>>' # <<jobs, runs>>
    /\ UNCHANGED <<att, upkeep, stops, executors>>

\* pruneEndedJobs, without which the model runs out of ids.
PruneEndedJobs(j) ==
    /\ Ended(jobs[j])
    /\ jobs' = [jobs EXCEPT ![j] = NoRow]
    /\ UNCHANGED <<runs, att, upkeep, stops, executors>>

-----------------------------------------------------------------------------
\* The previous release: it accepts runs without a job, and its worker claims, renews and ends
\* them under a lease of its own on the row.

PreviousAccepts(a) ==
    /\ PreviousRelease /\ runs[a].status = "none" /\ ConversationFree
    /\ runs' = [runs EXCEPT ![a] = acceptedRun]
    /\ UNCHANGED <<jobs, att, upkeep, stops, executors>>

PreviousClaims(a) ==
    /\ PreviousRelease /\ claimableRun(runs[a])
    /\ runs' = [runs EXCEPT ![a] = claimedRun(@, Previous, Previous, LeaseMs[Execute])]
    /\ executors' = [executors EXCEPT ![a] = @ \cup {Previous}]
    /\ UNCHANGED <<jobs, att, upkeep, stops>>

PreviousRenews(a) ==
    /\ PreviousRelease /\ runs[a].lease > 0
    /\ runs' = [runs EXCEPT ![a] = renewedRun(@, Previous, LeaseMs[Execute])]
    /\ runs' # runs
    /\ UNCHANGED <<jobs, att, upkeep, stops, executors>>

PreviousEnds(a) ==
    LET type == IF runs[a].status = "running" THEN "run_completed" ELSE "run_cancelled"
        events == <<[type |-> type, sequence |-> runs[a].lastSequence + 1]>>
    IN  /\ PreviousRelease /\ insertable(runs[a], Previous, events)
        /\ runs' = [runs EXCEPT ![a] = insertedRun(@, events)]
        /\ UNCHANGED <<jobs, att, upkeep, stops, executors>>

-----------------------------------------------------------------------------
\* The attempts of agent_run.execute jobs.

Held(r) == heldBy(jobs[att[r].job], r)

\* claimJobs of some worker with a free slot.
ClaimJob(j, r) ==
    /\ jobs[j].status = "queued" /\ jobs[j].wait <= 0
    /\ att[r] = NoAttempt /\ \A i \in Jobs : jobs[i].token # r
    /\ \A a \in AgentRuns : runs[a].token # r /\ r \notin executors[a]
    /\ jobs' = [jobs EXCEPT ![j] = claimed(@, r)]
    /\ att' = [att EXCEPT ![r] = [NoAttempt EXCEPT !.phase = "claiming", !.job = j,
                                                    !.run = jobs[j].key]]
    /\ UNCHANGED <<runs, upkeep, stops, executors>>

\* The handler's first transaction: claimAgentRunForJob.  Only a queued run is executed.  A run
\* that someone started and left is failed here; a run that ended, or that a worker of the
\* previous release holds, leaves the job nothing to do.  The transaction renews the job's lease.
ClaimAgentRunForJob(r) ==
    LET j == att[r].job  a == att[r].run
    IN  /\ att[r].phase = "claiming" /\ Held(r)
        /\ jobs' = [jobs EXCEPT ![j] = renewed(@)]
        /\ IF claimableRun(runs[a])
           THEN /\ runs' = [runs EXCEPT ![a] = claimedRun(@, j, r, LeaseMs[Execute])]
                /\ executors' = [executors EXCEPT ![a] = @ \cup {r}]
                /\ att' = [att EXCEPT ![r].phase = "executing"]
           ELSE /\ runs' = failLostRun(a, j)
                /\ att' = [att EXCEPT ![r].phase = "settling", ![r].outcome = "succeeded"]
                /\ UNCHANGED executors
        /\ UNCHANGED <<upkeep, stops>>

\* beat: the job's lease and its copy on the run move in one transaction.
HeartbeatJob(r) ==
    /\ att[r].phase \in {"claiming", "executing"} /\ ~att[r].released /\ Held(r)
    /\ jobs' = [jobs EXCEPT ![att[r].job] = renewed(@)]
    /\ runs' = [runs EXCEPT ![att[r].run] = renewedRun(@, r, LeaseMs[Execute])]
    /\ <<jobs, runs>>' # <<jobs, runs>>
    /\ UNCHANGED <<att, upkeep, stops, executors>>

\* appendClaimedAgentRunEnd: the attempt stores the end of the run under the job's lease.  It
\* says cancelled only once it has seen the request.
EndRun(r, type) ==
    LET a == att[r].run
        events == <<[type |-> type, sequence |-> runs[a].lastSequence + 1]>>
    IN  /\ att[r].phase = "executing" /\ Held(r)
        /\ insertable(runs[a], r, events)
        /\ type = "run_cancelled" => runs[a].status = "cancelling"
        /\ runs' = [runs EXCEPT ![a] = insertedRun(@, events)]
        /\ att' = [att EXCEPT ![r].phase = "settling", ![r].outcome = "succeeded"]
        /\ UNCHANGED <<jobs, upkeep, stops, executors>>

\* closeRun finds that someone else ended the run.
FindEnded(r) ==
    /\ att[r].phase = "executing" /\ runs[att[r].run].status \in ENDED_STATUSES
    /\ att' = [att EXCEPT ![r].phase = "settling", ![r].outcome = "succeeded"]
    /\ UNCHANGED <<jobs, runs, upkeep, stops, executors>>

\* The handler throws: the lease is lost, the run could not be ended or a transaction failed.
\* A throw in a stopping worker is no failure of the job.
HandlerThrows(r) ==
    /\ att[r].phase = "executing" \/ (att[r].phase = "claiming" /\ (DbFails \/ ~Held(r)))
    /\ att' = [att EXCEPT ![r].phase = "settling",
                          ![r].outcome = IF att[r].released THEN "released" ELSE "exhausted"]
    /\ UNCHANGED <<jobs, runs, upkeep, stops, executors>>

\* settleOrBury: onExhausted fails the run in the transaction that marks its job dead.  It may
\* fail itself, and then the job is dead without it; or nothing can be settled.
Settle(r) ==
    LET j == att[r].job
        Settles(outcome, row) ==
            Held(r) /\ att[r].outcome = outcome /\ jobs' = [jobs EXCEPT ![j] = row]
    IN  /\ att[r].phase = "settling"
        /\ \/ Settles("succeeded", ended(jobs[j], "succeeded")) /\ UNCHANGED runs
           \/ Settles("released", released(jobs[j])) /\ UNCHANGED runs
           \/ /\ Settles("exhausted", ended(jobs[j], "dead"))
              /\ runs' = failLostRun(att[r].run, j)
           \/ /\ DbFails /\ Settles("exhausted", ended(jobs[j], "dead"))
              /\ UNCHANGED runs
           \/ (~Held(r) \/ DbFails) /\ UNCHANGED <<jobs, runs>>
        /\ att' = [att EXCEPT ![r] = NoAttempt]
        /\ UNCHANGED <<upkeep, stops, executors>>

\* releaseActive of a stopping worker: the job is queued again, the handler may still run.
ReleaseActive(r) ==
    /\ att[r].phase \in {"claiming", "executing"} /\ ~att[r].released
    /\ stops < MaxStops
    /\ att' = [att EXCEPT ![r].released = TRUE]
    /\ jobs' = IF Held(r) THEN [jobs EXCEPT ![att[r].job] = released(@)] ELSE jobs
    /\ stops' = stops + 1
    /\ UNCHANGED <<runs, upkeep, executors>>

Crash(r) ==
    /\ att[r].phase # "idle" /\ stops < MaxStops
    /\ att' = [att EXCEPT ![r] = NoAttempt]
    /\ stops' = stops + 1
    /\ UNCHANGED <<jobs, runs, upkeep, executors>>

\* buryExhausted: the lease ran out on the one attempt.  Any process that is up does it.
BuryExhausted(j) ==
    /\ exhausted(jobs[j])
    /\ jobs' = [jobs EXCEPT ![j] = ended(@, "dead")]
    /\ \/ runs' = failLostRun(jobs[j].key, j)
       \/ DbFails /\ UNCHANGED runs
    /\ UNCHANGED <<att, upkeep, stops, executors>>

-----------------------------------------------------------------------------
\* The upkeep tick.

\* listAgentRunsWithoutJob, a read of its own.
UpkeepBegins(u) ==
    /\ ~upkeep[u].on
    /\ upkeep' = [upkeep EXCEPT ![u] = [on |-> TRUE,
                     todo |-> {a \in AgentRuns : runs[a].status = "queued" /\ LiveJobs(a) = {}}]]
    /\ UNCHANGED <<jobs, runs, att, stops, executors>>

\* A listed run gets a job, whatever became of it since.
UpkeepAdopts(u, a) ==
    /\ a \in upkeep[u].todo
    /\ EnqueueExecute(a)
    /\ upkeep' = [upkeep EXCEPT ![u].todo = @ \ {a}]
    /\ UNCHANGED <<runs, att, stops, executors>>

\* Mutant: a job that waits counts as a worker.
WithoutWorker_noLiveJob(a) ==
    runs[a].status \in STARTED_STATUSES /\ runs[a].lease = 0 /\ LiveJobs(a) = {}

\* failAgentRunsWithoutWorker: the lease on the row ran out and no job of the run is running.
WithoutWorker(a) ==
    /\ runs[a].status \in STARTED_STATUSES /\ runs[a].lease = 0
    /\ \A j \in Jobs : ~(jobs[j].key = a /\ jobs[j].status = "running")

\* failAgentRunsQueuedTooLong.
QueuedTooLong(a) == runs[a].status = "queued" /\ runs[a].queuedFor >= MaxQueued

\* The upkeep's one transaction, after the adoptions.
UpkeepFails(u) ==
    /\ upkeep[u].on /\ upkeep[u].todo = {}
    /\ runs' = [a \in AgentRuns |-> IF WithoutWorker(a) \/ QueuedTooLong(a)
                                    THEN failedRun(runs[a]) ELSE runs[a]]
    /\ upkeep' = [upkeep EXCEPT ![u].on = FALSE]
    /\ UNCHANGED <<jobs, att, stops, executors>>

\* The tick is abandoned: its process is gone or a statement failed.  The next tick starts anew.
UpkeepAbandoned(u) ==
    /\ DbFails /\ upkeep[u].on
    /\ upkeep' = [upkeep EXCEPT ![u] = [on |-> FALSE, todo |-> {}]]
    /\ UNCHANGED <<jobs, runs, att, stops, executors>>

-----------------------------------------------------------------------------
Api == \E a \in AgentRuns : AcceptRun(a) \/ RequestCancellation(a)

PreviousDeploy ==
    \E a \in AgentRuns :
        PreviousAccepts(a) \/ PreviousClaims(a) \/ PreviousRenews(a) \/ PreviousEnds(a)

AttemptStep(r) ==
    \/ \E j \in Jobs : ClaimJob(j, r)
    \/ ClaimAgentRunForJob(r) \/ HeartbeatJob(r) \/ FindEnded(r) \/ HandlerThrows(r) \/ Settle(r)
    \/ \E type \in TerminalEvents : EndRun(r, type)
    \/ ReleaseActive(r) \/ Crash(r)

UpkeepStep(u) ==
    \/ UpkeepBegins(u) \/ UpkeepFails(u) \/ UpkeepAbandoned(u)
    \/ \E a \in AgentRuns : UpkeepAdopts(u, a)

Next ==
    \/ Api \/ PreviousDeploy \/ ClockTick
    \/ \E r \in Runs : AttemptStep(r)
    \/ \E j \in Jobs : PruneEndedJobs(j) \/ BuryExhausted(j)
    \/ \E u \in Upkeeps : UpkeepStep(u)

Spec == Init /\ [][Next]_vars

\* Time passes, the burial and the upkeep's schedule go on in whichever process is up, its ticks
\* do not all fail, and an attempt that executes ends (RunExecution's RunEnds).  No worker has to
\* take a job, and a worker of the previous release that ends nothing does not renew for ever.
FairSpec ==
    /\ Spec
    /\ WF_vars(ClockTick)
    /\ \A j \in Jobs : WF_vars(BuryExhausted(j)) /\ WF_vars(PruneEndedJobs(j))
    /\ \A u \in Upkeeps :
          /\ WF_vars(UpkeepBegins(u)) /\ SF_vars(UpkeepFails(u))
          /\ \A a \in AgentRuns : SF_vars(UpkeepAdopts(u, a))
    /\ \A r \in Runs :
          /\ WF_vars(ClaimAgentRunForJob(r))
          /\ WF_vars(\/ FindEnded(r) \/ HandlerThrows(r)
                     \/ \E type \in TerminalEvents : EndRun(r, type))
          /\ WF_vars(Settle(r))
    /\ \A a \in AgentRuns :
          <>[][~PreviousRenews(a)]_vars \/ []<><<PreviousEnds(a)>>_vars

-----------------------------------------------------------------------------
\* A run is executed at most once, whatever is killed, given back, adopted twice or claimed by a
\* worker of the previous release: only the claim that moves the row from queued to running
\* executes it (claimAgentRunForJob).
ExecutedOnce == \A a \in AgentRuns : Cardinality(executors[a]) <= 1

\* A run that ended stays as it ended: not the burial of a job whose worker was killed between the
\* run's last event and the job's, nor an adoption made from a stale list, nor an attempt that
\* lost its lease touches it again.
EndedIsFinal ==
    [][\A a \in AgentRuns : runs[a].status \in ENDED_STATUSES => runs'[a] = runs[a]]_vars

\* Nobody fails a run that somebody executes: not while a worker of the previous release holds it
\* under a live lease, and not while its attempt holds the job, unless the attempt does it.
HolderKeepsRun ==
    [][\A a \in AgentRuns :
          runs[a].status \in STARTED_STATUSES /\ runs'[a].status = "failed" =>
             /\ ~(runs[a].token = Previous /\ runs[a].lease > 0)
             /\ \A r \in Runs : runs[a].token = r /\ att[r].phase # "idle" /\ Held(r) =>
                   att'[r] # att[r]]_vars

\* Every run that is accepted ends, also when no worker is up, the worker that had it was killed or
\* gave its job back, or its job was buried without onExhausted.
EveryRunEnds ==
    \A a \in AgentRuns :
        runs[a].status \in RUN_IN_PROGRESS_STATUSES ~> runs[a].status \in ENDED_STATUSES

\* Whoever reads the record of the runs sees one run at a time go from queued to its one executor
\* to its end: no burial, adoption or late attempt takes a run back, completes a run that was asked
\* to cancel or has no executor, or touches one that ended.
record ==
    [a \in AgentRuns |->
        [status |-> runs[a].status,
         by |-> IF executors[a] = {} THEN Null ELSE CHOOSE x \in executors[a] : TRUE]]

Record == INSTANCE RunRecord WITH Executors <- Runs \cup {Previous}

ImplementsRunRecord == Record!Spec

\* A queued run that has no job was accepted by an API of the previous release
\* (adoptAgentRunsJob): without one no run waits without a job (prepareConversationRunStart).  This
\* does not hold: the burial of a job whose attempt died before it claimed the run leaves the run
\* queued and without a job, until the upkeep adopts it.
NoRunWaitsWithoutJob ==
    \A a \in AgentRuns : runs[a].status = "queued" => LiveJobs(a) # {}
=============================================================================
