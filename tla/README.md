# Vivd Catalyst in TLA+

Models of the concurrent core of Catalyst, a platform for agent chat instances: the job executor,
agent runs from their start to their end, the usage ledger, calls of operations, approval requests
and the assets they change, the deletion of accounts and workspaces, and retention. TLC checks them
on small instances. For eight of them TLAPS proves the safety properties for every instance, and
three are shown to implement an abstract specification of what they promise. Source paths below are relative to `packages/`.

    cd tla
    tlc -workers 4 -config JobExecutor_fencing.cfg MCJobExecutor   # one run; PROJECT.json lists them
    tlapm JobExecutorProofs.tla                                    # the proofs of one module

- [The system](#the-system)
- [Modules and how they correspond to the code](#modules-and-how-they-correspond-to-the-code)
- [Runs](#runs)
- [Refinement](#refinement)
- [Fairness](#fairness)
- [Proofs](#proofs)
- [Where the code disagrees with its comments](#where-the-code-disagrees-with-its-comments)
- [What is not modelled](#what-is-not-modelled)
- [Plan](#plan)

## The system

An instance is a Postgres database, one or more API processes, and worker processes. They share
nothing but the database: everything that must survive a crash or be seen by another process is a
row, and every hand-over is a conditional `UPDATE`. Any process can be killed at any moment; during
a rolling deploy a process of the previous release works beside the new ones.

### Inventory

| Component | State | Operations | What is hard | What makes it correct |
|---|---|---|---|---|
| **Job executor** `postgres-store/src/jobs` | `platform_jobs`: status, attempts, lease (token, expiry), due time, dedupe and concurrency key. Per process: the map of active jobs, `stopping`, `draining`, the pass | enqueue, withdraw, prune, claim with recovery, heartbeat, handler transaction, settle, bury, schedule ticks, stop, manual retry | leases that expire under a running handler; a crash between any two statements; several workers; last attempts; a stop in the middle of a pass | a lost attempt writes nothing; attempts are counted; limits hold across workers; one live job per key; every job ends; a schedule never falls silent |
| **Agent run execution** `agent-runtime` | in one process: run state, turn loop, consumer, held answer, stop cause; stored: run row, observations, messages | stream the model, call tools, hold and store the answer, cancel, close | four coroutines writing at once; writes that took effect although the call failed; cancellation between two awaits | log and row agree; one answer, stored with the end; nothing stored after the lease is lost; a cancelled run ends as cancelled; every run ends |
| **Agent runs and their jobs** `core/src/agent-run-jobs.ts`, `postgres-store` | `agent_runs` beside `platform_jobs`, with a copy of the job's lease on the run | accept, claim, renew, cancel, end, fail as lost, upkeep (adopt, fail without worker, fail queued too long) | two rows that must agree without one lock; stale lists; two releases at once | a run is executed at most once; an ended run is final; nobody fails a run that somebody executes; every run ends |
| **Start of a run** `chat-server/src/conversations/run-start-workflow.ts` | `run_start_commands` | claim, take over, wait, accept, complete, release | retries and double clicks; requests that hang for longer than their claim; errors after a commit | one run per key; all answers agree |
| **Usage ledger** `usage-governance`, `postgres-usage-ledger.ts` | counters of day and month, usage events, daily sums | admit, settle, record, start counters, release abandoned, reconcile, backfill | many processes at a limit; a day that changes during a call; a late settlement; a previous release that writes events and no counters | limits hold; counters and sums are those of the events; no reservation stays for ever |
| **Deletion** `subject-deletion.ts`, `account-deletion.ts`, `workspace-deletion.ts` | marks on users and workspaces, their jobs | mark, delete conversations, remove, require that runs ended | passes of a request and of a job at once; calls let in before the mark; conversations that move | what is marked is gone in the end; nothing of others is deleted; no stored data without a record that leads to it |
| **Retention** `retention.ts`, `conversation-cleanup.ts` | `retained_until`, deletion marks | list, claim, clean up, retry | a message that extends the retention between list and claim; a cleanup that stops half-way | an active conversation is never expired; all data of an expired one goes |
| **Approval requests** `approval-request-workflow.ts` | request and decision history | decide, withdraw, revert | the handler writes on another connection than the one that locks the request | applied once, exactly if approved; nobody's write is lost |
| **Configuration assets** `postgres-config-asset-operations.ts` | assets, revisions, version and default of the set | batches of create, update, delete, revert | a batch that was validated against a set that changed since | revisions and version guard every batch |
| **Operation runs** `tool-execution/src/run-operation.ts` | `operation_runs` | create under a key, run again, finish, expire, interrupt | a change that happened and could not be recorded; several policies on several targets | at most one execution per key; the record and the answers are true; the strictest policy counts |
| **Shared Workspaces** `collaboration-workspace-workflow.ts` | memberships and roles | add, change role, remove, leave | two who each take the other last owner | an active owner remains |
| **Workspace commands, artifact previews** | rows with a lease of their own beside a job | claim, renew, complete, cancel | as for agent runs, but with several attempts | as for agent runs |
| **Conversations, users, access** | rows | single transactions | – | mostly local |
| **HTTP, UI, providers, connectors, storage, assembly, deployment** | – | I/O | – | – |

How they interact: the API accepts a run and enqueues its job in one transaction; the job executor
claims the job and calls the handler; the handler claims the run under the job's lease and executes
it, and every write of the run reads the job row under a share lock; the executor's heartbeat moves
the lease of both rows; the burial of a job and the upkeep, itself a scheduled job, end runs whose
attempt is lost. Deletion, retention, recovery and reconciliation of usage, workspace commands and
previews are further kinds of job. A run calls the model under an admission of the ledger and
operations under their policy; an operation whose policy asks for approval files a request. A
deletion waits for the runs of its subject and for the cleanup that retention does as well.

The hazards of this code, each at its line and with the properties that would show it going wrong,
are listed in `PROJECT.json`.

## Modules and how they correspond to the code

`PROJECT.json` maps every definition to the lines it models.

| Module | Code | |
|---|---|---|
| `JobStore` | `jobs/store.ts`, `schema/jobs.ts`, `core/src/jobs.ts` | the row of a job and what each statement makes of it; no variables |
| `JobExecutor` | `jobs/worker.ts`, `jobs/store.ts`, `job-admin-workflow.ts` | the processes over these rows |
| `AgentRunStore` | `postgres-agent-run-worker-operations.ts`, `schema/agentRuns.ts` | the row of a run and what each statement makes of it; no variables |
| `RunExecution` | `agent-run-worker.ts`, `run-state.ts`, `local-agent-runtime.ts`, `run/*.ts` | one attempt from the claim of the run to the end of the job |
| `AgentRun` | `core/src/agent-run-jobs.ts` with the stores above | composes `JobStore` and `AgentRunStore`: a run with its jobs, attempts, upkeep and a previous release |
| `RunStart` | `run-start-workflow.ts`, `postgres-agent-run-operations.ts` | the commands of one caller's keys and the requests that use them |
| `UsageLedger` | `usage-governance/src/index.ts`, `postgres-usage-ledger.ts`, `usage-backfill.ts` | calls, reported usage and a previous release over events, counters and sums |
| `OperationRun` | `run-operation.ts`, `operation-policy.ts`, `postgres-operation-run-operations.ts` | calls of operations over the rows of their keys |
| `ConfigAssets` | `postgres-config-asset-operations.ts`, `config-asset-concurrency.ts`, `asset-set.ts` | the store of assets and what a batch makes of it; no variables |
| `ApprovalRequest` | `approval-request-workflow.ts`, `skill-change-approval-handler.ts`, `asset-workflow.ts` | extends `ConfigAssets`: decisions and editors over the store |
| `SubjectDeletion` | `subject-deletion.ts`, `account-deletion.ts`, `workspace-deletion.ts`, `user-deletion.ts`, `retention.ts`, `conversation-cleanup.ts` | subjects, conversations, calls, passes and retention |
| `WorkspaceOwners` | `collaboration-workspace-workflow.ts`, `account-deletion.ts`, `postgres-workspace-deletion.ts` | the owners of one Shared Workspace |
| `IdempotentCall` | | abstract: what a call with a key promises; implemented by `RunStart` and `OperationRun` |
| `RunRecord` | | abstract: what the record of runs promises; implemented by `AgentRun` |
| `JobExecutorProofs`, `RunExecutionProofs`, `AgentRunProofs`, `RunStartProofs`, `OperationRunProofs`, `ApprovalRequestProofs`, `SubjectDeletionProofs`, `UsageLedgerProofs` | | the theorems |
| `MC*` | | instances for TLC |

**JobExecutor.** A database transaction is one step. The exception is `control.transaction`: a
handler keeps it open over calls of its own, so `TxBegin` takes the lock, `TxCommit` or `TxRollback`
gives it back, and meanwhile every statement on the row waits (`RowLocked`) while the clock goes on.
An attempt (`run[r]`) is named by its lease token, which the code draws anew for every claim; a
token is used again once nothing refers to it. Time is relative: `lease` and `wait` of a row count
down together in `ClockTick`, so the model needs no clock and no bound on it. A pass is the sequence
of `onePass`: `PassBegin`, per kind the schedule, the claim and the burial, each listed id in its own
step after `ListExhausted`, then `PassEnd`, which releases what was claimed if the worker is stopping.
`PollFails` is the catch around a kind. `Crash` drops a process with everything in it; an open
transaction rolls back. `writer` and `gaveUp` are history: which attempt wrote the subject since the
lease last changed hands, and whether `onExhausted` gave the subject up.

**RunExecution.** The awaits of JavaScript are where coroutines interleave, so a step runs from one
await to the next, and a write is chosen in one step and meets the database in another. A call may
fail before or after it took effect. The model and the tools are abstracted to the kinds of events
they lead to; the loss of the job (`LoseJob`) is what the executor does to it from outside, and
`FailLostRun` is what other processes then do to the run.

**AgentRun.** Here an attempt only claims the run, ends it, finds it ended, throws, is released or is
killed; `RunExecution` is the detail. The job rows are those of `JobStore` with one attempt per job
and the run as dedupe key. The code of the previous release is not in the repository: it is modelled
from what the comments and the guards of this release say about it, and marked external.

**RunStart.** A request is one call of the API, with a program counter; one that hangs or dies takes
no further step. Each request makes its own run, so a run is named by its request. A claim is an
instant in the code (`updated_at`), here the request that made it: two claims in the same millisecond
are taken to be different. `reclaimPendingBefore` is computed once per request, before it waits; so
only the claim that stands then can be taken over (`before`).

**UsageLedger.** A statement that locks what it changes is one step; one that reads a snapshot and
writes without such a lock is two (`StartCountersReads` and `StartCountersInserts`, `ReconcileReads`
and `ReconcileCommits`). The ledger keeps tokens and cost side by side and writes both alike, so an
amount stands for either. A call whose process died takes no further step, and `Age` lets recovery
take any pending call as abandoned, also one that runs and settles later. `LegacyWrites` is a process
of the previous release. A limit that is not configured is `Null`.

**OperationRun.** Every await of `runOperation` is a step, and each statement may fail before or
after it took effect. A run is named by the request that created it; the row of a key is found by
`HolderOf`, as the unique index finds it. `resolvePolicy` is translated as it is: settings by target,
the strictest of them, guardrails, and the instance default where nothing applies.

**ApprovalRequest.** A decision locks the row of its request over several steps while its handler
reads the version, reads the assets and writes on other connections. `Die` rolls the decision back
and leaves what the handler wrote; `LoseConnection` frees the row while the handler goes on. Editors
read, are validated and write later under the revisions they read.

**SubjectDeletion.** A call is let in by `LetIn` and commits later, so a mark may fall between. A
pass is the sequence of `completeAccountDeletion` or `completeWorkspaceDeletion`; what it throws ends
it (`Ends`), and the job begins anew. `Look` and `DeleteConversation` are two steps because the
conversation is read before its row is locked. Stored data is one bit of a conversation, which
`CleanUp` takes away. `late` and `taken` are history: users a call of whom committed after their
mark, and conversations that a move took from an account after its mark.

**WorkspaceOwners.** Each request takes the lock, reads and writes in steps of its own, as its
statements do; the deletion of an account first lists the workspaces to lock.

## Runs

The bounds are chosen so that each interesting case happens, and are the smallest for which it does.
A counter without a natural bound is bounded in a guard: `MaxStops` (stops and crashes), `MaxEvents`,
`MaxTools`, `LastDay`, `MaxVersion`. `Parties` (which callers meet in one behaviour: two calls, a
call alone, a call with a report or with a legacy writer, and the last two) and `Asked` (whose request makes a pass)
bound the interleaving. The number of jobs and attempts is the size of `Jobs` and `Runs`; rows are pruned and
tokens reused, so behaviours are not cut off when they are used up.

| Run | Instance | Shows |
|---|---|---|
| `jobs_fencing` | 1 job with or without a key, 2 workers, 3 attempts, 2 attempts per job, lease of 2, 1 stop or crash, failing statements | `LeaseDiscipline`, `FencedWrites`, `AttemptsAccounted`, `GivenUpIsDead`. Three attempts let a lost attempt, its successor and a third overlap; two attempts per job reach retry, recovery and burial |
| `jobs_limits` | 2 jobs, 2 workers; a kind with a global limit of 1 and one slot per worker, whose jobs have one of 2 dedupe keys and may be retried by hand; a kind with 2 slots per worker, a global limit of 2 and a limit per concurrency key of 1 | `ConcurrencyLimits`, `OneLivePerKey` with enqueue, withdraw, prune, retry. Two jobs of the first kind exceed its global limit only in the claims of two workers, two of the second its limit per key in one claim as well; neither limit stands in for the other |
| `jobs_liveness` | 1 job, 2 workers of which one has one slot and the other none and only buries, 1 stop or crash | `EveryJobEnds`, `StopReleasesLeases` |
| `jobs_ticks` | 1 schedule, 2 rows, 1 worker, 1 stop or crash | `TicksKeepRunning` |
| `execution_attempt` | 2 streamed events, 1 round of tools, a hold limit of 2; cancel, loss, stop and failing calls | `LogMatchesRow`, `CompletedHasAnswer`, `AnswerEndsRun`, `NothingAfterLoss`, `CancelEndsCancelled`, `RunEnds`. A hold limit of 2 lets an answer overflow it |
| `runs` | 1 run, 2 jobs, 2 attempts, 1 upkeep tick, a previous release, failing statements, 1 stop or death | `ExecutedOnce`, `ImplementsRunRecord`, `HolderKeepsRun`, `EveryRunEnds`. Two jobs are what an adoption beside a late attempt needs; `AgentRunProofs` covers several runs and ticks |
| `start_idempotency` | 2 requests that start and 2 that create, 2 conversations, failing statements | `AcceptedIsRecorded`, `ImplementsIdempotentCall` |
| `usage_ledger` | 3 calls, 1 reported usage, 1 legacy event, 2 days of one month, at most two parties at once (`Parties`); 1 call and 2 tokens a day, 3 tokens a month | `LedgerMatchesEvents`, `NeverOverbooked`, `SettledIsFinal`, `EveryReservationEnds`, `SumsConverge`. Two calls of 2 tokens exceed the calls of a day when they meet on one, the tokens of the month on two, and a call of 3 the tokens of a day by itself: each limit is what refuses a call that the others admit |
| `operations` | 4 calls, 3 of them with one key and one of these of another input, 2 targets, approvals | `ExecutedOnce`, `RecordIsTrue`, `AnswersAgree`, `PolicyKept`, `ImplementsIdempotentCall` |
| `approvals` | 1 request to change a skill or to create one, 2 deciders, 1 editor who writes both with a text of their own, 2 skills and 1 agent, 3 versions | `AppliedOnce`, `DecisionMatchesAssets`, `NothingOverwritten`, `DecidedIsFinal`. Three batches are an application, an edit and a revert in any order; what the edit adds is missing from any change of what was there before it |
| `deletion` | 1 account and 1 Shared Workspace, 1 conversation, 1 call, the job of each and the request of the account | `RemovedHoldsNoData`, `ClaimedWasTheirs`, `ExpiredWasDue`, `GoneUserLeavesNothing`, `MarkedIsDeleted`. One conversation moves between all the places there are |
| `owners` | 2 users, 2 requests | violates `HasActiveOwner` |

Symmetry is used in safety runs only. Where deadlock checking is off the system may really stop: a
run that ended, requests that answered, all versions used, everything deleted. Each property has a
mutant in `PROJECT.json`, a definition changed the way a plausible bug would, for which TLC finds the
property violated. The type invariants are proved. `WorkspaceOwners`, whose only run is a
counterexample, has no proof module and states none.

Some cells deserve a word. `AnswerEndsRun` speaks of the transactions that stored an answer without
ending the run (`unended`, a history variable) and excepts two kinds. One stored more events with the
answer than the hold limit: the code gives the hold up there on purpose and logs it. The other belongs
to a run of which a cancellation began to store the text streamed so far; what that leads to is
described below. `CancelEndsCancelled` excepts a run
whose job is gone or whose handler threw: it is failed as lost, also while it is being cancelled.
`StopReleasesLeases` is checked without failing statements, since a release that fails gives nothing
back. It holds with one slot; with two slots, after the overwritten entry described
below, a stop does not find the lease of the entry that is missing, and the job waits for that lease
to expire. `NeverOverbooked` speaks of what was admitted: reported usage, a settlement above its
reservation and a call that ends after recovery released it may exceed a limit, and the code means
them to. `DecisionMatchesAssets` excepts a refusal beside a decision that went on without its
connection. `ClaimedWasTheirs` excepts a conversation that a move took from the account after its mark, and
`GoneUserLeavesNothing` users of whom a call committed after theirs; both are described below.

## Refinement

`IdempotentCall` is what a call with an idempotency key promises: under one key one thing happens,
once and for good, and nobody is told of anything else. Its state is what happened under each key and
what each call was told. `RunStart` implements it: what happened under a key is the run its completed
command names, and what a request was told is the run it answered with; `claim`, takeover and release
are stutters. `OperationRun` implements it too: what happened under a key is the run whose
implementation was started, and a call is told of it when it answers `done` or `notRetained`.

`RunRecord` is what whoever starts, cancels or reads runs relies on: one run of a conversation at a
time goes from queued to its one executor to its one end. `AgentRun` implements it, with the status
of the row and the executor of each run; jobs, leases, burials, adoptions and the previous release
are stutters.

All three refinements are checked by TLC (`ImplementsIdempotentCall`, `ImplementsRunRecord`) and
proved (`RunStartIsIdempotent`, `OperationIsIdempotent`, `RunRecordIsKept`).

## Fairness

- *Job executor*: time passes, the loop polls, a supervisor restarts what stopped. A step that waits
  for a row lock gets it in the end (strong fairness): Postgres queues the waiters. Handlers end;
  this is the contract of a handler, which is given an abort signal and time limits of its own.
  Ended jobs are pruned by retention. There is no fairness on a crash, a stop, a failing statement or
  a heartbeat: a lease may run out at any time.
- *RunExecution*: calls to the database come back and timers fire. The model and the tools may never
  answer: there is no fairness on the turn loop while it waits for them, so `RunEnds` rests on the
  idle limit. What the end of a job leaves behind is ended by other processes, which is
  `EveryRunEnds` of `AgentRun`.
- *AgentRun*: time passes, and the burial and the upkeep go on in whichever process is up, which is
  `EveryJobEnds` and `TicksKeepRunning` of the executor. No worker has to take a job. An attempt that
  executes ends, which is `RunEnds`. A worker of the previous release does not renew its lease for
  ever without ending its run.
- *UsageLedger*: calls grow old, and recovery, reconciliation and backfill are schedules whose ticks
  keep running (`TicksKeepRunning`). The repair waits for the advisory lock of the scheduled
  reconciliation, which Postgres grants in turn (strong fairness). Nothing is assumed of calls.
- *SubjectDeletion*: a call that was let in commits or fails, a run ends (`EveryRunEnds`), the cleanup
  is retried by retention and succeeds in the end, and the job of a deletion is tried again. A
  conversation that is listed need not be expired, and the pass of a request may stop anywhere. The
  attempt limit of the job is left out: after it, the code relies on an operator's retry.

## Proofs

**JobExecutorProofs.** For any finite sets of jobs and attempts and any workers, kinds, schedules,
limits and number of stops: `TypeOK`, `LeaseDiscipline`, `FencedWrites`, `AttemptsAccounted`,
`GivenUpIsDead`, `OneLivePerKey` and `ConcurrencyLimits` are invariants of `Spec`. Assumed:
`JobStoreConstants` and `JobExecutorConstants`, which say that the limits are natural numbers, that a
kind has at least one attempt and a tick exactly one, that only kinds without a schedule are retried
by hand, and that `Null` is none of the ids.

The conjunction `IInv` of the first five is inductive; none of the safety properties is alone. `FencedWrites` fails
without `LeaseDiscipline`: a transaction that commits writes for the attempt that opened it, and only
because the row lock keeps the lease in place while the transaction is open is that still the holder.
`AttemptsAccounted` needs that the attempt's own copy of the count, from which it computed its outcome, is
the count of the row while the lease is held, and that its kind is that of the row, so that a tick is
never called exhausted. `GivenUpIsDead` needs that the transaction that commits `onExhausted` also
marks the row. The proof goes row by row: lemmas say that each statement of `JobStore` turns a good
row into a good row (`RowOK`) and what it keeps of the lease (`Keeps`); `Preservation` lifts that to
the table, the attempts and the maps; then there is one lemma per group of actions. The other two
are of several rows: a step lets rows go on as they are or admits them under a key that
has no live row (`OneLivePerKey`), and a claim takes no more rows of a kind and of a group than are
free, which is counted with the lemmas on finite sets (`ConcurrencyLimits`).

`StopReleasesLeases` needs two conditions, and the theorems name them. A release that fails gives
nothing back, so `DbFails` is false. And an attempt is given back only if the active map still has it,
so no claim may overwrite an entry: `StopsReleaseTracked` assumes just that of the behaviour
(`EntriesLast`), for any slots, and `StopsRelease` shows that it is so with at most one slot per kind,
where an attempt that lost its lease and still runs occupies the slot its job would need
(`OneSlotLasts`). The invariant is `Tracking`: every attempt that has not ended is in the map of its
worker, its job keeps its kind or is gone, and once released it neither holds its lease nor gets it
back (`Followed` says of each step that no other row an attempt refers to gains a lease).

**RunExecutionProofs.** For any number of streamed events, rounds of tools and messages and any hold
limit: `TypeOK`, `LogMatchesRow`, `CompletedHasAnswer`, `AnswerEndsRun`, `NothingAfterLoss` and
`CancelEndsCancelled` are invariants. Assumed: `RunExecutionConstants` (the limits are natural
numbers; `Null` is neither a message nor a write). The invariant adds to the types what the log says
of the row (`LogOK`), where the answer is (`AnswersOK`: while nobody asked to cancel, an answer is in
exactly one of the held end, the batch of the consumer and the stored answers), what a batch may hold
(`BatchesOK`) and how far a cancellation got in the runtime, the row and the loop (`CancellationOK`).
`AnswerEndsRun` is inductive together with who flushes a hold (`EndInv`): the consumer does when more
events than the limit are in it; the turn loop and the cancellation do only once a cancellation began,
because before that nothing is held until the loop is done (`FlushOK`).
Whatever a coroutine does, it does one of four things to the database (`StoredStep`: nothing, a
request to cancel, the failure as lost, or one accepted batch), so the log is argued about once and
not for each of the coroutines. `AnswersOK` is what the order in the code is for: the event that
completes the run is held until the write that stores the answer, and a write that was refused or
took effect unseen is decided by the row before it is tried again.

**AgentRunProofs.** For any number of runs, jobs, attempts and upkeep ticks, with or without a
previous release: `TypeOK` and `ExecutedOnce` are invariants, `EndedIsFinal` and `HolderKeepsRun` hold
of every step, and `AgentRun` implements `RunRecord`. Assumed: `AgentRunConstants` (one kind of job
with one attempt, keyed by the run; `Previous` is no id of this release). Whatever an action does to
jobs and leases, it does one of five things to the runs (`RunStep`: nothing that counts, accept,
claim, cancel, end); `RunSteps` shows it per action, and `ExecutedOnce`, `EndedIsFinal` and the
refinement follow from it with `RowStates` (no executor before the claim, never two) and
`OneInProgress`. `HolderKeepsRun` needs two more parts of `IInv`: `OneLiveJob` and `OwnLeases` (a lease
that an attempt still has is on the attempt's own run). `WhoFails` lists who takes a started run to
failed; an attempt that executes the run and holds its job has the one live job of the run, so no
other attempt holds it, no burial finds its lease expired and the upkeep finds it running.

**RunStartProofs.** For any requests, keys and conversations: `TypeOK`, `AcceptedIsRecorded` and
`AnswersAgree` are invariants, `CompletedIsFinal` holds of every step, and `RunStart` implements
`IdempotentCall`. Assumed: `RunStartConstants`, that each request has a key and that conversations,
requests and `Null` differ. The inductive invariant adds three facts: a request past its acceptance
has its run (`OnItsWay`), a completed command names an accepted run (`NamesARun`), and only a create
completes its command after the acceptance (`OnlyCreatesComplete`). The argument is that a completed
row never changes again (`CompletedStays`), so it is enough to look at the step that completes it.

**OperationRunProofs.** For any calls, keys, policies and targets: `TypeOK`, `ExecutedOnce`,
`RecordIsTrue`, `AnswersAgree` and `PolicyKept` are invariants, `EndIsFinal` holds of every step, and
`OperationRun` implements `IdempotentCall`. Assumed: `OperationRunConstants`, that `Null` is no value
and that a call has a target. The invariant says who works on a run: a key has one run (`OneRun`), a
run has one worker (`OneWorker`), nobody works on a run that has its outcome or may be run again
(`WorkedOn`), and a worker has called the implementation exactly where it was called (`Executions`);
`ToldDone` and `ToldOtherwise` tie each answer to a run that can no longer contradict it. `PolicyKept`
rests on `resolvePolicy` being the maximum of what applies, which is proved of the operators.

**ApprovalRequestProofs.** For any assets at first, any number of requests for any changes, of people
who decide and of people who edit: `TypeOK`, `AppliedOnce`, `DecisionMatchesAssets` and
`NothingOverwritten` are invariants and `DecidedIsFinal` holds of every step. Assumed:
`ConfigAssetsConstants` and `ApprovalRequestConstants`: names have one kind, `Null` is none of the
values, what editors write is of the right kind, and the assets at first are well formed, valid and of
no request. To the history of the skill of a request every write is one of two things: it passes
(somebody else's revision, or the undoing of the request's own last one: `Passes`) or it is the
request's change (`Applies`). The invariant says that a planned batch is right while the version it
was planned on is the store's (`PlanOK`), that a decision that holds the lock finds the request as it
was (`DecisionOK`), and that what an editor is about to write is no request's (`EditsOK`). So a batch
that passes the version check is the change of what is there now, and a decision beside another is
possible only on a request whose connection was lost. `Effect` is what a step of one decision may do
to the rest; `Preservation` shows once that it keeps the invariant, and one lemma per action that the
action has no other effect. `Follows` is what a change may make of what stood before: a create only
where there is no skill, a replacement only of the text it names. Batches are written as function constructors, because the library's `:>`
and `@@` cannot be expanded in a proof.

**SubjectDeletionProofs.** For any accounts, workspaces, conversations, calls and passes: `TypeOK`,
`RemovedHoldsNoData`, `ClaimedWasTheirs`, `ExpiredWasDue` and `GoneUserLeavesNothing` are invariants.
Assumed: `SubjectDeletionConstants` (accounts, workspaces, `Null` and the names of what else claims a
conversation differ). The
invariant says of conversations, calls and passes what each may rely on (`ConversationsOK`, `CallsOK`,
`PassesOK`): a pass that went past a stage knows that nothing of the subject is left there, since
a marked subject is let into nothing new (`PassesEmpty`). What a step may make of a conversation
without disturbing any pass is stated once (`RowSteady`), and shown of each action. `ClaimedWasTheirs` excepts
what a move took from the account after its mark, and the invariant failed without it: the proof
brought up the moves of others, where the run, with its one account, shows only the user's own late
one (see `taken` below).

**UsageLedgerProofs.** For any finite sets of calls, reports and events of a previous release, any
amounts and limits (or none) and any number of days: `TypeOK`, `LedgerMatchesEvents` and
`NeverOverbooked` are invariants and `SettledIsFinal` holds of every step. Assumed:
`UsageLedgerConstants` (the three sets differ, amounts are natural numbers, `Null` is no amount).
Counters and sums are folds over sets of events. The induction over these sets that their laws need is
made without an induction theorem: of the subsets for which a law fails a finite set has a smallest
one (`SmallestSet`, from the least natural number of a set), and taking an element from it contradicts
that. So `SumRecurrence`, then what a sum does when an element is added, changed or split off, are
lemmas, and each action is one of a few changes of one event. What a counter lacks are events of the
previous release; `CountersOK` adds that the reconciliation under way is about to add some of those
that the counter still lacks (`Drifted`), and `SeenOK` that what `startCounters` read of a period
without a counter is such events as well: callers count before they insert, so such a period has no
others (`UncountedAreLegacy`). The limits follow since what admission compares with them, the counter,
is at least what the calls were admitted with (`BookedIsCounted`, `LimitsAdmit`).

**Only model-checked.** Liveness (`EveryJobEnds`, `TicksKeepRunning`, `RunEnds`, `EveryRunEnds`,
`EveryReservationEnds`, `SumsConverge`, `MarkedIsDeleted`) and whatever needs `ENABLED` are out of the
prover's reach. `HasActiveOwner` does not hold.

## Where the code disagrees with its comments

`owners` states what a comment says and finds it violated. A user who asks to delete their account
while they own nothing locks no workspace. While their request reads, they are made an owner and the
last other owner leaves, which is judged without the mark that is to come; then they are marked, and
the workspace has no active owner. "Whatever can take the last active owner from a workspace (a role
change, a removal, a leave, the deletion of an account) decides under this lock, so two of them at the
same moment are judged one after the other." (`core/src/collaboration-workspace.ts:144`)

The modules state four more such properties, which are part of no run and which TLC refutes within
seconds when they are added to one:

- `SlotsHold` (`jobs_fencing` with `Slots <- TwoSlots`): the active map is keyed by job. When a worker
  claims again a job whose earlier attempt on the same worker lost its lease and still runs, the new
  entry replaces the old one and the next pass counts one handler too few. "Passes of one worker run
  one after another, so each counts its free slots exactly." (`jobs/worker.ts:332`)
- `OneAnswer` (`execution_attempt`): a cancellation that begins while the turn loop awaits the fence
  for its final answer stores the partial text, and the loop stores the full answer as well. "What the
  model wrote so far is stored as the assistant message of the run" (`agent-run-worker.ts:52`)
- `NoAnswerBesideFailedRun` (`execution_attempt`): the same cancellation flushes a held answer so that
  its own message can follow; then the job is lost before the run ends, and the run is failed as lost
  beside the answer. "A worker that is killed at the end of a run leaves either the whole answer with a
  run that ended, or a failed run without the answer, never an answer beside a failed run."
  (`agent-run-worker.ts:219`)
- `NoRunWaitsWithoutJob` (`runs` with `PreviousRelease = FALSE`): a worker dies between the claim of
  the job and the claim of the run; the burial leaves a queued run alone, and the run waits without a
  job until the upkeep adopts it. "no run waits without a job"
  (`postgres-agent-run-operations.ts:265`). The upkeep repairs it: `EveryRunEnds` holds.

"The row of the user goes last and only after everything of theirs is gone"
(`account-deletion.ts:109`) does not hold of a call that was let in before the mark and commits after
the deletion looked; `GoneUserLeavesNothing` excepts it (`late`).

"Removes what belongs to the user alone" (`user-deletion.ts:73`) does not hold of a conversation that
a move takes from the account meanwhile. In the run of `deletion` the move is the user's own: it was
let in before the mark, commits between the pass's look and its delete, and the conversation is deleted
although it is in the Shared Workspace by then. It can be somebody else's conversation, too, which the
proof of `ClaimedWasTheirs` brought up and which takes two users with two calls: a member's request to move a shared conversation into their own workspace is
let in; its creator takes the conversation home, puts it back as private and asks to be deleted; the
pass lists it; the old request commits, since the row is where it was when it was let in
(`postgres-conversation-operations.ts:190`); and the pass, which asks only a Shared Workspace whether
the conversation is still in it, deletes what is now the member's. `ClaimedWasTheirs` excepts it
(`taken`).

One gap contradicts no comment and is listed as a hazard: `create_conversation_run` accepts its run
and completes its command in two transactions. If the second does not happen, a retry with the same
key creates a second conversation with a second run. The requests that answer still name one run.

## What is not modelled

Components without a module are listed with the reason in `PROJECT.json`. Within the modelled ones:

- the run status `waiting_for_permission`; the deletion of a conversation under a run in `AgentRun`
  (`SubjectDeletion` has it, with the run reduced to whether it is in progress);
- payloads of jobs, messages, events and tool results, audit events, log lines, metrics;
- the notifications that wake a worker or a watcher earlier than its timer;
- the tables of other components that a handler writes, which are the history variable `writer`;
- the order in which claims prefer due jobs: any order of due jobs is allowed;
- in `RunStart`, the choice of agent and model, attachments and access, which are one step that
  succeeds or fails, and two claims in one millisecond;
- in `UsageLedger`, tables of prices, reports, budgets of several scopes, and the size of a batch of
  the backfill;
- in `OperationRun`, the validation of inputs and the listing of runs;
- in `ApprovalRequest`, who may decide, notifications, scopes and kinds of asset other than agents and
  skills, and two editors at once;
- in `SubjectDeletion`, orphaned managed files, memberships and access requests, the attribution of
  usage, sign-ins, a cleanup that succeeds in part, batches, and the attempt limit of the job (fifty
  attempts over about ten days, after which an operator retries it);
- in `WorkspaceOwners`, instance administrators and access requests.

Workspace commands and artifact previews have the shape of an agent run with several attempts; the
observation stream, the gateway and the HTTP layer are transport over what is modelled. Rendering,
providers, connectors, storage, authentication, configuration and deployment are I/O or pure
translation without a state of their own, and are most of the repository's lines.

## Plan

Done: `JobStore`, `JobExecutor`; `AgentRunStore`, `RunExecution`; `AgentRun` with `RunRecord`;
`RunStart` and `OperationRun` with `IdempotentCall`; `UsageLedger`; `ConfigAssets`, `ApprovalRequest`;
`SubjectDeletion`, `WorkspaceOwners`; and the proofs above.

The proofs cover every property of the passing runs but liveness.

Models to come: workspace commands, with a cancellation across a takeover, and the observation stream
with reconnection.
