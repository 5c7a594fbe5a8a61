------------------------------ MODULE JobStore ------------------------------
(***************************************************************************)
(* The statements the job executor runs on one row of platform_jobs        *)
(* (packages/postgres-store/src/jobs/store.ts), each as an operator from a *)
(* row to a row.  Times are relative: `wait' is run_after minus the clock  *)
(* and `lease' is lease_expires_at minus the clock, both cut off at 0, so  *)
(* a queued row is due when wait <= 0 and a running row's lease ran out    *)
(* when lease = 0.  A lease token is the attempt (a member of Runs) that   *)
(* was given it: gen_random_uuid never returns a token still in use.       *)
(* error_code and error_message, which the executor only writes, are left  *)
(* out.                                                                    *)
(***************************************************************************)
EXTENDS Integers, FiniteSets

CONSTANTS
    Jobs,          \* the row ids; an id whose row has status "none" is free
    Runs,          \* the attempts that can exist at once, and their lease tokens
    Kinds,         \* the job kinds
    Scheduled,     \* the kinds a schedule runs: their only jobs are ticks
    Keys,          \* the dedupe keys of the kinds no schedule runs
    Groups,        \* the concurrency keys
    MaxAttempts,   \* [Kinds -> Nat]: attempts of a job of the kind
    LeaseMs,       \* [Kinds -> Nat]: ticks of a lease
    BackoffBase,   \* [Kinds -> Nat]
    BackoffMax,    \* [Kinds -> Nat]
    Global,        \* [Kinds -> Nat]: running jobs of the kind
    PerKey,        \* [Kinds -> Nat]: running jobs of the kind under one concurrency key
    Every,         \* [Scheduled -> Nat]: ticks from the end of a schedule tick to the next
    Null

ASSUME JobStoreConstants ==
    /\ IsFiniteSet(Jobs)
    /\ Scheduled \subseteq Kinds
    /\ MaxAttempts \in [Kinds -> Nat \ {0}]
    /\ \A k \in Scheduled : MaxAttempts[k] = 1
    /\ LeaseMs \in [Kinds -> Nat \ {0}]
    /\ BackoffBase \in [Kinds -> Nat]
    /\ BackoffMax \in [Kinds -> Nat]
    /\ Global \in [Kinds -> Nat \ {0}]
    /\ PerKey \in [Kinds -> Nat \ {0}]
    /\ Every \in [Scheduled -> Nat \ {0}]
    /\ Null \notin Runs /\ Null \notin Keys /\ Null \notin Groups /\ Null \notin Jobs
    /\ Null \notin Kinds

\* scheduleDedupeKey: the key of a kind's one tick is a function of the kind alone.
scheduleDedupeKey(k) == <<"schedule", k>>

DedupeKeys == Keys \cup {scheduleDedupeKey(k) : k \in Scheduled}

JobStatus == {"none", "queued", "running", "succeeded", "failed", "dead"}

JobRow ==
    [status: JobStatus, kind: Kinds \cup {Null}, key: DedupeKeys \cup {Null},
     group: Groups \cup {Null}, attempts: Nat, wait: Int, lease: Nat,
     token: Runs \cup {Null}]

NoRow ==
    [status |-> "none", kind |-> Null, key |-> Null, group |-> Null, attempts |-> 0,
     wait |-> 0, lease |-> 0, token |-> Null]

Live(row) == row.status \in {"queued", "running"}

Ended(row) == row.status \in {"succeeded", "failed", "dead"}

isTick(row) == row.kind \in Scheduled /\ row.key = scheduleDedupeKey(row.kind)

-----------------------------------------------------------------------------
\* enqueueJob inserts a queued row that has made no attempt.
QueuedRow(k, key, group, delay) ==
    [NoRow EXCEPT !.status = "queued", !.kind = k, !.key = key, !.group = group,
                  !.wait = delay]

\* The wait before the next attempt: base doubled per attempt already made, up to the maximum.
backoff(row) ==
    LET doubled == BackoffBase[row.kind]
                     * 2^(IF row.attempts > 1 THEN row.attempts - 1 ELSE 0)
    IN  IF doubled < BackoffMax[row.kind] THEN doubled ELSE BackoffMax[row.kind]

noLease(row) == [row EXCEPT !.token = Null, !.lease = 0]

\* heldBy: the lease is this attempt's and has not run out.
heldBy(row, token) == row.status = "running" /\ row.token = token /\ row.lease > 0

LeaseExpired(row) == row.status = "running" /\ row.lease = 0

\* Mutant: the comparison is off by one, so the last attempt never counts as the last.
exhausted_offByOne(row) == LeaseExpired(row) /\ row.attempts > MaxAttempts[row.kind]

\* exhausted: the lease ran out on the last attempt.
exhausted(row) == LeaseExpired(row) /\ row.attempts >= MaxAttempts[row.kind]

\* Mutant: recovery also takes the last attempt.
recoverable_lastToo(row) == LeaseExpired(row) /\ row.attempts <= MaxAttempts[row.kind]

\* What a claim's recovery makes of a row whose lease ran out with attempts left.
recoverable(row) == LeaseExpired(row) /\ row.attempts < MaxAttempts[row.kind]

recovered(row) ==
    IF recoverable(row)
    THEN noLease([row EXCEPT !.status = "queued", !.wait = backoff(row)])
    ELSE row

\* What a claim makes of a due row.
claimed(row, token) ==
    [row EXCEPT !.status = "running", !.attempts = @ + 1, !.token = token,
                !.lease = LeaseMs[row.kind]]

\* heartbeatJob and renewLockedJobLease set the expiry to the clock plus the lease.
renewed(row) == [row EXCEPT !.lease = LeaseMs[row.kind]]

\* endJobAttempt, by the status of the ending.
ended(row, status) == noLease([row EXCEPT !.status = status])

\* Mutant: the lease stays on the queued row.
retried_keepsLease(row) == [row EXCEPT !.status = "queued", !.wait = backoff(row)]

retried(row) == noLease([row EXCEPT !.status = "queued", !.wait = backoff(row)])

released(row) ==
    noLease([row EXCEPT !.status = "queued", !.wait = 0,
                        !.attempts = IF @ > 0 THEN @ - 1 ELSE 0])

\* retryJob: an operator queues a failed or dead job again.
requeued(row) == [row EXCEPT !.status = "queued", !.attempts = 0, !.wait = 0]

\* The clock moves on by one tick for a row.
aged(row) ==
    [row EXCEPT !.wait = IF @ > 0 THEN @ - 1 ELSE @,
                !.lease = IF @ > 0 THEN @ - 1 ELSE 0]
=============================================================================
