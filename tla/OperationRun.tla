---------------------------- MODULE OperationRun ----------------------------
(***************************************************************************)
(* Calls of registered operations: runOperation                            *)
(* (packages/tool-execution/src/run-operation.ts) over the operation runs  *)
(* of packages/postgres-store/src/postgres-operation-run-operations.ts,    *)
(* with the policy of packages/core/src/operation-policy.ts.               *)
(* A call that brings an idempotency key takes, replays or waits for the   *)
(* one run of its key.  Every await is a step: a statement may fail before *)
(* or after it took effect, an event may fail to be emitted, the process   *)
(* may die, and other calls with the key run in between.                   *)
(***************************************************************************)
EXTENDS Naturals, FiniteSets

CONSTANTS
    Null,
    Requests,       \* calls of runOperation
    Keys,           \* idempotency keys, each of its actor
    KeyOf,          \* the key a request brings, or Null
    CallOf,         \* operation and input of a request, as far as they are compared
    Policies,       \* what the policy may be asked with, see Policy
    HasApprovals,   \* whether the surface files approval requests
    Targets         \* what a call touches

POLICY_VALUES == <<"allow", "confirm", "approval", "deny">>
PolicyValue == {"allow", "confirm", "approval", "deny"}

\* A setting of the admin, for every target or narrowed to one.
Setting == [value: PolicyValue, target: Targets \cup {Null}]

Policy == [effect: {"reading", "changing"}, instanceDefault: PolicyValue,
           declared: PolicyValue \cup {Null}, central: SUBSET Setting, targets: SUBSET Targets,
           guardrail: {"allow", "warn", "require_approval", "block"}, callerCanConfirm: BOOLEAN]

\* Why a run failed: before its implementation was reached, by it, or nobody knows.
Error == {"unexecuted", "thrown", "interrupted"}

Answers == {"done", "notRetained", "pending_approval", "denied", "expired", "failed",
            "failedUnexecuted", "inProgress", "keyReused", "error"}

ASSUME OperationRunConstants ==
    /\ Null \notin Keys \cup Requests \cup Targets \cup PolicyValue \cup Error \cup Answers
    /\ KeyOf \in [Requests -> Keys \cup {Null}]
    /\ DOMAIN CallOf = Requests
    /\ Policies \subseteq Policy /\ \A p \in Policies : p.targets # {}
    /\ HasApprovals \in BOOLEAN

VARIABLES
    runs,       \* operation_runs; a row has the id its first request made
    pc,         \* where a request is in runOperation
    run,        \* the run a request executes
    attempts,   \* how often a request found its key's run gone or free again
    asked,      \* what the policy was asked with, until the call is executed
    answer,     \* what a request was answered, by its own run or again from the key's
    executed    \* history: how often the implementation was started for a run

vars == <<runs, pc, run, attempts, asked, answer, executed>>

IDEMPOTENCY_CLAIM_ATTEMPTS == 3

Row == [status: {"none", "running", "pending_approval", "done", "failed", "denied", "expired"},
        error: Error \cup {Null},
        output: BOOLEAN, attempt: Nat]
NoRow == [status |-> "none", error |-> Null, output |-> FALSE, attempt |-> 0]

Places == {"create", "find", "decide", "deny", "approve", "pend", "execute", "done",
           "denyLate", "fail", "failStarted", "over"}

\* Rows and requests are well typed; a failed run says why, and no other run does.
TypeOK ==
    /\ runs \in [Requests -> Row]
    /\ \A i \in Requests : (runs[i].status = "failed") <=> (runs[i].error # Null)
    /\ pc \in [Requests -> Places]
    /\ run \in [Requests -> Requests \cup {Null}]
    /\ attempts \in [Requests -> 0..IDEMPOTENCY_CLAIM_ATTEMPTS]
    /\ asked \in [Requests -> Policies \cup {Null}]
    /\ answer \in [Requests -> Answers \cup {Null}]
    /\ executed \in [Requests -> Nat]

Init ==
    /\ runs = [i \in Requests |-> NoRow]
    /\ pc = [r \in Requests |-> "create"]
    /\ run = [r \in Requests |-> Null]
    /\ attempts = [r \in Requests |-> 0]
    /\ asked = [r \in Requests |-> Null]
    /\ answer = [r \in Requests |-> Null]
    /\ executed = [i \in Requests |-> 0]

-----------------------------------------------------------------------------
\* resolvePolicy.

position(v) == CHOOSE n \in 1..4 : POLICY_VALUES[n] = v

\* Mutant: the loosest value wins.
Strictest_loosest(V) == CHOOSE v \in V : \A w \in V : position(v) <= position(w)

\* stricter, of several.
Strictest(V) == CHOOSE v \in V : \A w \in V : position(w) <= position(v)

\* confirm and approval are no values of a reading operation.
applies(p, v) == v # Null /\ (p.effect = "changing" \/ v \in {"allow", "deny"})

base(p) == IF applies(p, p.declared) THEN p.declared
           ELSE IF applies(p, p.instanceDefault) THEN p.instanceDefault ELSE "allow"

\* The settings that match a target replace the base.
ofTarget(p, t) ==
    LET central == {v \in PolicyValue : /\ applies(p, v)
                                        /\ \E s \in p.central : s.value = v /\ s.target \in {t, Null}}
    IN IF central # {} THEN Strictest(central) ELSE base(p)

\* A guardrail only tightens.  No surface can pause a call for a confirmation.
resolvePolicy(p) ==
    LET required == IF p.guardrail # "require_approval" THEN {}
                    ELSE IF p.effect = "changing" THEN {"approval"} ELSE {"deny"}
        value == Strictest({ofTarget(p, t) : t \in p.targets} \cup required)
    IN IF p.guardrail = "block" THEN "refuse" ELSE
       CASE value = "deny" -> "refuse"
         [] value = "allow" -> "run"
         [] value = "confirm" -> IF p.callerCanConfirm THEN "run" ELSE "refuse"
         [] value = "approval" -> IF p.callerCanConfirm THEN "await_approval" ELSE "refuse"

-----------------------------------------------------------------------------
Goto(r, place) == pc' = [pc EXCEPT ![r] = place]
Answer(r, a) == answer' = [answer EXCEPT ![r] = a] /\ Goto(r, "over")

\* Mutant: a failed run no longer holds its key.
HolderOf_notFailed(k) ==
    {i \in Requests : k # Null /\ KeyOf[i] = k /\ runs[i].status \notin {"none", "failed"}}

HolderOf(k) == {i \in Requests : k # Null /\ KeyOf[i] = k /\ runs[i].status # "none"}

\* A changing call runs again only where its run failed before the implementation was reached.
runsAgain(row) == row.status = "failed" /\ row.error = "unexecuted"

sameCall(i, r) == CallOf[i] = CallOf[r]

running(attempt) == [status |-> "running", error |-> Null, output |-> FALSE, attempt |-> attempt]

\* createOperationRun: an insert, or on a taken key an update of the run that may run again.
createOperationRun(r) ==
    LET held == HolderOf(KeyOf[r])
    IN \/ /\ held = {}
          /\ runs' = [runs EXCEPT ![r] = running(1)]
          /\ run' = [run EXCEPT ![r] = r]
          /\ Goto(r, "decide")
       \/ \E i \in held :
             IF runsAgain(runs[i]) /\ sameCall(i, r)
             THEN /\ runs' = [runs EXCEPT ![i] = running(@.attempt + 1)]
                  /\ run' = [run EXCEPT ![r] = i]
                  /\ Goto(r, "decide")
             ELSE /\ Goto(r, "find")
                  /\ UNCHANGED <<runs, run>>

Create(r) ==
    /\ pc[r] = "create"
    /\ createOperationRun(r)
    /\ UNCHANGED <<attempts, asked, answer, executed>>

\* The statement fails, and may have taken effect all the same.
CreateFails(r) ==
    /\ pc[r] = "create"
    /\ Answer(r, "error")
    /\ \/ /\ HolderOf(KeyOf[r]) = {} /\ runs' = [runs EXCEPT ![r] = running(1)]
       \/ \E i \in HolderOf(KeyOf[r]) :
             /\ runsAgain(runs[i]) /\ sameCall(i, r)
             /\ runs' = [runs EXCEPT ![i] = running(@.attempt + 1)]
       \/ UNCHANGED runs
    /\ UNCHANGED <<run, attempts, asked, executed>>

\* Mutant: an interrupted run answers as one that failed.
replay_failed(row) ==
    CASE row.status = "done" -> IF row.output THEN "done" ELSE "notRetained"
      [] row.status = "running" -> "inProgress"
      [] OTHER -> row.status

\* Mutant: an interrupted run answers as one that is done.
replay_interruptedDone(row) ==
    CASE row.status = "done" -> IF row.output THEN "done" ELSE "notRetained"
      [] row.error = "interrupted" -> "notRetained"
      [] row.status = "running" -> "inProgress"
      [] OTHER -> row.status

\* replay: what the run that holds the key answers.
replay(row) ==
    CASE row.status = "done" -> IF row.output THEN "done" ELSE "notRetained"
      [] row.status = "running" \/ row.error = "interrupted" -> "inProgress"
      [] OTHER -> row.status

\* findByIdempotencyKey.  A run that may run again, or is gone, leaves the key to the next create.
Find(r) ==
    /\ pc[r] = "find"
    /\ \/ \E i \in HolderOf(KeyOf[r]) :
             /\ \/ ~sameCall(i, r) /\ Answer(r, "keyReused") /\ UNCHANGED run
                \/ /\ sameCall(i, r) /\ ~runsAgain(runs[i])
                   /\ Answer(r, replay(runs[i]))
                   /\ run' = [run EXCEPT ![r] = i]
             /\ UNCHANGED attempts
       \/ /\ \A i \in HolderOf(KeyOf[r]) : sameCall(i, r) /\ runsAgain(runs[i])
          /\ attempts' = [attempts EXCEPT ![r] = @ + 1]
          /\ IF attempts[r] + 1 < IDEMPOTENCY_CLAIM_ATTEMPTS
             THEN Goto(r, "create") /\ UNCHANGED answer
             ELSE Answer(r, "error")
          /\ UNCHANGED run
    /\ UNCHANGED <<runs, asked, executed>>

-----------------------------------------------------------------------------
\* executeRun up to its implementation: the right, the policy and the guardrails.
Decide(r, p) ==
    /\ pc[r] = "decide"
    /\ LET next == resolvePolicy(p)
       IN \/ Goto(r, "deny") /\ UNCHANGED asked                        \* no right
          \/ Goto(r, "fail") /\ UNCHANGED asked                        \* anything threw
          \/ /\ Goto(r, CASE next = "run" -> "execute"
                          [] next = "refuse" -> "deny"
                          [] next = "await_approval" -> IF HasApprovals THEN "approve" ELSE "deny")
             /\ asked' = [asked EXCEPT ![r] = IF next = "run" THEN p ELSE Null]
    /\ UNCHANGED <<runs, run, attempts, answer, executed>>

\* approvals.request.
RequestApproval(r) ==
    /\ pc[r] = "approve"
    /\ Goto(r, "pend") \/ Goto(r, "fail")
    /\ UNCHANGED <<runs, run, attempts, asked, answer, executed>>

\* operation.started is emitted, and the implementation called.  It may have changed something
\* before it throws, or asks for a right the caller lacks.
Execute(r) ==
    /\ pc[r] = "execute"
    /\ asked' = [asked EXCEPT ![r] = Null]
    /\ \/ /\ Goto(r, "fail")
          /\ UNCHANGED executed
       \/ /\ \E place \in {"done", "denyLate", "failStarted"} : Goto(r, place)
          /\ executed' = [executed EXCEPT ![run[r]] = @ + 1]
    /\ UNCHANGED <<runs, run, attempts, answer>>

\* Mutant: a failure of the implementation is recorded as one before it.
ended_unexecuted(place, output) ==
    CASE place = "done" -> [status |-> "done", error |-> Null, output |-> output]
      [] place = "pend" -> [status |-> "pending_approval", error |-> Null, output |-> FALSE]
      [] place \in {"deny", "denyLate"} -> [status |-> "denied", error |-> Null, output |-> FALSE]
      [] place \in {"fail", "failStarted"} ->
             [status |-> "failed", error |-> "unexecuted", output |-> FALSE]

\* How a run ends where a request is.
ended(place, output) ==
    CASE place = "done" -> [status |-> "done", error |-> Null, output |-> output]
      [] place = "pend" -> [status |-> "pending_approval", error |-> Null, output |-> FALSE]
      [] place \in {"deny", "denyLate"} -> [status |-> "denied", error |-> Null, output |-> FALSE]
      [] place = "fail" -> [status |-> "failed", error |-> "unexecuted", output |-> FALSE]
      [] place = "failStarted" -> [status |-> "failed", error |-> "thrown", output |-> FALSE]

finishes(row) == row.status = "running"

\* finishOperationRun: ends a run that is still running, and leaves any other alone.
finishOperationRun(i, end) ==
    runs' = IF finishes(runs[i])
            THEN [runs EXCEPT ![i] = [status |-> end.status, error |-> end.error,
                                      output |-> end.output, attempt |-> @.attempt]]
            ELSE runs

\* What the caller is told of its own run, whatever end found.
answerAt(place) ==
    CASE place = "done" -> "done"
      [] place = "pend" -> "pending_approval"
      [] place \in {"deny", "denyLate"} -> "denied"
      [] place = "fail" -> "failedUnexecuted"
      [] place = "failStarted" -> "failed"

\* end, and the event after it.
End(r) ==
    /\ pc[r] \in {"done", "pend", "deny", "denyLate", "fail", "failStarted"}
    /\ \E output \in BOOLEAN : finishOperationRun(run[r], ended(pc[r], output))
    /\ Answer(r, answerAt(pc[r]))
    /\ UNCHANGED <<run, attempts, asked, executed>>

\* end or the event fails, and the run may be ended all the same.  A call that has happened is
\* answered nevertheless.  What fails before the implementation was called is caught, and the run
\* ended as failed; what fails in that goes to the caller.
EndFails(r) ==
    /\ pc[r] \in {"done", "pend", "deny", "denyLate", "fail", "failStarted"}
    /\ UNCHANGED runs \/ \E output \in BOOLEAN : finishOperationRun(run[r], ended(pc[r], output))
    /\ \/ pc[r] = "done" /\ Answer(r, "done")
       \/ pc[r] \in {"pend", "deny"} /\ Goto(r, "fail") /\ UNCHANGED answer
       \/ pc[r] \in {"denyLate", "fail", "failStarted"} /\ Answer(r, "error")
    /\ UNCHANGED <<run, attempts, asked, executed>>

\* The process dies.
Die(r) ==
    /\ pc[r] \notin {"create", "find", "over"}
    /\ Goto(r, "over")
    /\ asked' = [asked EXCEPT ![r] = Null]
    /\ UNCHANGED <<runs, run, attempts, answer, executed>>

-----------------------------------------------------------------------------
\* markOperationRunInterrupted, of a run whose process ended or is only slow.
MarkInterrupted(i) ==
    /\ runs[i].status = "running"
    /\ runs' = [runs EXCEPT ![i].status = "failed", ![i].error = "interrupted"]
    /\ UNCHANGED <<pc, run, attempts, asked, answer, executed>>

\* markOperationRunsExpired, once the time of a waiting run ran out.
MarkExpired(i) ==
    /\ runs[i].status = "pending_approval"
    /\ runs' = [runs EXCEPT ![i].status = "expired"]
    /\ UNCHANGED <<pc, run, attempts, asked, answer, executed>>

\* Everything is over: the requests were answered or died.
Done == (\A r \in Requests : pc[r] = "over") /\ UNCHANGED vars

Next ==
    \/ \E r \in Requests :
          \/ Create(r) \/ CreateFails(r) \/ Find(r)
          \/ \E p \in Policies : Decide(r, p)
          \/ RequestApproval(r) \/ Execute(r) \/ End(r) \/ EndFails(r) \/ Die(r)
          \/ MarkInterrupted(r) \/ MarkExpired(r)
    \/ Done

Spec == Init /\ [][Next]_vars

-----------------------------------------------------------------------------
\* However calls with one key fail, die, are interrupted or take its run over from each other, its
\* operation is started once, for one operation and input (createOperationRun, runsAgain).
ExecutedOnce ==
    \A k \in Keys :
        \A i, j \in {q \in Requests : KeyOf[q] = k} :
            /\ executed[i] <= 1
            /\ executed[i] > 0 /\ executed[j] > 0 => i = j

\* A recorded end is true of what happened: done and thrown runs were executed, waiting and expired
\* runs were not, and a run that may run again was not either, also when the row was ended while
\* its call went on (finishOperationRun, markOperationRunInterrupted).
RecordIsTrue ==
    \A i \in Requests :
        /\ runs[i].status = "done" \/ runs[i].error = "thrown" => executed[i] > 0
        /\ runs[i].status \in {"pending_approval", "expired"} \/ runsAgain(runs[i])
               => executed[i] = 0

\* What the callers with one key and one call are told agrees: where one is told that the call was
\* made, none is told that it was refused, waits, expired or failed in it (replay).
AnswersAgree ==
    \A r, q \in Requests :
        /\ KeyOf[r] = KeyOf[q] /\ KeyOf[r] # Null /\ sameCall(r, q)
        /\ answer[r] \in {"done", "notRetained"}
        => answer[q] \notin {"denied", "pending_approval", "expired", "failed"}

\* A call is executed only where nothing that applies to any of its targets, and no guardrail, asks
\* for more than its caller's own call (resolvePolicy).
PolicyKept ==
    \A r \in Requests : asked[r] # Null =>
        LET p == asked[r]
            enough == {"allow"} \cup (IF p.callerCanConfirm THEN {"confirm"} ELSE {})
            matching(t) == {s.value : s \in {c \in p.central : c.target \in {t, Null}}}
        IN /\ p.guardrail \notin {"block", "require_approval"}
           /\ \A t \in p.targets : \A v \in matching(t) : applies(p, v) => v \in enough
           /\ \A t \in p.targets : (\A v \in matching(t) : ~applies(p, v)) => base(p) \in enough

\* An ended run keeps its end, except that one which was not executed runs again and one that
\* waited expires: a late end of its own call or of an earlier attempt changes nothing.
EndIsFinal ==
    [][\A i \in Requests :
          runs[i].status \notin {"none", "running", "pending_approval"} /\ ~runsAgain(runs[i])
              => runs'[i] = runs[i]]_vars

\* To its callers all of it is one call that happens once under its key: what happened under a key
\* is the run whose implementation was started, and a call that is told it was made, by its own run
\* or by a replay, is told of that run.
result ==
    [k \in Keys |-> IF \E i \in Requests : KeyOf[i] = k /\ executed[i] > 0
                    THEN CHOOSE i \in Requests : KeyOf[i] = k /\ executed[i] > 0 ELSE Null]
told ==
    [r \in Requests |-> IF KeyOf[r] # Null /\ answer[r] \in {"done", "notRetained"}
                        THEN run[r] ELSE Null]

Call == INSTANCE IdempotentCall WITH Results <- Requests

ImplementsIdempotentCall == Call!Spec
=============================================================================
