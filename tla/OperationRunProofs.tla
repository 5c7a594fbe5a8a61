------------------------- MODULE OperationRunProofs -------------------------
(***************************************************************************)
(* What OperationRun promises, for any calls, keys, policies and targets.  *)
(* The inductive invariant says who works on a run: one request at most,   *)
(* nobody on a run that may be run again or has its outcome, and a request *)
(* that has not called the implementation only where nobody has.           *)
(***************************************************************************)
EXTENDS OperationRun, TLAPS

\* Where a request has a run to work on, and where it has neither called the implementation of the
\* run nor recorded an end.
Started == {"done", "denyLate", "failStarted"}
Before == {"decide", "deny", "approve", "pend", "execute"}
Working == Started \cup Before \cup {"fail"}

\* A request has a run once it works on one or was answered from one: a run of its key.
RunsNamed ==
    \A r \in Requests :
        /\ pc[r] \in {"create", "find"} =>
              /\ run[r] = Null /\ answer[r] = Null
              /\ attempts[r] < IDEMPOTENCY_CLAIM_ATTEMPTS
              /\ KeyOf[r] = Null => runs[r].status = "none"
        /\ pc[r] \in Working => run[r] # Null /\ answer[r] = Null
        /\ run[r] # Null => KeyOf[run[r]] = KeyOf[r] /\ runs[run[r]].status # "none"

\* A key has one run.
OneRun ==
    \A i, j \in Requests :
        /\ KeyOf[i] = KeyOf[j] /\ KeyOf[i] # Null
        /\ runs[i].status # "none" /\ runs[j].status # "none"
        => i = j

OneWorker == \A r, q \in Requests : pc[r] \in Working /\ pc[q] \in Working /\ run[r] = run[q] => r = q

\* A run that is worked on has no outcome of the implementation, and no end at all, unless its
\* request goes on to fail it or it was taken for interrupted.
WorkedOn ==
    \A r \in Requests : pc[r] \in Working =>
        /\ runs[run[r]].status # "done" /\ runs[run[r]].error \notin {"thrown", "unexecuted"}
        /\ pc[r] # "fail" => runs[run[r]].status = "running" \/ runs[run[r]].error = "interrupted"

\* The implementation was called at most once, and exactly by a request that is past the call.
Executions ==
    /\ \A i \in Requests : executed[i] <= 1 /\ (executed[i] > 0 => runs[i].status # "none")
    /\ \A r \in Requests : pc[r] \in Working => (pc[r] \in Started <=> executed[run[r]] > 0)

\* A run whose request was told that it was made keeps its end open or is done.
ToldDone ==
    \A r \in Requests : answer[r] \in {"done", "notRetained"} =>
        /\ run[r] # Null /\ executed[run[r]] > 0
        /\ runs[run[r]].status \in {"running", "done"} \/ runs[run[r]].error = "interrupted"
        /\ \A q \in Requests : pc[q] \in Working => run[q] # run[r]

\* A run whose request was told otherwise has ended for good.
ToldOtherwise ==
    \A r \in Requests : answer[r] \in {"denied", "pending_approval", "expired", "failed"} =>
        /\ run[r] # Null
        /\ \/ runs[run[r]].status \in {"denied", "pending_approval", "expired"}
           \/ runs[run[r]].error \in {"thrown", "interrupted"}
        /\ \A q \in Requests : pc[q] \in Working /\ run[q] = run[r] => pc[q] = "fail"

ToldAgree ==
    \A r, q \in Requests :
        /\ run[r] = run[q] /\ answer[r] \in {"done", "notRetained"}
        => answer[q] \notin {"denied", "pending_approval", "expired", "failed"}

IInv ==
    /\ TypeOK /\ RunsNamed /\ OneRun /\ OneWorker /\ WorkedOn /\ Executions /\ RecordIsTrue
    /\ ToldDone /\ ToldOtherwise /\ ToldAgree

USE OperationRunConstants

\* The initial state satisfies the invariant: no request has begun.
LEMMA InitIInv == Init => IInv
BY DEF Init, IInv, TypeOK, Row, NoRow, Places, Answers, RunsNamed, OneRun, OneWorker, WorkedOn,
       Executions, RecordIsTrue, ToldDone, ToldOtherwise, ToldAgree, Working, Started, Before,
       runsAgain, IDEMPOTENCY_CLAIM_ATTEMPTS, Error, Answers

-----------------------------------------------------------------------------
\* The policy.

\* The positions of the values.
LEMMA Positions ==
    /\ position("allow") = 1 /\ position("confirm") = 2
    /\ position("approval") = 3 /\ position("deny") = 4
<1>1. position("allow") = 1
  BY DEF position, POLICY_VALUES
<1>2. position("confirm") = 2
  BY DEF position, POLICY_VALUES
<1>3. position("approval") = 3
  BY DEF position, POLICY_VALUES
<1>4. position("deny") = 4
  BY DEF position, POLICY_VALUES
<1>5. QED
  BY <1>1, <1>2, <1>3, <1>4

\* Of some values, Strictest is one that no other exceeds.
LEMMA StrictestIsStrictest ==
    ASSUME NEW V \in SUBSET PolicyValue, V # {}
    PROVE  /\ Strictest(V) \in V
           /\ \A w \in V : position(w) <= position(Strictest(V))
<1>1. \E v \in V : \A w \in V : position(w) <= position(v)
  <2> USE Positions DEF PolicyValue
  <2>1. CASE "deny" \in V
    BY <2>1
  <2>2. CASE "deny" \notin V /\ "approval" \in V
    BY <2>2
  <2>3. CASE "deny" \notin V /\ "approval" \notin V /\ "confirm" \in V
    BY <2>3
  <2>4. CASE "deny" \notin V /\ "approval" \notin V /\ "confirm" \notin V
    <3>1. V = {"allow"}
      BY <2>4
    <3>2. QED
      BY <3>1
  <2>5. QED
    BY <2>1, <2>2, <2>3, <2>4
<1>2. QED
  BY <1>1 DEF Strictest

\* The settings that match a target and apply, as ofTarget collects them.
Central(p, t) ==
    {v \in PolicyValue : /\ applies(p, v)
                         /\ \E s \in p.central : s.value = v /\ s.target \in {t, Null}}

\* What a target asks for is at least what each setting that matches it asks for, or the base.
LEMMA OfTarget ==
    ASSUME NEW p \in Policies, NEW t \in p.targets
    PROVE  /\ ofTarget(p, t) \in PolicyValue
           /\ \A v \in Central(p, t) : position(v) <= position(ofTarget(p, t))
           /\ Central(p, t) = {} => ofTarget(p, t) = base(p)
<1>1. p \in Policy
  OBVIOUS
<1>2. base(p) \in PolicyValue
  BY <1>1 DEF base, applies, Policy, PolicyValue
<1>3. CASE Central(p, t) = {}
  BY <1>2, <1>3 DEF ofTarget, Central
<1>4. CASE Central(p, t) # {}
  <2>1. Central(p, t) \in SUBSET PolicyValue
    BY DEF Central
  <2>2. ofTarget(p, t) = Strictest(Central(p, t))
    BY <1>4 DEF ofTarget, Central
  <2>3. QED
    BY <1>4, <2>1, <2>2, StrictestIsStrictest
<1>5. QED
  BY <1>3, <1>4

Required(p) ==
    IF p.guardrail # "require_approval" THEN {}
    ELSE IF p.effect = "changing" THEN {"approval"} ELSE {"deny"}

\* The value that decides is at least what each target and the guardrail ask for.
Value(p) == Strictest({ofTarget(p, t) : t \in p.targets} \cup Required(p))

\* It is one of the four, and at least each of them.
LEMMA ValueIsStrictest ==
    ASSUME NEW p \in Policies
    PROVE  /\ Value(p) \in PolicyValue
           /\ \A t \in p.targets : position(ofTarget(p, t)) <= position(Value(p))
           /\ \A v \in Required(p) : position(v) <= position(Value(p))
<1> DEFINE V == {ofTarget(p, t) : t \in p.targets} \cup Required(p)
<1>1. V \in SUBSET PolicyValue
  BY OfTarget DEF Required, PolicyValue
<1>2. V # {}
  <2>1. PICK t \in p.targets : TRUE
    OBVIOUS
  <2>2. QED
    BY <2>1
<1>3. Value(p) = Strictest(V)
  BY DEF Value
<1> HIDE DEF V
<1>4. Value(p) \in V /\ \A w \in V : position(w) <= position(Value(p))
  BY <1>1, <1>2, <1>3, StrictestIsStrictest
<1>5. QED
  BY <1>1, <1>4 DEF V

\* resolvePolicy by the value that decides.
LEMMA Resolution ==
    ASSUME NEW p \in Policies
    PROVE  resolvePolicy(p) =
             IF p.guardrail = "block" THEN "refuse" ELSE
             CASE Value(p) = "deny" -> "refuse"
               [] Value(p) = "allow" -> "run"
               [] Value(p) = "confirm" -> IF p.callerCanConfirm THEN "run" ELSE "refuse"
               [] Value(p) = "approval" -> IF p.callerCanConfirm THEN "await_approval" ELSE "refuse"
BY DEF resolvePolicy, Value, Required

\* The policy has three answers.
LEMMA ResolutionType ==
    ASSUME NEW p \in Policies PROVE resolvePolicy(p) \in {"run", "refuse", "await_approval"}
BY Resolution, ValueIsStrictest DEF PolicyValue

\* What the policy lets run is not kept from running by a target or a guardrail (PolicyKept).
Kept(p) ==
    LET enough == {"allow"} \cup (IF p.callerCanConfirm THEN {"confirm"} ELSE {})
        matching(t) == {s.value : s \in {c \in p.central : c.target \in {t, Null}}}
    IN /\ p.guardrail \notin {"block", "require_approval"}
       /\ \A t \in p.targets : \A v \in matching(t) : applies(p, v) => v \in enough
       /\ \A t \in p.targets : (\A v \in matching(t) : ~applies(p, v)) => base(p) \in enough

\* What resolves to run is kept.
LEMMA RunIsKept == ASSUME NEW p \in Policies, resolvePolicy(p) = "run" PROVE Kept(p)
<1> DEFINE enough == {"allow"} \cup (IF p.callerCanConfirm THEN {"confirm"} ELSE {})
           matching(t) == {s.value : s \in {c \in p.central : c.target \in {t, Null}}}
<1>1. p.guardrail # "block" /\ Value(p) \in enough
  <2>1. resolvePolicy(p) # "refuse" /\ resolvePolicy(p) # "await_approval"
    OBVIOUS
  <2>2. p.guardrail # "block" /\ Value(p) # "deny"
    BY <2>1, Resolution
  <2>3. ASSUME Value(p) = "approval" PROVE FALSE
    <3>1. resolvePolicy(p) = IF p.callerCanConfirm THEN "await_approval" ELSE "refuse"
      BY <2>2, <2>3, Resolution
    <3>2. QED
      BY <2>1, <3>1
  <2>4. ASSUME Value(p) = "confirm" PROVE Value(p) \in enough
    <3>1. resolvePolicy(p) = IF p.callerCanConfirm THEN "run" ELSE "refuse"
      BY <2>2, <2>4, Resolution
    <3>2. QED
      BY <2>1, <2>4, <3>1
  <2>5. QED
    BY <2>2, <2>3, <2>4, ValueIsStrictest DEF PolicyValue
<1>2. p.guardrail # "require_approval"
  BY <1>1, ValueIsStrictest, Positions DEF Required
<1>3. ASSUME NEW w \in PolicyValue, position(w) <= position(Value(p)) PROVE w \in enough
  BY <1>1, <1>3, Positions DEF PolicyValue
<1>4. ASSUME NEW t \in p.targets, NEW v \in matching(t), applies(p, v) PROVE v \in enough
  <2>1. v \in Central(p, t)
    BY <1>4 DEF Central, Policy, Setting
  <2>2. position(v) <= position(ofTarget(p, t)) /\ v \in PolicyValue /\ ofTarget(p, t) \in PolicyValue
    BY <2>1, OfTarget DEF Central
  <2>3. position(ofTarget(p, t)) <= position(Value(p))
    BY ValueIsStrictest
  <2>4. position(v) <= position(Value(p))
    BY <2>2, <2>3, ValueIsStrictest, Positions DEF PolicyValue
  <2>5. QED
    BY <1>3, <2>2, <2>4
<1>5. ASSUME NEW t \in p.targets, \A v \in matching(t) : ~applies(p, v) PROVE base(p) \in enough
  <2>1. Central(p, t) = {}
    BY <1>5 DEF Central
  <2>2. base(p) = ofTarget(p, t) /\ ofTarget(p, t) \in PolicyValue
    BY <2>1, OfTarget
  <2>3. QED
    BY <1>3, <2>2, ValueIsStrictest
<1>6. QED
  BY <1>1, <1>2, <1>4, <1>5 DEF Kept

-----------------------------------------------------------------------------
\* What the steps do to a row, as far as the invariant looks at it.

\* A step sets the status and the error of run i and touches no other run.
RowSet(i, status, error) ==
    /\ runs' \in [Requests -> Row]
    /\ runs'[i].status = status /\ runs'[i].error = error
    /\ \A j \in Requests \ {i} : runs'[j] = runs[j]

\* Request r takes run i: it starts the first run of its key, or one that may be run again.
Takes(r, i) ==
    /\ \/ i = r /\ HolderOf(KeyOf[r]) = {}
       \/ i \in HolderOf(KeyOf[r]) /\ runs[i].status = "failed" /\ runs[i].error = "unexecuted"
    /\ RowSet(i, "running", Null)

Endings == {"done", "pend", "deny", "denyLate", "fail", "failStarted"}

endStatus(place) ==
    CASE place = "done" -> "done" [] place = "pend" -> "pending_approval"
      [] place \in {"deny", "denyLate"} -> "denied" [] place \in {"fail", "failStarted"} -> "failed"

endError(place) ==
    CASE place = "fail" -> "unexecuted" [] place = "failStarted" -> "thrown" [] OTHER -> Null

\* A step ends the run of r the way r goes, unless the run has ended.
Ends(r) ==
    IF runs[run[r]].status = "running"
    THEN RowSet(run[r], endStatus(pc[r]), endError(pc[r])) ELSE UNCHANGED runs

\* Writing a row of the type sets the row.
LEMMA Writing ==
    ASSUME runs \in [Requests -> Row], NEW i \in Requests, NEW row \in Row,
           runs' = [runs EXCEPT ![i] = row]
    PROVE  RowSet(i, row.status, row.error)
BY DEF RowSet

\* A run that is started again, or for the first time, is written as running.
LEMMA TakingWrites ==
    ASSUME runs \in [Requests -> Row], NEW i \in Requests, NEW n \in Nat,
           runs' = [runs EXCEPT ![i] = running(n)]
    PROVE  RowSet(i, "running", Null)
<1>1. running(n) \in Row /\ running(n).status = "running" /\ running(n).error = Null
  BY DEF running, Row
<1>2. RowSet(i, running(n).status, running(n).error)
  BY <1>1, Writing
<1>3. QED
  BY <1>1, <1>2

\* finishOperationRun, as it is called where a request is.
LEMMA FinishingEnds ==
    ASSUME runs \in [Requests -> Row], NEW r \in Requests, pc[r] \in Endings, run[r] \in Requests,
           NEW output \in BOOLEAN, finishOperationRun(run[r], ended(pc[r], output))
    PROVE  Ends(r)
<1> DEFINE end == ended(pc[r], output)
           row == [status |-> end.status, error |-> end.error, output |-> end.output,
                   attempt |-> runs[run[r]].attempt]
<1>1. CASE runs[run[r]].status = "running"
  <2>1. runs[run[r]].attempt \in Nat
    BY DEF Row
  <2>2. row \in Row /\ row.status = endStatus(pc[r]) /\ row.error = endError(pc[r])
    BY <2>1 DEF ended, Endings, Row, Error, endStatus, endError
  <2>3. runs' = [runs EXCEPT ![run[r]] = row]
    BY <1>1 DEF finishOperationRun, finishes
  <2>4. RowSet(run[r], row.status, row.error)
    BY <2>2, <2>3, Writing
  <2>5. QED
    BY <1>1, <2>2, <2>4 DEF Ends
<1>2. CASE runs[run[r]].status # "running"
  BY <1>2 DEF finishOperationRun, finishes, Ends
<1>3. QED
  BY <1>1, <1>2

\* createOperationRun takes a run or leaves the key to its holder.
LEMMA Creating ==
    ASSUME TypeOK, NEW r \in Requests, createOperationRun(r)
    PROVE  \/ UNCHANGED <<runs, run>> /\ pc' = [pc EXCEPT ![r] = "find"]
           \/ \E i \in Requests :
                 /\ Takes(r, i)
                 /\ run' = [run EXCEPT ![r] = i] /\ pc' = [pc EXCEPT ![r] = "decide"]
<1>0. runs \in [Requests -> Row] /\ HolderOf(KeyOf[r]) \subseteq Requests
  BY DEF TypeOK, HolderOf
<1>1. CASE /\ HolderOf(KeyOf[r]) = {} /\ runs' = [runs EXCEPT ![r] = running(1)]
           /\ run' = [run EXCEPT ![r] = r] /\ pc' = [pc EXCEPT ![r] = "decide"]
  <2>1. Takes(r, r)
    BY <1>0, <1>1, TakingWrites DEF Takes
  <2>2. QED
    BY <1>1, <2>1
<1>2. CASE \E i \in HolderOf(KeyOf[r]) :
              /\ runsAgain(runs[i]) /\ runs' = [runs EXCEPT ![i] = running(@.attempt + 1)]
              /\ run' = [run EXCEPT ![r] = i] /\ pc' = [pc EXCEPT ![r] = "decide"]
  <2>1. PICK i \in HolderOf(KeyOf[r]) :
              /\ runsAgain(runs[i]) /\ runs' = [runs EXCEPT ![i] = running(@.attempt + 1)]
              /\ run' = [run EXCEPT ![r] = i] /\ pc' = [pc EXCEPT ![r] = "decide"]
    BY <1>2
  <2>2. i \in Requests /\ runs[i].attempt + 1 \in Nat
    BY <1>0 DEF Row
  <2>3. RowSet(i, "running", Null)
    BY <1>0, <2>1, <2>2, TakingWrites
  <2>4. QED
    BY <2>1, <2>2, <2>3 DEF Takes, runsAgain
<1>3. CASE UNCHANGED <<runs, run>> /\ pc' = [pc EXCEPT ![r] = "find"]
  BY <1>3
<1>4. QED
  BY <1>1, <1>2, <1>3 DEF createOperationRun, Goto

\* What a create that fails leaves behind.
LEMMA FailedCreating ==
    ASSUME TypeOK, NEW r \in Requests, CreateFails(r)
    PROVE  UNCHANGED runs \/ \E i \in Requests : Takes(r, i)
<1>0. runs \in [Requests -> Row] /\ HolderOf(KeyOf[r]) \subseteq Requests
  BY DEF TypeOK, HolderOf
<1>1. CASE HolderOf(KeyOf[r]) = {} /\ runs' = [runs EXCEPT ![r] = running(1)]
  BY <1>0, <1>1, TakingWrites DEF Takes
<1>2. ASSUME NEW i \in HolderOf(KeyOf[r]), runsAgain(runs[i]),
             runs' = [runs EXCEPT ![i] = running(@.attempt + 1)]
      PROVE  Takes(r, i) /\ i \in Requests
  <2>1. i \in Requests /\ runs[i].attempt + 1 \in Nat
    BY <1>0 DEF Row
  <2>2. RowSet(i, "running", Null)
    BY <1>0, <1>2, <2>1, TakingWrites
  <2>3. QED
    BY <1>2, <2>1, <2>2 DEF Takes, runsAgain
<1>3. QED
  BY <1>1, <1>2 DEF CreateFails

\* What Find answers: the end of the run that holds the key, or that there is none to be had.
Replays(r, i, a) ==
    /\ i \in HolderOf(KeyOf[r]) /\ run' = [run EXCEPT ![r] = i]
    /\ a \in {"done", "notRetained"} => runs[i].status = "done"
    /\ a \in {"denied", "pending_approval", "expired", "failed"} => runs[i].status = a
    /\ a = "failed" => runs[i].error = "thrown"

\* Find goes back to create, or answers.
LEMMA Finding ==
    ASSUME TypeOK, NEW r \in Requests, Find(r)
    PROVE  \/ UNCHANGED <<run, answer>> /\ pc' = [pc EXCEPT ![r] = "create"]
           \/ \E a \in Answers :
                 /\ answer' = [answer EXCEPT ![r] = a] /\ pc' = [pc EXCEPT ![r] = "over"]
                 /\ \/ UNCHANGED run /\ a \in {"keyReused", "error"}
                    \/ \E i \in Requests : Replays(r, i, a)
<1>1. CASE \E i \in HolderOf(KeyOf[r]) :
              /\ ~runsAgain(runs[i]) /\ Answer(r, replay(runs[i])) /\ run' = [run EXCEPT ![r] = i]
  <2>1. PICK i \in HolderOf(KeyOf[r]) :
              /\ ~runsAgain(runs[i]) /\ Answer(r, replay(runs[i])) /\ run' = [run EXCEPT ![r] = i]
    BY <1>1
  <2>2. i \in Requests /\ runs[i].status # "none" /\ runs[i] \in Row
        /\ (runs[i].status = "failed" => runs[i].error # Null)
    BY <2>1 DEF HolderOf, TypeOK
  <2>3. /\ replay(runs[i]) \in Answers
        /\ replay(runs[i]) \in {"done", "notRetained"} => runs[i].status = "done"
        /\ replay(runs[i]) \in {"denied", "pending_approval", "expired", "failed"} =>
              runs[i].status = replay(runs[i])
        /\ replay(runs[i]) = "failed" => runs[i].error = "thrown"
    BY <2>1, <2>2 DEF replay, Row, Error, Answers, runsAgain
  <2>4. QED
    BY <2>1, <2>2, <2>3 DEF Replays, Answer, Goto
<1>2. CASE /\ UNCHANGED run
           /\ Answer(r, "keyReused") \/ Answer(r, "error")
  BY <1>2 DEF Answer, Goto, Answers
<1>3. CASE UNCHANGED <<run, answer>> /\ Goto(r, "create")
  BY <1>3 DEF Goto
<1>4. QED
  BY <1>1, <1>2, <1>3 DEF Find

-----------------------------------------------------------------------------
\* Every step preserves the invariant, one lemma per action.

\* The types, where a step writes a row or none and answers in the type.
LEMMA TypesKept ==
    ASSUME TypeOK,
           \/ UNCHANGED runs
           \/ \E i \in Requests, status \in {"running", "pending_approval", "done", "denied", "expired"} :
                 RowSet(i, status, Null)
           \/ \E i \in Requests, error \in Error : RowSet(i, "failed", error),
           pc' \in [Requests -> Places], run' \in [Requests -> Requests \cup {Null}],
           attempts' \in [Requests -> 0..IDEMPOTENCY_CLAIM_ATTEMPTS],
           asked' \in [Requests -> Policies \cup {Null}],
           answer' \in [Requests -> Answers \cup {Null}], executed' \in [Requests -> Nat]
    PROVE  TypeOK'
<1>1. CASE UNCHANGED runs
  BY <1>1 DEF TypeOK
<1>2. ASSUME NEW i \in Requests,
             NEW status \in {"running", "pending_approval", "done", "denied", "expired"},
             RowSet(i, status, Null)
      PROVE  TypeOK'
  BY <1>2 DEF TypeOK, RowSet
<1>3. ASSUME NEW i \in Requests, NEW error \in Error, RowSet(i, "failed", error) PROVE TypeOK'
  BY <1>3 DEF TypeOK, RowSet
<1>4. QED
  BY <1>1, <1>2, <1>3

\* createOperationRun writes a running row or none.
LEMMA CreateTypes == ASSUME TypeOK, NEW r \in Requests, Create(r) PROVE TypeOK'
<1>1. UNCHANGED runs \/ \E i \in Requests : RowSet(i, "running", Null)
  BY Creating DEF Create, Takes
<1>2. pc' \in [Requests -> Places] /\ run' \in [Requests -> Requests \cup {Null}]
  BY Creating DEF Create, TypeOK, Places
<1>3. QED
  BY <1>1, <1>2, TypesKept DEF Create, TypeOK

\* Also when it fails.
LEMMA CreateFailsTypes == ASSUME TypeOK, NEW r \in Requests, CreateFails(r) PROVE TypeOK'
<1>1. UNCHANGED runs \/ \E i \in Requests : RowSet(i, "running", Null)
  BY FailedCreating DEF Takes
<1>2. pc' \in [Requests -> Places] /\ answer' \in [Requests -> Answers \cup {Null}]
  BY DEF CreateFails, Answer, Goto, TypeOK, Places, Answers
<1>3. QED
  BY <1>1, <1>2, TypesKept DEF CreateFails, TypeOK

\* findByIdempotencyKey writes no row, and counts an attempt only below the bound.
LEMMA FindTypes == ASSUME TypeOK, RunsNamed, NEW r \in Requests, Find(r) PROVE TypeOK'
<1>1. /\ pc' \in [Requests -> Places] /\ run' \in [Requests -> Requests \cup {Null}]
      /\ answer' \in [Requests -> Answers \cup {Null}]
  BY Finding DEF TypeOK, Places, Replays
<1>2. attempts' \in [Requests -> 0..IDEMPOTENCY_CLAIM_ATTEMPTS]
  BY DEF TypeOK, Find, RunsNamed, IDEMPOTENCY_CLAIM_ATTEMPTS
<1>3. QED
  BY <1>1, <1>2, TypesKept DEF Find, TypeOK

\* The policy sends a request to one of its places.
LEMMA DecideTypes == ASSUME TypeOK, NEW r \in Requests, NEW p \in Policies, Decide(r, p) PROVE TypeOK'
<1>1. pc' \in [Requests -> Places]
  BY ResolutionType DEF Decide, Goto, TypeOK, Places
<1>2. asked' \in [Requests -> Policies \cup {Null}]
  BY DEF Decide, TypeOK
<1>3. QED
  BY <1>1, <1>2, TypesKept DEF Decide, TypeOK

\* Filing the approval request.
LEMMA RequestApprovalTypes == ASSUME TypeOK, NEW r \in Requests, RequestApproval(r) PROVE TypeOK'
<1>1. pc' \in [Requests -> Places]
  BY DEF RequestApproval, Goto, TypeOK, Places
<1>2. QED
  BY <1>1, TypesKept DEF RequestApproval, TypeOK

\* Calling the implementation.
LEMMA ExecuteTypes == ASSUME TypeOK, NEW r \in Requests, Execute(r) PROVE TypeOK'
<1>1. pc' \in [Requests -> Places] /\ executed' \in [Requests -> Nat]
  BY DEF Execute, Goto, TypeOK, Places
<1>2. asked' \in [Requests -> Policies \cup {Null}]
  BY DEF Execute, TypeOK
<1>3. QED
  BY <1>1, <1>2, TypesKept DEF Execute, TypeOK

\* However a run is ended, its row fits its status.
LEMMA EndsTypes ==
    ASSUME TypeOK, NEW r \in Requests, pc[r] \in Endings, run[r] \in Requests, Ends(r)
    PROVE  \/ UNCHANGED runs
           \/ \E i \in Requests, status \in {"running", "pending_approval", "done", "denied", "expired"} :
                 RowSet(i, status, Null)
           \/ \E i \in Requests, error \in Error : RowSet(i, "failed", error)
BY DEF Ends, endStatus, endError, Endings, Error

\* Ending a run.
LEMMA EndTypes == ASSUME TypeOK, NEW r \in Requests, run[r] # Null, End(r) PROVE TypeOK'
<1>1. pc[r] \in Endings /\ run[r] \in Requests
  BY DEF End, Endings, TypeOK
<1>2. Ends(r)
  BY <1>1, FinishingEnds DEF End, TypeOK
<1>3. pc' \in [Requests -> Places]
  BY DEF End, Answer, Goto, TypeOK, Places
<1>4. answer' \in [Requests -> Answers \cup {Null}]
  BY <1>1 DEF End, Answer, answerAt, Endings, Answers, TypeOK
<1>5. QED
  BY <1>1, <1>2, <1>3, <1>4, EndsTypes, TypesKept DEF End, TypeOK

\* Failing to end a run.
LEMMA EndFailsTypes == ASSUME TypeOK, NEW r \in Requests, run[r] # Null, EndFails(r) PROVE TypeOK'
<1>1. pc[r] \in Endings /\ run[r] \in Requests
  BY DEF EndFails, Endings, TypeOK
<1>2. UNCHANGED runs \/ Ends(r)
  BY <1>1, FinishingEnds DEF EndFails, TypeOK
<1>3. pc' \in [Requests -> Places]
  BY DEF EndFails, Answer, Goto, TypeOK, Places
<1>4. answer' \in [Requests -> Answers \cup {Null}]
  BY DEF EndFails, Answer, Answers, TypeOK
<1>5. QED
  BY <1>1, <1>2, <1>3, <1>4, EndsTypes, TypesKept DEF EndFails, TypeOK

\* The process dies.
LEMMA DieTypes == ASSUME TypeOK, NEW r \in Requests, Die(r) PROVE TypeOK'
<1>1. pc' \in [Requests -> Places]
  BY DEF Die, Goto, TypeOK, Places
<1>2. asked' \in [Requests -> Policies \cup {Null}]
  BY DEF Die, TypeOK
<1>3. QED
  BY <1>1, <1>2, TypesKept DEF Die, TypeOK

\* What the two upkeep statements set.
LEMMA Marking ==
    ASSUME TypeOK, NEW i \in Requests
    PROVE  /\ MarkInterrupted(i) => RowSet(i, "failed", "interrupted")
           /\ MarkExpired(i) => RowSet(i, "expired", Null)
<1>1. ASSUME MarkInterrupted(i) PROVE RowSet(i, "failed", "interrupted")
  BY <1>1 DEF MarkInterrupted, TypeOK, RowSet, Row, Error
<1>2. ASSUME MarkExpired(i) PROVE RowSet(i, "expired", Null)
  BY <1>2 DEF MarkExpired, TypeOK, RowSet, Row
<1>3. QED
  BY <1>1, <1>2

\* Both keep the types.
LEMMA MarkTypes ==
    ASSUME TypeOK, NEW i \in Requests, MarkInterrupted(i) \/ MarkExpired(i)
    PROVE  TypeOK'
<1>1. CASE MarkInterrupted(i)
  BY <1>1, Marking, TypesKept DEF MarkInterrupted, TypeOK, Error
<1>2. CASE MarkExpired(i)
  BY <1>2, Marking, TypesKept DEF MarkExpired, TypeOK
<1>3. QED
  BY <1>1, <1>2

-----------------------------------------------------------------------------
\* The rest of the invariant, by what a step does.

Core ==
    /\ RunsNamed /\ OneRun /\ OneWorker /\ WorkedOn /\ Executions /\ RecordIsTrue
    /\ ToldDone /\ ToldOtherwise /\ ToldAgree

Plain == Answers \ {"done", "notRetained", "denied", "pending_approval", "expired", "failed"}

\* No request has tried too often.
AttemptsLeft ==
    \A q \in Requests : pc'[q] \in {"create", "find"} => attempts'[q] < IDEMPOTENCY_CLAIM_ATTEMPTS

\* A step that only moves a request: to the other way of asking for its run, on its way to the
\* implementation, or out of runOperation with no answer or one that says nothing of the run.
LEMMA MovingKeeps ==
    ASSUME IInv, NEW r \in Requests, NEW place \in Places, AttemptsLeft,
           pc' = [pc EXCEPT ![r] = place], UNCHANGED <<runs, run, executed>>,
           \/ /\ UNCHANGED answer
              /\ \/ pc[r] \in {"create", "find"} /\ place \in {"create", "find"}
                 \/ pc[r] \in Before /\ place \in Before \cup {"fail"}
                 \/ place = "over"
           \/ /\ place = "over"
              /\ \E a \in Plain : answer' = [answer EXCEPT ![r] = a]
    PROVE  Core'
<1> USE DEF IInv, TypeOK, Started, Before, Working
<1>1. RunsNamed'
  BY DEF RunsNamed, AttemptsLeft
<1>2. OneRun' /\ RecordIsTrue'
  BY DEF OneRun, RecordIsTrue, runsAgain
<1>3. OneWorker'
  BY DEF OneWorker
<1>4. WorkedOn'
  BY DEF WorkedOn
<1>5. Executions'
  BY DEF Executions
<1>6. \A q \in Requests : answer'[q] = answer[q] \/ answer'[q] \in Plain
  OBVIOUS
<1>7. ToldDone'
  BY <1>6 DEF ToldDone, Plain
<1>8. ToldOtherwise'
  BY <1>6 DEF ToldOtherwise, Plain
<1>9. ToldAgree'
  BY <1>6 DEF ToldAgree, Plain
<1>10. QED
  BY <1>1, <1>2, <1>3, <1>4, <1>5, <1>7, <1>8, <1>9 DEF Core

\* Nobody works on a run that is free to be taken, and nobody was told of its end.
LEMMA TakenIsFree ==
    ASSUME IInv, NEW r \in Requests, pc[r] = "create", NEW i \in Requests, Takes(r, i)
    PROVE  /\ KeyOf[i] = KeyOf[r] /\ (i # r => KeyOf[r] # Null)
           /\ executed[i] = 0
           /\ runs[i].status \in {"none", "failed"}
           /\ runs[i].status = "failed" => runs[i].error = "unexecuted"
           /\ \A q \in Requests : pc[q] \in Working => run[q] # i
           /\ \A j \in Requests :
                 KeyOf[j] = KeyOf[r] /\ KeyOf[r] # Null /\ runs[j].status # "none" => j = i
<1> USE DEF IInv, TypeOK
<1>1. CASE i = r /\ HolderOf(KeyOf[r]) = {}
  <2>1. runs[r].status = "none"
    BY <1>1 DEF RunsNamed, HolderOf
  <2>2. executed[i] = 0
    BY <1>1, <2>1 DEF Executions
  <2>3. \A q \in Requests : pc[q] \in Working => run[q] # i
    BY <1>1, <2>1 DEF RunsNamed
  <2>4. \A j \in Requests : ~(KeyOf[j] = KeyOf[r] /\ KeyOf[r] # Null /\ runs[j].status # "none")
    BY <1>1 DEF HolderOf
  <2>5. QED
    BY <1>1, <2>1, <2>2, <2>3, <2>4
<1>2. CASE i \in HolderOf(KeyOf[r]) /\ runs[i].status = "failed" /\ runs[i].error = "unexecuted"
  <2>1. KeyOf[i] = KeyOf[r] /\ KeyOf[r] # Null
    BY <1>2 DEF HolderOf
  <2>2. executed[i] = 0
    BY <1>2 DEF RecordIsTrue, runsAgain
  <2>3. \A q \in Requests : pc[q] \in Working => run[q] # i
    BY <1>2 DEF WorkedOn
  <2>4. \A j \in Requests : KeyOf[j] = KeyOf[r] /\ runs[j].status # "none" => j = i
    BY <1>2, <2>1 DEF OneRun
  <2>5. QED
    BY <1>2, <2>1, <2>2, <2>3, <2>4
<1>3. QED
  BY <1>1, <1>2 DEF Takes

\* A run is taken, by a request that goes on with it or that never learns of it.
LEMMA TakingKeeps ==
    ASSUME IInv, NEW r \in Requests, pc[r] = "create", NEW i \in Requests, Takes(r, i),
           UNCHANGED <<attempts, executed>>,
           \/ /\ run' = [run EXCEPT ![r] = i] /\ pc' = [pc EXCEPT ![r] = "decide"]
              /\ UNCHANGED answer
           \/ /\ UNCHANGED run /\ pc' = [pc EXCEPT ![r] = "over"]
              /\ answer' = [answer EXCEPT ![r] = "error"]
    PROVE  Core'
<1>0. /\ KeyOf[i] = KeyOf[r] /\ (i # r => KeyOf[r] # Null)
      /\ executed[i] = 0
      /\ runs[i].status \in {"none", "failed"}
      /\ runs[i].status = "failed" => runs[i].error = "unexecuted"
      /\ \A q \in Requests : pc[q] \in Working => run[q] # i
      /\ \A j \in Requests :
            KeyOf[j] = KeyOf[r] /\ KeyOf[r] # Null /\ runs[j].status # "none" => j = i
  BY TakenIsFree
<1>00. runs'[i].status = "running" /\ runs'[i].error = Null
       /\ \A j \in Requests \ {i} : runs'[j] = runs[j]
  BY DEF Takes, RowSet
<1>1. answer[r] = Null /\ run[r] = Null
  BY DEF RunsNamed, IInv
<1>2. \A q \in Requests :
         /\ q # r => pc'[q] = pc[q] /\ run'[q] = run[q] /\ answer'[q] = answer[q]
         /\ q = r => \/ pc'[q] = "decide" /\ run'[q] = i /\ answer'[q] = Null
                     \/ pc'[q] = "over" /\ run'[q] = Null /\ answer'[q] = "error"
  BY <1>1 DEF IInv, TypeOK
<1>3. \A q \in Requests : pc'[q] \in Working =>
         \/ q = r /\ run'[q] = i /\ pc'[q] = "decide"
         \/ q # r /\ pc[q] \in Working /\ pc'[q] = pc[q] /\ run'[q] = run[q] /\ run[q] # i
  BY <1>0, <1>2 DEF Working, Started, Before
<1>4. \A q \in Requests : answer'[q] \in Answers \ Plain =>
         q # r /\ answer[q] = answer'[q] /\ run'[q] = run[q]
  BY <1>2 DEF Answers, Plain
<1>5. RunsNamed'
  BY <1>0, <1>00, <1>1, <1>2, <1>3 DEF RunsNamed, IInv, TypeOK
<1>6. OneRun'
  BY <1>0, <1>00 DEF OneRun, IInv
<1>7. OneWorker'
  BY <1>3 DEF OneWorker, IInv
<1>8. WorkedOn'
  BY <1>00, <1>3 DEF WorkedOn, IInv, TypeOK, RunsNamed, Error
<1>9. Executions'
  BY <1>0, <1>00, <1>3 DEF Executions, IInv, Started
<1>10. RecordIsTrue'
  BY <1>00 DEF RecordIsTrue, runsAgain, IInv, Error
<1>11. ToldDone'
  <2> SUFFICES ASSUME NEW q \in Requests, answer'[q] \in {"done", "notRetained"}
               PROVE  /\ run'[q] # Null /\ executed[run'[q]] > 0
                      /\ runs'[run'[q]].status \in {"running", "done"} \/ runs'[run'[q]].error = "interrupted"
                      /\ \A p \in Requests : pc'[p] \in Working => run'[p] # run'[q]
    BY DEF ToldDone
  <2>1. answer'[q] \in Answers \ Plain
    BY DEF Answers, Plain
  <2>2. run[q] = run'[q] /\ answer[q] = answer'[q]
    BY <1>4, <2>1
  <2>3. run[q] \in Requests /\ run[q] # i
    BY <1>0, <2>2 DEF IInv, ToldDone, TypeOK
  <2>4. QED
    BY <1>00, <1>3, <2>2, <2>3 DEF IInv, ToldDone
<1>12. ToldOtherwise'
  <2> SUFFICES ASSUME NEW q \in Requests,
                      answer'[q] \in {"denied", "pending_approval", "expired", "failed"}
               PROVE  /\ run'[q] # Null
                      /\ \/ runs'[run'[q]].status \in {"denied", "pending_approval", "expired"}
                         \/ runs'[run'[q]].error \in {"thrown", "interrupted"}
                      /\ \A p \in Requests : pc'[p] \in Working /\ run'[p] = run'[q] => pc'[p] = "fail"
    BY DEF ToldOtherwise
  <2>1. answer'[q] \in Answers \ Plain
    BY DEF Answers, Plain
  <2>2. run[q] = run'[q] /\ answer[q] = answer'[q]
    BY <1>4, <2>1
  <2>3. run[q] \in Requests /\ run[q] # i
    BY <1>0, <2>2 DEF IInv, ToldOtherwise, TypeOK, Error
  <2>4. QED
    BY <1>00, <1>3, <2>2, <2>3 DEF IInv, ToldOtherwise
<1>13. ToldAgree'
  <2>1. \A q \in Requests :
           answer'[q] \in {"done", "notRetained", "denied", "pending_approval", "expired", "failed"} =>
               answer[q] = answer'[q] /\ run[q] = run'[q]
    BY <1>4 DEF Answers, Plain
  <2>2. QED
    BY <2>1 DEF IInv, ToldAgree
<1>14. QED
  BY <1>5, <1>6, <1>7, <1>8, <1>9, <1>10, <1>11, <1>12, <1>13 DEF Core

\* The implementation is called.
LEMMA ExecutingKeeps ==
    ASSUME IInv, NEW r \in Requests, pc[r] = "execute", NEW place \in Started,
           pc' = [pc EXCEPT ![r] = place], executed' = [executed EXCEPT ![run[r]] = @ + 1],
           UNCHANGED <<runs, run, answer, attempts>>
    PROVE  Core'
<1>0. /\ run[r] \in Requests /\ executed[run[r]] = 0 /\ runs[run[r]].status # "none"
      /\ runs[run[r]].status = "running" \/ runs[run[r]].error = "interrupted"
      /\ \A q \in Requests : pc[q] \in Working /\ run[q] = run[r] => q = r
  <2> USE DEF IInv, TypeOK, Started, Before, Working
  <2>1. run[r] \in Requests /\ runs[run[r]].status # "none"
    BY DEF RunsNamed
  <2>2. executed[run[r]] = 0
    BY <2>1 DEF Executions
  <2>3. QED
    BY <2>1, <2>2 DEF OneWorker, WorkedOn
<1>1. executed'[run[r]] = 1 /\ \A j \in Requests \ {run[r]} : executed'[j] = executed[j]
  BY <1>0 DEF IInv, TypeOK
<1> USE DEF IInv, TypeOK, Started, Before, Working
<1>2. RunsNamed' /\ OneRun'
  BY DEF RunsNamed, OneRun
<1>3. OneWorker' /\ WorkedOn'
  BY DEF OneWorker, WorkedOn
<1>4. Executions'
  <2>1. \A i \in Requests : executed'[i] <= 1 /\ (executed'[i] > 0 => runs'[i].status # "none")
    BY <1>0, <1>1 DEF Executions
  <2>2. \A q \in Requests : pc'[q] \in Working => (pc'[q] \in Started <=> executed'[run'[q]] > 0)
    BY <1>0, <1>1 DEF Executions, RunsNamed
  <2>3. QED
    BY <2>1, <2>2 DEF Executions
<1>5. RecordIsTrue'
  BY <1>0, <1>1 DEF RecordIsTrue, runsAgain, Error
<1>6. ToldDone'
  BY <1>0, <1>1 DEF ToldDone
<1>7. ToldOtherwise'
  BY <1>0 DEF ToldOtherwise
<1>8. ToldAgree'
  BY DEF ToldAgree
<1>9. QED
  BY <1>2, <1>3, <1>4, <1>5, <1>6, <1>7, <1>8 DEF Core

\* A request ends its run, or fails to, and is answered or goes on to fail the run.
LEMMA EndingKeeps ==
    ASSUME IInv, NEW r \in Requests, pc[r] \in Endings, UNCHANGED <<run, executed, attempts>>,
           UNCHANGED runs \/ Ends(r),
           \/ /\ pc[r] \in {"pend", "deny"} /\ pc' = [pc EXCEPT ![r] = "fail"]
              /\ UNCHANGED answer
           \/ /\ pc' = [pc EXCEPT ![r] = "over"]
              /\ \E a \in Answers :
                    /\ answer' = [answer EXCEPT ![r] = a]
                    /\ a \in {"done", "notRetained"} => pc[r] = "done"
                    /\ a \in {"denied", "pending_approval", "expired", "failed"} =>
                          Ends(r) /\ pc[r] \in {"pend", "deny", "denyLate", "failStarted"}
    PROVE  Core'
<1> DEFINE i == run[r]
<1>0. /\ i \in Requests /\ i # Null /\ runs[i].status # "none" /\ KeyOf[i] = KeyOf[r]
      /\ \A q \in Requests : pc[q] \in Working /\ run[q] = i => q = r
      /\ runs[i].status # "done" /\ runs[i].error \notin {"thrown", "unexecuted"}
      /\ pc[r] # "fail" => runs[i].status = "running" \/ runs[i].error = "interrupted"
      /\ pc[r] \in Started <=> executed[i] > 0
      /\ answer[r] = Null
  BY DEF IInv, TypeOK, RunsNamed, OneWorker, WorkedOn, Executions, Started, Before, Working, Endings
<1>1. /\ \A j \in Requests \ {i} : runs'[j] = runs[j]
      /\ \/ runs'[i] = runs[i]
         \/ /\ runs[i].status = "running" /\ runs'[i].status = endStatus(pc[r])
            /\ runs'[i].error = endError(pc[r])
  BY <1>0 DEF Ends, RowSet
<1>2. Ends(r) => \/ runs[i].status # "running" /\ runs'[i] = runs[i]
                 \/ runs'[i].status = endStatus(pc[r]) /\ runs'[i].error = endError(pc[r])
  BY <1>0 DEF Ends, RowSet
<1>3. /\ pc[r] = "done" => endStatus(pc[r]) = "done" /\ endError(pc[r]) = Null
      /\ pc[r] = "pend" => endStatus(pc[r]) = "pending_approval" /\ endError(pc[r]) = Null
      /\ pc[r] \in {"deny", "denyLate"} => endStatus(pc[r]) = "denied" /\ endError(pc[r]) = Null
      /\ pc[r] = "fail" => endStatus(pc[r]) = "failed" /\ endError(pc[r]) = "unexecuted"
      /\ pc[r] = "failStarted" => endStatus(pc[r]) = "failed" /\ endError(pc[r]) = "thrown"
  BY DEF endStatus, endError
<1>4. \A j \in Requests : runs'[j].status # "none" <=> runs[j].status # "none"
  BY <1>0, <1>1, <1>3 DEF Endings
<1>5. /\ \A q \in Requests \ {r} : pc'[q] = pc[q] /\ answer'[q] = answer[q]
      /\ \/ pc'[r] = "fail" /\ pc[r] \in {"pend", "deny"} /\ answer'[r] = Null
         \/ /\ pc'[r] = "over"
            /\ answer'[r] \in {"done", "notRetained"} => pc[r] = "done"
            /\ answer'[r] \in {"denied", "pending_approval", "expired", "failed"} =>
                  Ends(r) /\ pc[r] \in {"pend", "deny", "denyLate", "failStarted"}
  BY <1>0 DEF IInv, TypeOK
<1>6. /\ \A q \in Requests : pc'[q] \in Working =>
             pc[q] \in Working /\ (q # r => pc'[q] = pc[q] /\ run[q] # i)
      /\ \A q \in Requests : pc'[q] \in {"create", "find"} => pc[q] = pc'[q] /\ q # r
  BY <1>0, <1>5 DEF Started, Before, Working
<1> HIDE DEF i
<1>7. RunsNamed'
  <2> SUFFICES ASSUME NEW q \in Requests
               PROVE  /\ pc'[q] \in {"create", "find"} =>
                            /\ run[q] = Null /\ answer'[q] = Null
                            /\ attempts[q] < IDEMPOTENCY_CLAIM_ATTEMPTS
                            /\ KeyOf[q] = Null => runs'[q].status = "none"
                      /\ pc'[q] \in Working => run[q] # Null /\ answer'[q] = Null
                      /\ run[q] # Null => KeyOf[run[q]] = KeyOf[q] /\ runs'[run[q]].status # "none"
    BY DEF RunsNamed
  <2>1. pc'[q] \in {"create", "find"} =>
            /\ run[q] = Null /\ answer'[q] = Null
            /\ attempts[q] < IDEMPOTENCY_CLAIM_ATTEMPTS
            /\ KeyOf[q] = Null => runs'[q].status = "none"
    BY <1>4, <1>5, <1>6 DEF RunsNamed, IInv
  <2>2. ASSUME pc'[q] \in Working PROVE run[q] # Null /\ answer'[q] = Null
    <3>1. pc[q] \in Working /\ run[q] # Null /\ answer[q] = Null
      BY <1>6, <2>2 DEF RunsNamed, IInv
    <3>2. CASE q = r
      BY <1>5, <2>2, <3>1, <3>2 DEF Working, Started, Before
    <3>3. CASE q # r
      BY <1>5, <3>1, <3>3
    <3>4. QED
      BY <3>2, <3>3
  <2>3. run[q] # Null => KeyOf[run[q]] = KeyOf[q] /\ runs'[run[q]].status # "none"
    BY <1>4 DEF RunsNamed, IInv, TypeOK
  <2>4. QED
    BY <2>1, <2>2, <2>3
<1>8. OneRun'
  BY <1>4 DEF OneRun, IInv
<1>9. OneWorker'
  BY <1>6 DEF OneWorker, IInv
<1>10. WorkedOn'
  BY <1>0, <1>1, <1>3, <1>5, <1>6 DEF WorkedOn, IInv, TypeOK, i, Working, Started, Before, RunsNamed
<1>11. Executions'
  BY <1>0, <1>4, <1>5, <1>6 DEF Executions, IInv, i, Started, Working, Before
<1>12. RecordIsTrue'
  BY <1>0, <1>1, <1>3 DEF RecordIsTrue, runsAgain, IInv, TypeOK, Endings, Started
<1>13. ToldDone'
  <2> SUFFICES ASSUME NEW q \in Requests, answer'[q] \in {"done", "notRetained"}
               PROVE  /\ run[q] # Null /\ executed[run[q]] > 0
                      /\ runs'[run[q]].status \in {"running", "done"} \/ runs'[run[q]].error = "interrupted"
                      /\ \A p \in Requests : pc'[p] \in Working => run[p] # run[q]
    BY DEF ToldDone
  <2>1. CASE q = r
    <3>1. pc[r] = "done" /\ pc'[r] = "over" /\ run[q] = i
      BY <1>5, <2>1 DEF i, Answers
    <3>2. QED
      BY <1>0, <1>1, <1>3, <1>6, <2>1, <3>1 DEF Started, Working, Before, i
  <2>2. CASE q # r
    <3>1. answer[q] = answer'[q]
      BY <1>5, <2>2
    <3>2. run[q] # i
      BY <3>1 DEF IInv, ToldDone, i, Endings, Working, Started, Before
    <3>3. run[q] \in Requests
      BY <3>1 DEF IInv, ToldDone, TypeOK
    <3>4. QED
      BY <1>1, <1>6, <3>1, <3>2, <3>3 DEF IInv, ToldDone
  <2>3. QED
    BY <2>1, <2>2
<1>14. ToldOtherwise'
  <2> SUFFICES ASSUME NEW q \in Requests,
                      answer'[q] \in {"denied", "pending_approval", "expired", "failed"}
               PROVE  /\ run[q] # Null
                      /\ \/ runs'[run[q]].status \in {"denied", "pending_approval", "expired"}
                         \/ runs'[run[q]].error \in {"thrown", "interrupted"}
                      /\ \A p \in Requests : pc'[p] \in Working /\ run[p] = run[q] => pc'[p] = "fail"
    BY DEF ToldOtherwise
  <2>1. CASE q = r
    <3>1. /\ Ends(r) /\ pc[r] \in {"pend", "deny", "denyLate", "failStarted"}
          /\ pc'[r] = "over" /\ run[q] = i
      BY <1>5, <2>1 DEF i, Answers
    <3>2. QED
      BY <1>0, <1>2, <1>3, <1>6, <2>1, <3>1 DEF i, Working, Started, Before
  <2>2. CASE q # r
    <3>1. /\ answer[q] = answer'[q] /\ run[q] \in Requests /\ run[q] # Null
          /\ \/ runs[run[q]].status \in {"denied", "pending_approval", "expired"}
             \/ runs[run[q]].error \in {"thrown", "interrupted"}
          /\ \A p \in Requests : pc[p] \in Working /\ run[p] = run[q] => pc[p] = "fail"
      BY <1>5, <2>2 DEF IInv, ToldOtherwise, TypeOK
    <3>2. CASE run[q] # i
      BY <1>1, <1>6, <3>1, <3>2 DEF i
    <3>3. CASE run[q] = i
      <4>1. pc[r] = "fail" /\ runs[i].status # "running"
        BY <3>1, <3>3, <1>0 DEF i, Endings, Working, Started, Before, IInv, TypeOK, Error
      <4>2. runs'[i] = runs[i] /\ pc'[r] = "over"
        BY <1>1, <1>5, <4>1
      <4>3. QED
        BY <1>5, <1>6, <3>1, <3>3, <4>1, <4>2 DEF i, Working, Started, Before
    <3>4. QED
      BY <3>2, <3>3
  <2>3. QED
    BY <2>1, <2>2
<1>15. ToldAgree'
  <2> SUFFICES ASSUME NEW p \in Requests, NEW q \in Requests, run[p] = run[q],
                      answer'[p] \in {"done", "notRetained"},
                      answer'[q] \in {"denied", "pending_approval", "expired", "failed"}
               PROVE  FALSE
    BY DEF ToldAgree
  <2>1. CASE p = r
    <3>1. pc[r] = "done" /\ q # r /\ answer[q] = answer'[q] /\ run[q] = i
      BY <1>5, <2>1 DEF i, Answers
    <3>2. QED
      BY <3>1 DEF IInv, ToldOtherwise, Working, Started, i
  <2>2. CASE q = r
    <3>1. pc[r] \in Working /\ p # r /\ answer[p] = answer'[p] /\ run[p] = i
      BY <1>5, <2>2 DEF i, Endings, Working, Started, Before
    <3>2. QED
      BY <3>1 DEF IInv, ToldDone, i
  <2>3. CASE p # r /\ q # r
    BY <1>5, <2>3 DEF IInv, ToldAgree
  <2>4. QED
    BY <2>1, <2>2, <2>3
<1>16. QED
  BY <1>7, <1>8, <1>9, <1>10, <1>11, <1>12, <1>13, <1>14, <1>15 DEF Core

\* A request is answered from the run that holds its key.
LEMMA ReplayingKeeps ==
    ASSUME IInv, NEW r \in Requests, pc[r] = "find", NEW a \in Answers, NEW i \in Requests,
           Replays(r, i, a), AttemptsLeft,
           answer' = [answer EXCEPT ![r] = a], pc' = [pc EXCEPT ![r] = "over"],
           UNCHANGED <<runs, executed>>
    PROVE  Core'
<1>0. /\ KeyOf[i] = KeyOf[r] /\ runs[i].status # "none" /\ run'[r] = i
      /\ \A q \in Requests \ {r} : run'[q] = run[q] /\ answer'[q] = answer[q] /\ pc'[q] = pc[q]
      /\ answer'[r] = a /\ pc'[r] = "over" /\ i # Null
      /\ a \in {"done", "notRetained"} => runs[i].status = "done"
      /\ a \in {"denied", "pending_approval", "expired", "failed"} => runs[i].status = a
      /\ a = "failed" => runs[i].error = "thrown"
  BY DEF Replays, HolderOf, IInv, TypeOK
<1>00. \A q \in Requests :
          /\ pc'[q] \in Working => q # r /\ pc[q] \in Working /\ pc'[q] = pc[q] /\ run'[q] = run[q]
          /\ pc'[q] \in {"create", "find"} => q # r /\ pc'[q] = pc[q]
  BY <1>0 DEF Working, Started, Before
<1>1. RunsNamed'
  BY <1>0, <1>00 DEF RunsNamed, IInv, AttemptsLeft
<1>2. OneRun' /\ RecordIsTrue'
  BY DEF OneRun, RecordIsTrue, runsAgain, IInv
<1>3. OneWorker'
  BY <1>00 DEF OneWorker, IInv
<1>4. WorkedOn'
  BY <1>00 DEF WorkedOn, IInv
<1>5. Executions'
  BY <1>00 DEF Executions, IInv
<1>6. ToldDone'
  <2>1. runs[i].status = "done" => executed[i] > 0 /\ \A q \in Requests : pc[q] \in Working => run[q] # i
    BY DEF IInv, RecordIsTrue, WorkedOn
  <2>2. QED
    BY <1>0, <1>00, <2>1 DEF ToldDone, IInv
<1>7. ToldOtherwise'
  <2>1. a \in {"denied", "pending_approval", "expired", "failed"} =>
          \A q \in Requests : pc[q] \in Working /\ run[q] = i => pc[q] = "fail"
    BY <1>0 DEF IInv, WorkedOn, TypeOK, Error
  <2>2. QED
    BY <1>0, <1>00, <2>1 DEF ToldOtherwise, IInv
<1>8. ToldAgree'
  <2>1. runs[i].status \in {"denied", "pending_approval", "expired", "done"} => runs[i].error = Null
    BY DEF IInv, TypeOK
  <2>2. \A q \in Requests : answer[q] \in {"done", "notRetained"} =>
          run[q] # i \/ runs[i].status \in {"running", "done"} \/ runs[i].error = "interrupted"
    BY DEF IInv, ToldDone
  <2>3. \A q \in Requests : answer[q] \in {"denied", "pending_approval", "expired", "failed"} =>
          run[q] # i \/ runs[i].status \in {"denied", "pending_approval", "expired"}
                     \/ runs[i].error \in {"thrown", "interrupted"}
    BY DEF IInv, ToldOtherwise
  <2>4. ASSUME NEW p \in Requests, NEW q \in Requests, run'[p] = run'[q],
               answer'[p] \in {"done", "notRetained"},
               answer'[q] \in {"denied", "pending_approval", "expired", "failed"}
        PROVE  FALSE
    <3>1. CASE p # r /\ q # r
      BY <1>0, <2>4, <3>1 DEF IInv, ToldAgree
    <3>2. CASE p = r
      <4>1. q # r /\ run[q] = i /\ answer[q] = answer'[q] /\ runs[i].status = "done"
        BY <1>0, <2>4, <3>2
      <4>2. QED
        BY <2>1, <2>3, <2>4, <4>1 DEF IInv, TypeOK, Error
    <3>3. CASE q = r
      <4>1. p # r /\ run[p] = i /\ answer[p] = answer'[p] /\ runs[i].status = a
            /\ a \in {"denied", "pending_approval", "expired", "failed"}
        BY <1>0, <2>4, <3>3
      <4>2. QED
        BY <1>0, <2>1, <2>2, <2>4, <4>1 DEF Error
    <3>4. QED
      BY <3>1, <3>2, <3>3
  <2>5. QED
    BY <2>4 DEF ToldAgree
<1>9. QED
  BY <1>1, <1>2, <1>3, <1>4, <1>5, <1>6, <1>7, <1>8 DEF Core

\* A run is taken as interrupted, or expires.
LEMMA MarkingKeeps ==
    ASSUME IInv, NEW i \in Requests, MarkInterrupted(i) \/ MarkExpired(i)
    PROVE  Core'
<1>0. /\ \A j \in Requests \ {i} : runs'[j] = runs[j]
      /\ \/ /\ runs[i].status = "running"
            /\ runs'[i].status = "failed" /\ runs'[i].error = "interrupted"
         \/ /\ runs[i].status = "pending_approval" /\ runs[i].error = Null
            /\ runs'[i].status = "expired" /\ runs'[i].error = Null
  BY Marking DEF MarkInterrupted, MarkExpired, RowSet, IInv, TypeOK
<1>00. UNCHANGED <<pc, run, attempts, answer, executed>>
  BY DEF MarkInterrupted, MarkExpired
<1>1. RunsNamed'
  BY <1>0, <1>00 DEF RunsNamed, IInv, TypeOK
<1>2. OneRun' /\ OneWorker'
  BY <1>0, <1>00 DEF OneRun, OneWorker, IInv
<1>3. WorkedOn'
  BY <1>0, <1>00 DEF WorkedOn, IInv, TypeOK, RunsNamed
<1>4. Executions'
  BY <1>0, <1>00 DEF Executions, IInv
<1>5. RecordIsTrue'
  BY <1>0, <1>00 DEF RecordIsTrue, runsAgain, IInv
<1>6. ToldDone'
  BY <1>0, <1>00 DEF ToldDone, IInv, TypeOK
<1>7. ToldOtherwise'
  BY <1>0, <1>00 DEF ToldOtherwise, IInv, TypeOK
<1>8. ToldAgree'
  BY <1>00 DEF ToldAgree, IInv
<1>9. QED
  BY <1>1, <1>2, <1>3, <1>4, <1>5, <1>6, <1>7, <1>8 DEF Core

-----------------------------------------------------------------------------
\* Every step preserves the invariant.
LEMMA NextIInv == IInv /\ [Next]_vars => IInv'
<1> SUFFICES ASSUME IInv, [Next]_vars PROVE IInv'
  OBVIOUS
<1>0. TypeOK /\ RunsNamed
  BY DEF IInv
<1>1. \A q \in Requests : pc[q] \in {"create", "find"} => attempts[q] < IDEMPOTENCY_CLAIM_ATTEMPTS
  BY <1>0 DEF RunsNamed
<1> SUFFICES TypeOK' /\ Core'
  BY DEF IInv, Core
<1>2. ASSUME NEW r \in Requests, Create(r) PROVE TypeOK' /\ Core'
  <2>1. CASE UNCHANGED <<runs, run>> /\ pc' = [pc EXCEPT ![r] = "find"]
    <3>1. AttemptsLeft /\ "find" \in Places
      BY <1>0, <1>1, <1>2, <2>1 DEF AttemptsLeft, Create, TypeOK, Places
    <3>2. QED
      BY <1>0, <1>2, <2>1, <3>1, CreateTypes, MovingKeeps DEF Create
  <2>2. ASSUME NEW i \in Requests, Takes(r, i), run' = [run EXCEPT ![r] = i],
               pc' = [pc EXCEPT ![r] = "decide"]
        PROVE  Core'
    BY <1>2, <2>2, TakingKeeps DEF Create
  <2>3. QED
    BY <1>0, <1>2, <2>1, <2>2, Creating, CreateTypes DEF Create
<1>3. ASSUME NEW r \in Requests, CreateFails(r) PROVE TypeOK' /\ Core'
  <2>1. /\ pc[r] = "create" /\ pc' = [pc EXCEPT ![r] = "over"]
        /\ answer' = [answer EXCEPT ![r] = "error"] /\ UNCHANGED <<run, attempts, executed>>
    BY <1>3 DEF CreateFails, Answer, Goto
  <2>2. CASE UNCHANGED runs
    <3>1. AttemptsLeft /\ "over" \in Places /\ "error" \in Plain
      BY <1>0, <1>1, <2>1 DEF AttemptsLeft, TypeOK, Places, Plain, Answers
    <3>2. QED
      BY <1>0, <1>3, <2>1, <2>2, <3>1, CreateFailsTypes, MovingKeeps
  <2>3. ASSUME NEW i \in Requests, Takes(r, i) PROVE Core'
    BY <2>1, <2>3, TakingKeeps
  <2>4. QED
    BY <1>0, <1>3, <2>2, <2>3, FailedCreating, CreateFailsTypes
<1>4. ASSUME NEW r \in Requests, Find(r) PROVE TypeOK' /\ Core'
  <2>1. pc[r] = "find" /\ UNCHANGED <<runs, executed>> /\ TypeOK'
    BY <1>0, <1>4, FindTypes DEF Find
  <2>2. CASE UNCHANGED <<run, answer>> /\ pc' = [pc EXCEPT ![r] = "create"]
    <3>1. "create" # "over" /\ "create" \in Places
      BY DEF Places
    <3>2. pc'[r] = "create"
      BY <1>0, <2>2 DEF TypeOK
    <3>3. /\ attempts' = [attempts EXCEPT ![r] = @ + 1]
          /\ attempts[r] + 1 < IDEMPOTENCY_CLAIM_ATTEMPTS
      BY <1>4, <3>1, <3>2, <1>0 DEF Find, Answer, Goto, TypeOK
    <3>4. AttemptsLeft
      BY <1>0, <1>1, <2>2, <3>3 DEF AttemptsLeft, TypeOK
    <3>5. QED
      BY <2>1, <2>2, <3>1, <3>4, MovingKeeps
  <2>3. ASSUME NEW a \in Answers, answer' = [answer EXCEPT ![r] = a],
               pc' = [pc EXCEPT ![r] = "over"],
               \/ UNCHANGED run /\ a \in {"keyReused", "error"}
               \/ \E i \in Requests : Replays(r, i, a)
        PROVE  Core'
    <3>1. \A q \in Requests \ {r} : attempts'[q] = attempts[q] /\ pc'[q] = pc[q]
      BY <1>0, <1>4, <2>3 DEF Find, TypeOK
    <3>2. pc'[r] = "over"
      BY <1>0, <2>3 DEF TypeOK
    <3>3. AttemptsLeft /\ "over" \in Places
      BY <1>1, <3>1, <3>2 DEF AttemptsLeft, Places
    <3>4. CASE UNCHANGED run /\ a \in {"keyReused", "error"}
      <4>1. a \in Plain
        BY <3>4 DEF Plain
      <4>2. QED
        BY <2>1, <2>3, <3>3, <3>4, <4>1, MovingKeeps
    <3>5. ASSUME NEW i \in Requests, Replays(r, i, a) PROVE Core'
      BY <2>1, <2>3, <3>3, <3>5, ReplayingKeeps
    <3>6. QED
      BY <2>3, <3>4, <3>5
  <2>4. QED
    BY <1>0, <1>4, <2>1, <2>2, <2>3, Finding
<1>5. ASSUME NEW r \in Requests, NEW p \in Policies, Decide(r, p) PROVE TypeOK' /\ Core'
  <2>1. /\ pc[r] = "decide" /\ UNCHANGED <<runs, run, attempts, answer, executed>>
        /\ \E place \in Before \cup {"fail"} : pc' = [pc EXCEPT ![r] = place]
    BY <1>5, ResolutionType DEF Decide, Goto, Before
  <2>2. PICK place \in Before \cup {"fail"} : pc' = [pc EXCEPT ![r] = place]
    BY <2>1
  <2>3. AttemptsLeft /\ place \in Places /\ pc[r] \in Before
    BY <1>0, <1>1, <2>1, <2>2 DEF AttemptsLeft, TypeOK, Places, Before
  <2>4. QED
    BY <1>0, <1>5, <2>1, <2>2, <2>3, DecideTypes, MovingKeeps
<1>6. ASSUME NEW r \in Requests, RequestApproval(r) PROVE TypeOK' /\ Core'
  <2>1. /\ pc[r] = "approve" /\ UNCHANGED <<runs, run, attempts, answer, executed>>
        /\ \E place \in {"pend", "fail"} : pc' = [pc EXCEPT ![r] = place]
    BY <1>6 DEF RequestApproval, Goto
  <2>2. PICK place \in {"pend", "fail"} : pc' = [pc EXCEPT ![r] = place]
    BY <2>1
  <2>3. AttemptsLeft /\ place \in Places /\ place \in Before \cup {"fail"} /\ pc[r] \in Before
    BY <1>0, <1>1, <2>1, <2>2 DEF AttemptsLeft, TypeOK, Places, Before
  <2>4. QED
    BY <1>0, <1>6, <2>1, <2>2, <2>3, RequestApprovalTypes, MovingKeeps
<1>7. ASSUME NEW r \in Requests, Execute(r) PROVE TypeOK' /\ Core'
  <2>1. pc[r] = "execute" /\ UNCHANGED <<runs, run, attempts, answer>> /\ TypeOK'
    BY <1>0, <1>7, ExecuteTypes DEF Execute
  <2>2. CASE pc' = [pc EXCEPT ![r] = "fail"] /\ UNCHANGED executed
    <3>1. AttemptsLeft /\ "fail" \in Places /\ pc[r] \in Before
      BY <1>0, <1>1, <2>1, <2>2 DEF AttemptsLeft, TypeOK, Places, Before
    <3>2. QED
      BY <2>1, <2>2, <3>1, MovingKeeps
  <2>3. ASSUME NEW place \in Started, pc' = [pc EXCEPT ![r] = place],
               executed' = [executed EXCEPT ![run[r]] = @ + 1]
        PROVE  Core'
    BY <2>1, <2>3, ExecutingKeeps
  <2>4. QED
    BY <1>7, <2>1, <2>2, <2>3 DEF Execute, Goto, Started
<1>8. ASSUME NEW r \in Requests, End(r) \/ EndFails(r) PROVE TypeOK' /\ Core'
  <2>1. /\ pc[r] \in Endings /\ run[r] # Null /\ run[r] \in Requests
        /\ UNCHANGED <<run, attempts, executed>>
    BY <1>0, <1>8 DEF End, EndFails, Endings, RunsNamed, Working, Started, Before, TypeOK
  <2>2. TypeOK'
    BY <1>0, <1>8, <2>1, EndTypes, EndFailsTypes
  <2>3. CASE End(r)
    <3>1. Ends(r)
      BY <1>0, <2>1, <2>3, FinishingEnds DEF End, TypeOK
    <3>2. /\ pc' = [pc EXCEPT ![r] = "over"] /\ answer' = [answer EXCEPT ![r] = answerAt(pc[r])]
          /\ answerAt(pc[r]) \in Answers
          /\ answerAt(pc[r]) \in {"done", "notRetained"} => pc[r] = "done"
          /\ answerAt(pc[r]) \in {"denied", "pending_approval", "expired", "failed"} =>
                pc[r] \in {"pend", "deny", "denyLate", "failStarted"}
      BY <2>1, <2>3 DEF End, Answer, Goto, answerAt, Endings, Answers
    <3>3. QED
      BY <2>1, <2>2, <3>1, <3>2, EndingKeeps
  <2>4. CASE EndFails(r)
    <3>1. UNCHANGED runs \/ Ends(r)
      BY <1>0, <2>1, <2>4, FinishingEnds DEF EndFails, TypeOK
    <3>2. \/ /\ pc[r] \in {"pend", "deny"} /\ pc' = [pc EXCEPT ![r] = "fail"]
             /\ UNCHANGED answer
          \/ /\ pc' = [pc EXCEPT ![r] = "over"]
             /\ \E a \in Answers :
                   /\ answer' = [answer EXCEPT ![r] = a]
                   /\ a \in {"done", "notRetained"} => pc[r] = "done"
                   /\ a \notin {"denied", "pending_approval", "expired", "failed"}
      BY <2>4 DEF EndFails, Answer, Goto, Answers
    <3>3. QED
      BY <2>1, <2>2, <3>1, <3>2, EndingKeeps
  <2>5. QED
    BY <1>8, <2>3, <2>4
<1>9. ASSUME NEW r \in Requests, Die(r) PROVE TypeOK' /\ Core'
  <2>1. pc' = [pc EXCEPT ![r] = "over"] /\ UNCHANGED <<runs, run, attempts, answer, executed>>
    BY <1>9 DEF Die, Goto
  <2>2. AttemptsLeft /\ "over" \in Places
    BY <1>0, <1>1, <2>1 DEF AttemptsLeft, TypeOK, Places
  <2>3. QED
    BY <1>0, <1>9, <2>1, <2>2, DieTypes, MovingKeeps
<1>10. ASSUME NEW i \in Requests, MarkInterrupted(i) \/ MarkExpired(i) PROVE TypeOK' /\ Core'
  BY <1>0, <1>10, MarkTypes, MarkingKeeps
<1>11. ASSUME UNCHANGED vars PROVE TypeOK' /\ Core'
  BY <1>11 DEF vars, IInv, Core, TypeOK, RunsNamed, OneRun, OneWorker, WorkedOn, Executions,
               RecordIsTrue, runsAgain, ToldDone, ToldOtherwise, ToldAgree
<1>12. QED
  BY <1>2, <1>3, <1>4, <1>5, <1>6, <1>7, <1>8, <1>9, <1>10, <1>11 DEF Next, Done

\* The invariant holds throughout.
LEMMA Invariance == Spec => []IInv
BY InitIInv, NextIInv, PTL DEF Spec

\* The rows and requests of operation runs keep their types, and a failed run says why.
THEOREM TypeCorrect == Spec => []TypeOK
<1>1. IInv => TypeOK
  BY DEF IInv
<1>2. QED
  BY <1>1, Invariance, PTL

\* However calls with one key fail, die or take its run over from each other, the operation is
\* started once.
THEOREM OperationExecutedOnce == Spec => []ExecutedOnce
<1>1. IInv => ExecutedOnce
  BY DEF IInv, TypeOK, Executions, OneRun, ExecutedOnce
<1>2. QED
  BY <1>1, Invariance, PTL

\* What the row of a run says of its end is true of what happened.
THEOREM OperationRecordIsTrue == Spec => []RecordIsTrue
<1>1. IInv => RecordIsTrue
  BY DEF IInv
<1>2. QED
  BY <1>1, Invariance, PTL

\* Callers with one key and one call are told things that agree.
THEOREM OperationAnswersAgree == Spec => []AnswersAgree
<1>1. IInv => AnswersAgree
  <2> SUFFICES ASSUME IInv, NEW r \in Requests, NEW q \in Requests,
                      KeyOf[r] = KeyOf[q], KeyOf[r] # Null, answer[r] \in {"done", "notRetained"},
                      answer[q] \in {"denied", "pending_approval", "expired", "failed"}
               PROVE  FALSE
    BY DEF AnswersAgree
  <2>1. run[r] \in Requests /\ KeyOf[run[r]] = KeyOf[r] /\ runs[run[r]].status # "none"
    BY DEF IInv, TypeOK, RunsNamed, ToldDone
  <2>2. run[q] \in Requests /\ KeyOf[run[q]] = KeyOf[q] /\ runs[run[q]].status # "none"
    BY DEF IInv, TypeOK, RunsNamed, ToldOtherwise
  <2>3. run[r] = run[q]
    BY <2>1, <2>2 DEF IInv, OneRun
  <2>4. QED
    BY <2>3 DEF IInv, ToldAgree
<1>2. QED
  BY <1>1, Invariance, PTL

\* A call is executed only where no target and no guardrail asks for more than its caller's call.
THEOREM OperationPolicyKept == Spec => []PolicyKept
<1> DEFINE Asked == \A r \in Requests : asked[r] # Null => Kept(asked[r])
<1>1. Init => Asked
  BY DEF Init
<1>2. IInv /\ Asked /\ [Next]_vars => Asked'
  <2> SUFFICES ASSUME IInv, Asked, [Next]_vars, NEW r \in Requests, asked'[r] # Null
               PROVE  Kept(asked'[r])
    BY DEF Kept
  <2>1. CASE asked'[r] = asked[r]
    BY <2>1
  <2>2. CASE asked'[r] # asked[r]
    <3>1. asked \in [Requests -> Policies \cup {Null}]
      BY DEF IInv, TypeOK
    <3>2. PICK q \in Requests, p \in Policies : Decide(q, p)
      BY <2>2, <3>1 DEF Next, Create, CreateFails, Find, RequestApproval, Execute, End, EndFails, Die,
                        MarkInterrupted, MarkExpired, Done, vars
    <3>3. resolvePolicy(p) = "run" /\ asked'[r] = p
      BY <2>2, <3>1, <3>2 DEF Decide
    <3>4. QED
      BY <3>3, RunIsKept
  <2>3. QED
    BY <2>1, <2>2
<1>3. Asked => PolicyKept
  BY DEF PolicyKept, Kept
<1>4. QED
  BY <1>1, <1>2, <1>3, Invariance, PTL DEF Spec

\* An ended run keeps its end, except one that runs again or expires.
THEOREM OperationEndIsFinal == Spec => EndIsFinal
<1> DEFINE Final == \A i \in Requests :
               runs[i].status \notin {"none", "running", "pending_approval"} /\ ~runsAgain(runs[i])
                   => runs'[i] = runs[i]
<1>1. IInv /\ [Next]_vars => [Final]_vars
  <2> SUFFICES ASSUME IInv, Next PROVE Final
    OBVIOUS
  <2>0. TypeOK /\ RunsNamed
    BY DEF IInv
  <2>1. ASSUME NEW r \in Requests, NEW i \in Requests, Takes(r, i), pc[r] = "create" PROVE Final
    <3>1. \/ runs[i].status = "none"
          \/ runs[i].status = "failed" /\ runs[i].error = "unexecuted"
      BY <2>1, TakenIsFree
    <3>2. QED
      BY <2>1, <3>1 DEF Takes, RowSet, runsAgain
  <2>2. ASSUME NEW r \in Requests, Create(r) PROVE Final
    BY <2>0, <2>1, <2>2, Creating DEF Create
  <2>3. ASSUME NEW r \in Requests, CreateFails(r) PROVE Final
    <3>1. pc[r] = "create"
      BY <2>3 DEF CreateFails
    <3>2. QED
      BY <2>0, <2>1, <2>3, <3>1, FailedCreating
  <2>4. ASSUME NEW r \in Requests, End(r) \/ EndFails(r) PROVE Final
    <3>1. pc[r] \in Endings /\ run[r] \in Requests /\ runs \in [Requests -> Row]
      BY <2>0, <2>4 DEF End, EndFails, Endings, RunsNamed, Working, Started, Before, TypeOK
    <3>2. UNCHANGED runs \/ Ends(r)
      BY <2>4, <3>1, FinishingEnds DEF End, EndFails
    <3>3. QED
      BY <3>1, <3>2 DEF Ends, RowSet
  <2>5. ASSUME NEW i \in Requests, MarkInterrupted(i) \/ MarkExpired(i) PROVE Final
    BY <2>0, <2>5, Marking DEF MarkInterrupted, MarkExpired, RowSet
  <2>6. ASSUME UNCHANGED runs PROVE Final
    BY <2>6
  <2>7. QED
    BY <2>2, <2>3, <2>4, <2>5, <2>6
       DEF Next, Find, Decide, RequestApproval, Execute, Die, Done, vars
<1>2. QED
  BY <1>1, Invariance, PTL DEF Spec, EndIsFinal

-----------------------------------------------------------------------------
\* The refinement.

\* What happened under each key, by how often the implementation was started for each run, and that
\* it was for one run of a key.
ResultOf(f) ==
    [k \in Keys |-> IF \E i \in Requests : KeyOf[i] = k /\ f[i] > 0
                    THEN CHOOSE i \in Requests : KeyOf[i] = k /\ f[i] > 0 ELSE Null]

OneOfKey(f) ==
    \A i, j \in Requests : KeyOf[i] = KeyOf[j] /\ KeyOf[i] \in Keys /\ f[i] > 0 /\ f[j] > 0 => i = j

\* What happened under a key is its started run.
LEMMA ResultIs ==
    ASSUME NEW f, OneOfKey(f), NEW i \in Requests, KeyOf[i] \in Keys, f[i] > 0
    PROVE  ResultOf(f)[KeyOf[i]] = i
<1> DEFINE P(j) == KeyOf[j] = KeyOf[i] /\ f[j] > 0
<1>1. \A j \in Requests : P(j) => j = i
  BY DEF OneOfKey
<1>2. ResultOf(f)[KeyOf[i]] = CHOOSE j \in Requests : P(j)
  BY DEF ResultOf
<1>3. P(CHOOSE j \in Requests : P(j)) /\ (CHOOSE j \in Requests : P(j)) \in Requests
  OBVIOUS
<1>4. QED
  BY <1>1, <1>2, <1>3

\* Nothing happened under a key no run of which was started.
LEMMA NoResult ==
    ASSUME NEW f, NEW k \in Keys, \A i \in Requests : KeyOf[i] = k => ~(f[i] > 0)
    PROVE  ResultOf(f)[k] = Null
BY DEF ResultOf

\* A step from which a request learns that its call was made, or nobody learns anything.
LEMMA Telling ==
    ASSUME IInv, IInv', UNCHANGED executed, NEW r \in Requests,
           \A q \in Requests \ {r} : answer'[q] = answer[q] /\ run'[q] = run[q],
           answer[r] = Null \/ (answer'[r] = answer[r] /\ run'[r] = run[r])
    PROVE  [Call!Next]_(Call!vars)
<1>1. result' = result
  BY DEF result
<1>2. told \in [Requests -> Requests \cup {Null}] /\ told' \in [Requests -> Requests \cup {Null}]
  BY DEF told, IInv, TypeOK
<1>3. \A q \in Requests \ {r} : told'[q] = told[q]
  BY DEF told
<1>4. CASE told'[r] = told[r]
  <2>1. told' = told
    BY <1>2, <1>3, <1>4
  <2>2. QED
    BY <1>1, <2>1 DEF Call!vars
<1>5. CASE told'[r] # told[r]
  <2>1. answer[r] = Null
    BY <1>5 DEF told
  <2>2. told[r] = Null
    BY <2>1 DEF told, Answers
  <2>3. /\ KeyOf[r] \in Keys /\ answer'[r] \in {"done", "notRetained"} /\ told'[r] = run'[r]
    BY <1>5, <2>2 DEF told
  <2>4. /\ run'[r] \in Requests /\ KeyOf[run'[r]] = KeyOf[r] /\ executed[run'[r]] > 0
    BY <2>3 DEF IInv, TypeOK, RunsNamed, ToldDone
  <2>5. OneOfKey(executed)
    BY DEF IInv, TypeOK, OneRun, Executions, OneOfKey
  <2>6. ResultOf(executed)[KeyOf[run'[r]]] = run'[r]
    BY <2>3, <2>4, <2>5, ResultIs
  <2>7. result[KeyOf[r]] = run'[r]
    BY <2>4, <2>6 DEF result, ResultOf
  <2>8. told' = [told EXCEPT ![r] = result'[KeyOf[r]]]
    BY <1>1, <1>2, <1>3, <2>3, <2>7
  <2>9. Call!Tells(r)
    BY <1>1, <2>2, <2>3, <2>4, <2>7, <2>8 DEF Call!Tells
  <2>10. QED
    BY <1>1, <2>9 DEF Call!Next
<1>6. QED
  BY <1>4, <1>5

\* The step that calls the implementation is the one in which the call of its key happens.
LEMMA Happening ==
    ASSUME IInv, IInv', NEW r \in Requests, pc[r] = "execute", UNCHANGED <<run, answer>>,
           executed' = [executed EXCEPT ![run[r]] = @ + 1]
    PROVE  [Call!Next]_(Call!vars)
<1> DEFINE i == run[r]
<1>1. /\ i \in Requests /\ executed[i] = 0 /\ runs[i].status # "none"
  BY DEF IInv, TypeOK, RunsNamed, Executions, Working, Started, Before
<1>2. executed'[i] > 0 /\ \A j \in Requests \ {i} : executed'[j] = executed[j]
  BY <1>1 DEF IInv, TypeOK
<1>3. OneOfKey(executed) /\ OneOfKey(executed')
  BY DEF IInv, TypeOK, OneRun, Executions, OneOfKey
<1>4. told' = told
  BY DEF told
<1>5. result = ResultOf(executed) /\ result' = ResultOf(executed')
  BY DEF result, ResultOf
<1>6. \A k \in Keys \ {KeyOf[i]} : result'[k] = result[k]
  <2> SUFFICES ASSUME NEW k \in Keys, k # KeyOf[i] PROVE ResultOf(executed')[k] = ResultOf(executed)[k]
    BY <1>5
  <2>1. CASE \E j \in Requests : KeyOf[j] = k /\ executed[j] > 0
    <3>1. PICK j \in Requests : KeyOf[j] = k /\ executed[j] > 0
      BY <2>1
    <3>2. executed'[j] > 0
      BY <1>2, <3>1
    <3>3. ResultOf(executed)[KeyOf[j]] = j
      BY <1>3, <3>1, ResultIs
    <3>4. ResultOf(executed')[KeyOf[j]] = j
      BY <1>3, <3>1, <3>2, ResultIs
    <3>5. QED
      BY <3>1, <3>3, <3>4
  <2>2. CASE \A j \in Requests : KeyOf[j] = k => ~(executed[j] > 0)
    <3>1. \A j \in Requests : KeyOf[j] = k => ~(executed'[j] > 0)
      BY <1>2, <2>2
    <3>2. ResultOf(executed)[k] = Null
      BY <2>2, NoResult
    <3>3. ResultOf(executed')[k] = Null
      BY <3>1, NoResult
    <3>4. QED
      BY <3>2, <3>3
  <2>3. QED
    BY <2>1, <2>2
<1>7. DOMAIN result = Keys /\ DOMAIN result' = Keys /\ result = [k \in Keys |-> result[k]]
      /\ result' = [k \in Keys |-> result'[k]]
  BY <1>5 DEF ResultOf
<1>8. CASE KeyOf[i] \in Keys
  <2>1. \A j \in Requests : KeyOf[j] = KeyOf[i] => ~(executed[j] > 0)
    BY <1>1, <1>8 DEF IInv, OneRun, Executions
  <2>2. result[KeyOf[i]] = Null
    BY <1>5, <1>8, <2>1, NoResult
  <2>3. ResultOf(executed')[KeyOf[i]] = i
    BY <1>1, <1>2, <1>3, <1>8, ResultIs
  <2>4. result' = [result EXCEPT ![KeyOf[i]] = i]
    BY <1>5, <1>6, <1>7, <1>8, <2>3
  <2>5. Call!Happens(KeyOf[i], i)
    BY <2>2, <2>4 DEF Call!Happens
  <2>6. QED
    BY <1>1, <1>4, <1>8, <2>5 DEF Call!Next
<1>9. CASE KeyOf[i] \notin Keys
  <2>1. result' = result
    BY <1>6, <1>7, <1>9
  <2>2. QED
    BY <1>4, <2>1 DEF Call!vars
<1>10. QED
  BY <1>8, <1>9

\* To its callers, whatever fails, dies, is taken as interrupted or runs again, a call of an
\* operation happens once under its key, and who is told that it was made is told of what happened.
THEOREM OperationIsIdempotent == Spec => ImplementsIdempotentCall
<1>1. Init => Call!Init
  BY DEF Init, Call!Init, result, told, Answers
<1>2. IInv /\ IInv' /\ [Next]_vars => [Call!Next]_(Call!vars)
  <2> SUFFICES ASSUME IInv, IInv', [Next]_vars PROVE [Call!Next]_(Call!vars)
    OBVIOUS
  <2>0. TypeOK /\ RunsNamed
    BY DEF IInv
  <2>1. ASSUME NEW r \in Requests, pc[r] \in Working \cup {"create", "find"},
               UNCHANGED executed,
               answer' = answer \/ \E a \in Answers : answer' = [answer EXCEPT ![r] = a],
               run' = run \/ \E i \in Requests : run' = [run EXCEPT ![r] = i]
        PROVE  [Call!Next]_(Call!vars)
    <3>1. \A q \in Requests \ {r} : answer'[q] = answer[q] /\ run'[q] = run[q]
      BY <2>0, <2>1 DEF TypeOK
    <3>2. answer[r] = Null
      BY <2>0, <2>1 DEF RunsNamed
    <3>3. QED
      BY <2>1, <3>1, <3>2, Telling
  <2>2. ASSUME NEW r \in Requests, Create(r) \/ CreateFails(r) PROVE [Call!Next]_(Call!vars)
    <3>1. /\ run' = run \/ \E i \in Requests : run' = [run EXCEPT ![r] = i]
          /\ pc[r] = "create" /\ UNCHANGED executed
      BY <2>0, <2>2, Creating DEF Create, CreateFails
    <3>2. answer' = answer \/ \E a \in Answers : answer' = [answer EXCEPT ![r] = a]
      BY <2>2 DEF Create, CreateFails, Answer, Answers
    <3>3. QED
      BY <2>1, <3>1, <3>2
  <2>3. ASSUME NEW r \in Requests, Find(r) PROVE [Call!Next]_(Call!vars)
    <3>1. /\ run' = run \/ \E i \in Requests : run' = [run EXCEPT ![r] = i]
          /\ answer' = answer \/ \E a \in Answers : answer' = [answer EXCEPT ![r] = a]
      BY <2>0, <2>3, Finding DEF Replays
    <3>2. QED
      BY <2>1, <2>3, <3>1 DEF Find
  <2>4. ASSUME NEW r \in Requests, Execute(r) PROVE [Call!Next]_(Call!vars)
    <3>1. CASE UNCHANGED executed
      <4>1. pc[r] \in Working /\ UNCHANGED <<run, answer>>
        BY <2>4 DEF Execute, Working, Before
      <4>2. QED
        BY <2>1, <3>1, <4>1
    <3>2. CASE executed' = [executed EXCEPT ![run[r]] = @ + 1]
      BY <2>4, <3>2, Happening DEF Execute
    <3>3. QED
      BY <2>4, <3>1, <3>2 DEF Execute
  <2>5. ASSUME NEW r \in Requests, End(r) \/ EndFails(r) PROVE [Call!Next]_(Call!vars)
    <3>1. pc[r] \in Endings /\ UNCHANGED <<run, executed>>
      BY <2>5 DEF End, EndFails, Endings
    <3>2. answer' = answer \/ \E a \in Answers : answer' = [answer EXCEPT ![r] = a]
      BY <2>5, <3>1 DEF End, EndFails, Answer, answerAt, Answers, Endings
    <3>3. pc[r] \in Working
      BY <3>1 DEF Endings, Working, Started, Before
    <3>4. QED
      BY <2>1, <3>1, <3>2, <3>3
  <2>6. ASSUME UNCHANGED <<run, answer, executed>> PROVE [Call!Next]_(Call!vars)
    BY <2>6 DEF Call!vars, result, told
  <2>7. QED
    BY <2>2, <2>3, <2>4, <2>5, <2>6
       DEF Next, Decide, RequestApproval, Die, MarkInterrupted, MarkExpired, Done, vars
<1>3. QED
  BY <1>1, <1>2, Invariance, PTL DEF Spec, ImplementsIdempotentCall, Call!Spec
=============================================================================
