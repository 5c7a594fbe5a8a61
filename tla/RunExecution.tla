---------------------------- MODULE RunExecution ----------------------------
(***************************************************************************)
(* One attempt that executes a claimed run: executeClaimedRun of           *)
(* packages/agent-runtime/src/agent-run-worker.ts with the runtime it      *)
(* drives.  Four coroutines share the process: the turn loop, which talks  *)
(* to the model and the tools; the consumer, which stores the events the   *)
(* loop emits; the watcher, which looks for a request to cancel; and       *)
(* runtime.cancel, which the watcher starts.  A step runs from one await   *)
(* to the next.  A write is chosen in one step and meets the database in a *)
(* later one, so that writes of two coroutines may overtake each other.    *)
(***************************************************************************)
EXTENDS AgentRunStore, FiniteSets

CONSTANTS
    Me,            \* the lease token of the attempt
    MaxEvents,     \* bound: events the model's answer streams
    MaxTools,      \* bound: rounds of tool calls
    HeldMax,       \* AGENT_RUN_HELD_END_MAX_EVENTS
    Cancels,       \* whether the run may be asked to cancel
    Losses,        \* whether the job may lose its lease or be released
    Stops,         \* whether the worker may stop the execution
    DbFails        \* whether a call to the database may fail

Messages == {"answer", "partial"}

\* RunWrite: what one transaction stores, a last assistant message and events in order.
RunWrite == [message: Messages \cup {Null}, events: Seq(Event)]

ASSUME RunExecutionConstants ==
    /\ Null \notin {Me} \cup Messages \cup RunWrite
    /\ MaxEvents \in Nat /\ MaxTools \in Nat /\ HeldMax \in Nat
    /\ {Cancels, Losses, Stops, DbFails} \subseteq BOOLEAN

VARIABLES
    row,           \* the row of agent_runs
    log,           \* agent_run_observations of the run
    answers,       \* the assistant messages with final metadata stored for the run, in order
    unended,       \* history: the transactions that stored such a message and did not end the run
    job,           \* "held" while the job runs under this attempt's lease, then "gone"
    state,         \* the RunState of the runtime
    loop,          \* the turn loop
    cancel,        \* runtime.cancel
    consumer,      \* the loop over the events, and closeRun
    heldEnd,       \* the held back answer with the events behind it, or Null
    stopCause, aborted, cancellation  \* the variables of the closure of these names

stored == <<row, log, answers, unended>>
signals == <<stopCause, aborted, cancellation>>
vars == <<row, log, answers, unended, job, state, loop, cancel, consumer, heldEnd, stopCause,
          aborted, cancellation>>

NoWrite == [message |-> Null, events |-> <<>>]

TypeOK ==
    /\ row \in AgentRunRow({Me}, {Me})
    /\ log \subseteq Event
    /\ answers \in Seq(Messages) /\ unended \subseteq RunWrite
    /\ job \in {"held", "gone"}
    /\ state \in [events: Seq(EventTypes), closed: BOOLEAN, cancellationStarted: BOOLEAN,
                  messageCompleted: BOOLEAN, streamed: BOOLEAN]
    /\ loop \in [pc: {"off", "model", "assert", "flush", "toolAssert", "toolFlush", "toolWrite",
                      "done"},
                 batch: RunWrite, rounds: Nat]
    /\ cancel \in [pc: {"idle", "due", "assert", "flush", "done"}, batch: RunWrite]
    /\ consumer \in [pc: {"start", "next", "write", "reread", "rewrite", "closeRead",
                          "closeHeld", "closeLast", "returned", "thrown"},
                     at: {"loop", "closeHeld", "closeLast"}, seen: Nat, latest: Nat,
                     batch: RunWrite, caught: BOOLEAN]
    /\ heldEnd \in RunWrite \cup {Null}
    /\ stopCause \in {"none", "lease_lost", "worker_stopping", "idle"}
    /\ aborted \in BOOLEAN /\ cancellation \in BOOLEAN

Init ==
    /\ row = [NoAgentRun EXCEPT !.status = "running", !.owner = Me, !.token = Me]
    /\ log = {}
    /\ answers = <<>> /\ unended = {}
    /\ job = "held"
    /\ state = [events |-> <<>>, closed |-> FALSE, cancellationStarted |-> FALSE,
                messageCompleted |-> FALSE, streamed |-> FALSE]
    /\ loop = [pc |-> "off", batch |-> NoWrite, rounds |-> 0]
    /\ cancel = [pc |-> "idle", batch |-> NoWrite]
    /\ consumer = [pc |-> "start", at |-> "loop", seen |-> 0, latest |-> 0, batch |-> NoWrite,
                   caught |-> FALSE]
    /\ heldEnd = Null
    /\ stopCause = "none" /\ aborted = FALSE /\ cancellation = FALSE

-----------------------------------------------------------------------------
\* RunState: what the runtime emits.  Nothing follows its closing event, and after a
\* cancellation began only what ends the run is emitted.

emitted(s, type, allowDuringCancellation) ==
    IF s.closed \/ (s.cancellationStarted /\ ~allowDuringCancellation)
    THEN s
    ELSE [s EXCEPT !.events = Append(@, type),
                   !.messageCompleted = @ \/ type = "message_completed"]

closedWith(s, type) == [emitted(s, type, TRUE) EXCEPT !.closed = TRUE]

\* state.completeMessage and state.complete.
completedState(s) == closedWith(emitted(s, "message_completed", FALSE), "run_completed")

failedState(s) == closedWith(s, "run_failed")

\* state.cancel, with the partial message when there is one.
cancelledState(s, withPartial) ==
    LET begun == [s EXCEPT !.cancellationStarted = @ \/ ~s.closed]
    IN  closedWith(IF withPartial /\ ~s.messageCompleted
                   THEN emitted(begun, "message_completed", TRUE) ELSE begun,
                   "run_cancelled")

-----------------------------------------------------------------------------
\* The database.

\* Mutant: the job's lease is not looked at.
jobLeaseHeld_always == TRUE

\* requireJobLease: the fence of every write of a run.
jobLeaseHeld == job = "held"

\* assertClaimedAgentRun, and the fence of a message that is no final answer.
Claimed == jobLeaseHeld /\ claimedRunWhere(row, Me)

Accepts(batch) == jobLeaseHeld /\ insertable(row, Me, batch.events)

\* The event that ends the run is the last of its transaction (insertClaimedRunObservation).
endsRun(events) == events # <<>> /\ events[Len(events)].type \in TerminalEvents

Store(batch) ==
    /\ row' = insertedRun(row, batch.events)
    /\ log' = log \cup {batch.events[i] : i \in DOMAIN batch.events}
    /\ answers' = IF batch.message = Null THEN answers ELSE Append(answers, batch.message)
    /\ unended' = IF batch.message = Null \/ endsRun(batch.events) THEN unended
                  ELSE unended \cup {batch}

\* Mutant: the cause is noted and nothing is aborted.
StopFor_noAbort(cause) ==
    /\ stopCause' = IF stopCause = "none" \/ cause = "lease_lost" THEN cause ELSE stopCause
    /\ UNCHANGED <<aborted, cancellation>>

\* stop(cause): the first cause stands, but a lost lease outranks the others.
StopFor(cause) ==
    /\ stopCause' = IF stopCause = "none" \/ cause = "lease_lost" THEN cause ELSE stopCause
    /\ aborted' = TRUE
    /\ UNCHANGED cancellation

\* appendClaimedAgentRunEnd: one transaction.  It is refused with JobLeaseLostError or with a
\* conflict; or the call fails, before or after the commit.
Write(batch, result) ==
    \/ result = "ok" /\ Accepts(batch) /\ Store(batch)
    \/ result = "lost" /\ ~jobLeaseHeld /\ UNCHANGED stored
    \/ result = "refused" /\ jobLeaseHeld /\ ~Accepts(batch) /\ UNCHANGED stored
    \/ result = "refused" /\ DbFails /\ ((Accepts(batch) /\ Store(batch)) \/ UNCHANGED stored)

Results == {"ok", "lost", "refused"}

\* fenced: a lost lease stops the execution.
Fenced(result) == IF result = "lost" THEN StopFor("lease_lost") ELSE UNCHANGED signals

\* The result of a call that only asserts the claim of the run.
Assert(result) ==
    \/ result = "ok" /\ Claimed
    \/ result = "lost" /\ ~jobLeaseHeld
    \/ result = "refused" /\ ((jobLeaseHeld /\ ~Claimed) \/ DbFails)

-----------------------------------------------------------------------------
\* The turn loop.

\* The event loop runs every promise that is ready before the next call comes back, a timer fires
\* or the model sends more: the consumer never leaves an event for later.
ConsumerReady ==
    \/ consumer.pc \in {"closeHeld", "closeLast"}
    \/ /\ consumer.pc = "next"
       /\ aborted \/ state.closed \/ consumer.seen < Len(state.events)

\* The handler returned or threw.
Ended == consumer.pc \in {"returned", "thrown"}

\* The signal of the run: aborted by the worker, at the end of the handler or by runtime.cancel.
RunAborted == aborted \/ Ended \/ state.cancellationStarted

\* The model streams text or a tool reports; only text can be kept when the run is cancelled.
LoopStreams(text) ==
    /\ ~ConsumerReady /\ loop.pc = "model" /\ Len(state.events) < MaxEvents
    /\ state' = [emitted(state, "progress", FALSE) EXCEPT !.streamed = @ \/ text]
    /\ state'.events # state.events
    /\ UNCHANGED <<stored, job, loop, cancel, consumer, heldEnd, signals>>

\* The model answers after the run was aborted: the loop returns and emits nothing.
LoopReturns ==
    /\ ~ConsumerReady /\ loop.pc = "model" /\ RunAborted
    /\ loop' = [loop EXCEPT !.pc = "done"]
    /\ UNCHANGED <<stored, job, state, cancel, consumer, heldEnd, signals>>

\* The model fails, the steps are used up or the call is aborted.
LoopThrows ==
    /\ ~ConsumerReady /\ loop.pc = "model"
    /\ loop' = [loop EXCEPT !.pc = "done"]
    /\ state' = failedState(state)
    /\ UNCHANGED <<stored, job, cancel, consumer, heldEnd, signals>>

LoopAnswers ==
    /\ ~ConsumerReady /\ loop.pc = "model" /\ ~RunAborted
    /\ loop' = [loop EXCEPT !.pc = "assert"]
    /\ UNCHANGED <<stored, job, state, cancel, consumer, heldEnd, signals>>

\* A round of tool calls writes twice to the conversation, the request and the results: each is a
\* round here.
LoopCallsTools ==
    /\ ~ConsumerReady /\ loop.pc = "model" /\ loop.rounds < MaxTools
    /\ loop' = [loop EXCEPT !.pc = "toolAssert", !.rounds = @ + 1]
    /\ UNCHANGED <<stored, job, state, cancel, consumer, heldEnd, signals>>

\* holdFinalMessage, then the events that end the run, the text first if none was streamed.
HoldAnswer ==
    /\ heldEnd' = [message |-> "answer", events |-> <<>>]
    /\ \/ state.streamed /\ state' = completedState(state)
       \/ state' = completedState(emitted(state, "progress", FALSE))

\* beforeEffect asserts the claim of the run before every effect.  Then the loop writes to the
\* conversation, and what is held is stored first: the run goes on.
LoopAsserts ==
    /\ ~ConsumerReady /\ loop.pc \in {"assert", "toolAssert"} /\ Claimed
    /\ IF heldEnd # Null
       THEN /\ loop' = [loop EXCEPT !.pc = IF @ = "assert" THEN "flush" ELSE "toolFlush",
                                    !.batch = heldEnd]
            /\ heldEnd' = Null
            /\ UNCHANGED state
       ELSE /\ loop' = [loop EXCEPT !.pc = IF @ = "assert" THEN "done" ELSE "toolWrite"]
            /\ IF loop.pc = "assert" THEN HoldAnswer ELSE UNCHANGED <<heldEnd, state>>
    /\ UNCHANGED <<stored, job, cancel, consumer, signals>>

\* An assertion or the write of a tool message is refused, or the call fails.
LoopRefused ==
    /\ ~ConsumerReady /\ loop.pc \in {"model", "assert", "toolAssert", "toolWrite"}
    /\ \E result \in Results \ {"ok"} : Assert(result) /\ Fenced(result)
    /\ loop' = [loop EXCEPT !.pc = "done"]
    /\ state' = failedState(state)
    /\ UNCHANGED <<stored, job, cancel, consumer, heldEnd>>

LoopFlushes ==
    /\ ~ConsumerReady /\ loop.pc \in {"flush", "toolFlush"}
    /\ \E result \in Results :
          /\ Write(loop.batch, result) /\ Fenced(result)
          /\ loop' = [loop EXCEPT !.pc = IF result = "ok" /\ @ = "toolFlush" THEN "toolWrite"
                                         ELSE "done",
                                  !.batch = NoWrite]
          /\ IF result # "ok" THEN state' = failedState(state) /\ UNCHANGED heldEnd
             ELSE IF loop.pc = "flush" THEN HoldAnswer
             ELSE UNCHANGED <<state, heldEnd>>
    /\ UNCHANGED <<job, cancel, consumer>>

\* The message is stored and the loop goes on, unless it finds the run cancelled or aborted: it
\* looks before a tool call and after one.
LoopToolWrites ==
    /\ ~ConsumerReady /\ loop.pc = "toolWrite" /\ Claimed
    /\ \/ loop' = [loop EXCEPT !.pc = "model"]
       \/ RunAborted /\ loop' = [loop EXCEPT !.pc = "done"]
    /\ UNCHANGED <<stored, job, state, cancel, consumer, heldEnd, signals>>

-----------------------------------------------------------------------------
\* Cancellation.

\* requestAgentRunCancellation of the API.
RequestCancellation ==
    /\ Cancels /\ row.status = "running"
    /\ row' = cancelRequested(row)
    /\ UNCHANGED <<log, answers, unended, job, state, loop, cancel, consumer, heldEnd, signals>>

\* sendCancel starts runtime.cancel: beginCancellation takes the text streamed so far, unless
\* the run has closed or its message is complete.
BeginCancel ==
    LET partial == ~state.closed /\ ~state.messageCompleted /\ state.streamed
    IN  /\ cancel' = [cancel EXCEPT !.pc = IF partial THEN "assert" ELSE "done"]
        /\ state' = IF partial THEN [state EXCEPT !.cancellationStarted = TRUE]
                    ELSE cancelledState(state, FALSE)

\* watchForCancellation finds the request on the row.
WatchForCancellation ==
    /\ ~ConsumerReady /\ ~Ended /\ ~aborted /\ ~cancellation
    /\ row.status = "cancelling"
    /\ cancellation' = TRUE
    /\ IF consumer.pc = "start"
       THEN cancel' = [cancel EXCEPT !.pc = "due"] /\ UNCHANGED state
       ELSE BeginCancel
    /\ UNCHANGED <<stored, job, loop, consumer, heldEnd, stopCause, aborted>>

HoldPartial ==
    /\ heldEnd' = [message |-> "partial", events |-> <<>>]
    /\ state' = cancelledState(state, TRUE)

\* runtime.cancel writes the partial message: what is held is stored first.
CancelAsserts ==
    /\ ~ConsumerReady /\ cancel.pc = "assert" /\ Claimed
    /\ IF heldEnd # Null
       THEN /\ cancel' = [pc |-> "flush", batch |-> heldEnd]
            /\ heldEnd' = Null
            /\ UNCHANGED state
       ELSE cancel' = [cancel EXCEPT !.pc = "done"] /\ HoldPartial
    /\ UNCHANGED <<stored, job, loop, consumer, signals>>

\* The execution could not end itself as cancelled: it is aborted.
CancelThrows(result) ==
    IF result = "lost" THEN StopFor("lease_lost")
    ELSE aborted' = TRUE /\ UNCHANGED <<stopCause, cancellation>>

CancelRefused ==
    /\ ~ConsumerReady /\ cancel.pc = "assert"
    /\ \E result \in Results \ {"ok"} : Assert(result) /\ CancelThrows(result)
    /\ cancel' = [cancel EXCEPT !.pc = "done"]
    /\ UNCHANGED <<stored, job, state, loop, consumer, heldEnd>>

CancelFlushes ==
    /\ ~ConsumerReady /\ cancel.pc = "flush"
    /\ cancel' = [pc |-> "done", batch |-> NoWrite]
    /\ \E result \in Results :
          /\ Write(cancel.batch, result)
          /\ IF result = "ok" THEN HoldPartial /\ UNCHANGED signals
             ELSE CancelThrows(result) /\ UNCHANGED <<heldEnd, state>>
    /\ UNCHANGED <<job, loop, consumer>>

-----------------------------------------------------------------------------
\* The consumer.

\* closingEvent: the event that ends a run whose execution did not end it, or ended it as
\* aborted.
closingEvent(sequence) ==
    [type |-> IF cancellation THEN "run_cancelled" ELSE "run_failed", sequence |-> sequence]

\* Mutant: the held events are stored and the answer they belong to is not.
AppendEvent_withoutAnswer(e, at, seen) ==
    LET pushed == IF heldEnd = Null THEN [message |-> Null, events |-> <<e>>]
                  ELSE [heldEnd EXCEPT !.events = Append(@, e)]
        holds == heldEnd # Null /\ e.type \notin TerminalEvents
    IN  /\ consumer' = [consumer EXCEPT !.pc = IF holds THEN @ ELSE "write", !.at = at,
                                        !.seen = seen,
                                        !.batch = IF holds THEN NoWrite
                                                  ELSE [pushed EXCEPT !.message = Null]]
        /\ heldEnd' = IF holds THEN pushed ELSE Null

\* Mutant: an answer is stored with the first event behind it.
AppendEvent_eager(e, at, seen) ==
    /\ consumer' = [consumer EXCEPT !.pc = "write", !.at = at, !.seen = seen,
                       !.batch = IF heldEnd = Null THEN [message |-> Null, events |-> <<e>>]
                                 ELSE [heldEnd EXCEPT !.events = Append(@, e)]]
    /\ heldEnd' = Null

\* append: an event behind a held answer is held too, until the event that ends the run or the
\* limit; the write is begun otherwise.  `at' is where the write returns to.
AppendEvent(e, at, seen) ==
    LET pushed == IF heldEnd = Null THEN [message |-> Null, events |-> <<e>>]
                  ELSE [heldEnd EXCEPT !.events = Append(@, e)]
        holds == /\ heldEnd # Null /\ e.type \notin TerminalEvents
                 /\ Len(pushed.events) <= HeldMax
    IN  /\ consumer' = [consumer EXCEPT !.pc = IF holds THEN @ ELSE "write", !.at = at,
                                        !.seen = seen,
                                        !.batch = IF holds THEN NoWrite ELSE pushed]
        /\ heldEnd' = IF holds THEN pushed ELSE Null

\* The handler's catch: the run is closed, unless that is what failed or the lease is lost.
Catch(c) ==
    IF c.caught \/ stopCause = "lease_lost" THEN [c EXCEPT !.pc = "thrown", !.batch = NoWrite]
    ELSE [c EXCEPT !.pc = "closeRead", !.caught = TRUE, !.batch = NoWrite]

\* Where an error that is no lost lease leads: closeRun tries once more without the answer.
Throw(c) ==
    IF c.at = "closeHeld" THEN [c EXCEPT !.pc = "closeLast", !.batch = NoWrite]
    ELSE Catch(c)

\* The input is read, the user loaded and the execution begun; a request to cancel found before
\* is sent now.
StartExecution ==
    /\ consumer.pc = "start"
    /\ consumer' = [consumer EXCEPT !.pc = "next"]
    /\ loop' = [loop EXCEPT !.pc = "model"]
    /\ IF cancel.pc = "due" THEN BeginCancel ELSE UNCHANGED <<cancel, state>>
    /\ UNCHANGED <<stored, job, heldEnd, signals>>

StartFails ==
    /\ consumer.pc = "start"
    /\ consumer' = Catch(consumer)
    /\ UNCHANGED <<stored, job, state, loop, cancel, heldEnd, signals>>

\* The next event is appended.  A failure that follows a request to cancel ends the run as
\* cancelled.  Events that end without a terminal one do not happen: RunState closes with one.
ConsumeEvent ==
    /\ consumer.pc = "next" /\ ~aborted /\ consumer.seen < Len(state.events)
    /\ LET sequence == consumer.seen + 1
           type == state.events[sequence]
       IN  AppendEvent(IF type = "run_failed" /\ cancellation THEN closingEvent(sequence)
                       ELSE [type |-> type, sequence |-> sequence], "loop", sequence)
    /\ UNCHANGED <<stored, job, state, loop, cancel, signals>>

\* eventsUntilAborted: the events are left the moment the run is stopped.  A lost lease leaves
\* nothing to store.
ConsumeAbort ==
    /\ consumer.pc = "next" /\ aborted
    /\ IF stopCause = "lease_lost"
       THEN consumer' = [consumer EXCEPT !.pc = "thrown"] /\ UNCHANGED heldEnd
       ELSE AppendEvent(closingEvent(consumer.seen + 1), "loop", consumer.seen + 1)
    /\ UNCHANGED <<stored, job, state, loop, cancel, signals>>

\* The write ends.  The store refuses to end a run as completed or failed once it was asked to
\* cancel: then the row is read again.
ConsumerWrites ==
    /\ consumer.pc = "write"
    /\ LET last == consumer.batch.events[Len(consumer.batch.events)]
       IN  \E result \in Results :
              /\ Write(consumer.batch, result) /\ Fenced(result)
              /\ consumer' =
                    CASE result = "ok" ->
                            [consumer EXCEPT !.pc = IF last.type \in TerminalEvents
                                                    THEN "returned" ELSE "next",
                                             !.batch = NoWrite]
                      [] result = "lost" -> [consumer EXCEPT !.pc = "thrown", !.batch = NoWrite]
                      [] result = "refused" ->
                            IF endsOrSuspendsRun(last) THEN [consumer EXCEPT !.pc = "reread"]
                            ELSE Throw(consumer)
    /\ UNCHANGED <<job, state, loop, cancel, heldEnd>>

\* A run that was asked to cancel ends as cancelled, with what this write carries.
ConsumerRereads ==
    /\ consumer.pc = "reread"
    /\ \/ /\ row.status = "cancelling"
          /\ cancellation' = TRUE
          /\ consumer' = [consumer EXCEPT !.pc = "rewrite",
                             !.batch.events[Len(consumer.batch.events)].type = "run_cancelled"]
       \/ /\ row.status # "cancelling" \/ DbFails
          /\ consumer' = Throw(consumer)
          /\ UNCHANGED cancellation
    /\ UNCHANGED <<stored, job, state, loop, cancel, heldEnd, stopCause, aborted>>

ConsumerRewrites ==
    /\ consumer.pc = "rewrite"
    /\ \E result \in Results :
          /\ Write(consumer.batch, result) /\ Fenced(result)
          /\ consumer' = CASE result = "ok" ->
                                 [consumer EXCEPT !.pc = "returned", !.batch = NoWrite]
                           [] result = "lost" ->
                                 [consumer EXCEPT !.pc = "thrown", !.batch = NoWrite]
                           [] result = "refused" -> Throw(consumer)
    /\ UNCHANGED <<job, state, loop, cancel, heldEnd>>

\* closeRun reads the row.
CloseReads ==
    /\ consumer.pc = "closeRead"
    /\ \/ /\ row.status \in ENDED_STATUSES
          /\ consumer' = [consumer EXCEPT !.pc = "returned"]
          /\ UNCHANGED cancellation
       \/ /\ row.status \in STARTED_STATUSES
          /\ consumer' = [consumer EXCEPT !.pc = "closeHeld", !.latest = row.lastSequence]
          /\ cancellation' = (cancellation \/ row.status = "cancelling")
       \/ /\ DbFails
          /\ consumer' = Catch(consumer)
          /\ UNCHANGED cancellation
    /\ UNCHANGED <<stored, job, state, loop, cancel, heldEnd, stopCause, aborted>>

\* What is held is stored with the event that ends the run, after the last held event; when that
\* cannot be stored the run ends without it.
CloseAppends ==
    /\ consumer.pc \in {"closeHeld", "closeLast"}
    /\ IF consumer.pc = "closeHeld" /\ heldEnd # Null
       THEN LET n == Len(heldEnd.events)
                lastHeld == IF n = 0 THEN consumer.latest ELSE heldEnd.events[n].sequence
            IN  AppendEvent(closingEvent(lastHeld + 1), "closeHeld", consumer.seen)
       ELSE AppendEvent(closingEvent(consumer.latest + 1), "closeLast", consumer.seen)
    /\ UNCHANGED <<stored, job, state, loop, cancel, signals>>

-----------------------------------------------------------------------------
\* What happens to the attempt.

\* The lease runs out, or the stopping worker gives the job back.
LoseJob ==
    /\ Losses /\ job = "held"
    /\ job' = "gone"
    /\ UNCHANGED <<stored, state, loop, cancel, consumer, heldEnd, signals>>

\* The heartbeat finds the lease lost.
HeartbeatFindsLoss ==
    /\ ~ConsumerReady /\ ~Ended /\ job = "gone" /\ stopCause # "lease_lost"
    /\ StopFor("lease_lost")
    /\ UNCHANGED <<stored, job, state, loop, cancel, consumer, heldEnd>>

\* The worker stops, or the run stored no event within the idle limit.
StopExecution(cause) ==
    /\ ~ConsumerReady /\ ~Ended /\ ~aborted
    /\ StopFor(cause)
    /\ UNCHANGED <<stored, job, state, loop, cancel, consumer, heldEnd>>

\* failLostAgentRun with the event that says so.
FailLost ==
    /\ row' = failedRun(row)
    /\ log' = log \cup {[type |-> "run_failed", sequence |-> row.lastSequence + 1]}
    /\ UNCHANGED <<answers, unended>>

\* The executor settles the job.  A handler that threw used the one attempt up: onExhausted ends
\* the run with the job, unless it fails itself or the worker is stopping and gives the job back.
SettleJob ==
    /\ Ended /\ job = "held"
    /\ job' = "gone"
    /\ \/ consumer.pc = "thrown" /\ row.status \in STARTED_STATUSES /\ FailLost
       \/ (consumer.pc = "returned" \/ DbFails \/ Stops) /\ UNCHANGED stored
       \/ row.status \notin STARTED_STATUSES /\ UNCHANGED stored
    /\ UNCHANGED <<state, loop, cancel, consumer, heldEnd, signals>>

\* The burial of the job, its next attempt or the upkeep ends the run of a job that is gone.
FailLostRun ==
    /\ job = "gone" /\ row.status \in STARTED_STATUSES
    /\ FailLost
    /\ UNCHANGED <<job, state, loop, cancel, consumer, heldEnd, signals>>

-----------------------------------------------------------------------------
TurnLoop ==
    \/ \E text \in BOOLEAN : LoopStreams(text)
    \/ LoopReturns \/ LoopThrows \/ LoopAnswers \/ LoopCallsTools
    \/ LoopAsserts \/ LoopRefused \/ LoopFlushes \/ LoopToolWrites

RuntimeCancel == CancelAsserts \/ CancelRefused \/ CancelFlushes

\* What the consumer does without waiting for anything but promises of its own process.
ConsumerRuns == ConsumeEvent \/ ConsumeAbort \/ CloseAppends

\* What it does when a call comes back.
ConsumerResumes ==
    \/ StartExecution \/ StartFails
    \/ ConsumerWrites \/ ConsumerRereads \/ ConsumerRewrites \/ CloseReads

Next ==
    \/ TurnLoop \/ RuntimeCancel \/ ConsumerRuns \/ ConsumerResumes
    \/ RequestCancellation \/ WatchForCancellation
    \/ LoseJob \/ HeartbeatFindsLoss \/ SettleJob \/ FailLostRun
    \/ Stops /\ StopExecution("worker_stopping")
    \/ Stops /\ StopExecution("idle")

Spec == Init /\ [][Next]_vars

\* Calls to the database and timers of the process come back; the model and the tools may never
\* answer.  What the job's end leaves behind is ended by another process.
FairSpec ==
    /\ Spec
    /\ WF_vars(ConsumerRuns) /\ WF_vars(ConsumerResumes)
    /\ WF_vars(RuntimeCancel)
    /\ WF_vars(WatchForCancellation)
    /\ WF_vars(loop.pc # "model" /\ (LoopAsserts \/ LoopRefused \/ LoopFlushes \/ LoopToolWrites))
    /\ WF_vars(StopExecution("idle"))
    /\ WF_vars(HeartbeatFindsLoss)
    /\ WF_vars(SettleJob) /\ WF_vars(FailLostRun)

-----------------------------------------------------------------------------
\* The events of a run are stored without a gap and once each, although the consumer, the turn
\* loop and runtime.cancel write at the same time and a write may have been stored although its
\* call failed; and the one event that ends the run is the last and says what the row says.
LogMatchesRow ==
    /\ TypeOK
    /\ {e.sequence : e \in log} = 1..row.lastSequence
    /\ Cardinality(log) = row.lastSequence
    /\ \A e \in log : e.type \in TerminalEvents =>
          e.sequence = row.lastSequence /\ row.status = terminalStatus(e.type)
    /\ row.status \in ENDED_STATUSES => \E e \in log : e.type \in TerminalEvents

\* An answer is stored with the event that ends its run, so that whatever is killed, stopped, lost
\* or fails leaves no answer beside a run in progress or one that is then failed as lost
\* (appendClaimedAgentRunEnd).  It has two exceptions, and no third: more events than the limit
\* were stored with the answer, those held behind it; or runtime.cancel began to store the text
\* streamed so far, and one of the two messages was flushed before the other was written.
AnswerEndsRun ==
    /\ answers # <<>> /\ row.status \in STARTED_STATUSES => unended # {}
    /\ \A write \in unended : Len(write.events) > HeldMax \/ state.cancellationStarted

\* A completed run has its answer, stored exactly once.
CompletedHasAnswer == row.status = "completed" => answers = <<"answer">>

\* Once the job is gone this attempt stores nothing any more: no event, no answer, no end.  The
\* run can only be failed as lost.
NothingAfterLoss ==
    [][job = "gone" =>
        /\ answers' = answers
        /\ row' # row => row'.status \in {"failed", "cancelling"}]_vars

\* A run that was asked to cancel ends as cancelled and as nothing else, also when the request
\* comes between the worker's last look at the row and its last event, which then says completed
\* or failed (insertClaimedRunObservation).  Only a run whose attempt is over is failed, as lost.
CancelEndsCancelled ==
    [][row.status = "cancelling" =>
        \/ row'.status \in {"cancelling", "cancelled"}
        \/ row'.status = "failed" /\ (job = "gone" \/ consumer.pc = "thrown")]_vars

\* The run always ends: a model that never answers, a request to cancel at any moment, failing
\* calls, a lost lease and a stop included.
RunEnds == <>(row.status \in ENDED_STATUSES)

\* What the model wrote so far is stored as the assistant message of the run
\* (AgentRunExecution.cancel): a run has one.  This does not hold: a cancellation that begins while
\* the turn loop awaits the fence for its final answer stores the text so far beside the answer.
OneAnswer == Len(answers) <= 1

\* A worker killed at the end of a run leaves "never an answer beside a failed run"
\* (agent-run-worker.ts:219-221; above the limit of held events :44-45 excepts it).  This does not
\* hold: the cancellation of OneAnswer flushes the held answer, and then the job is lost.
NoAnswerBesideFailedRun ==
    row.status = "failed" => \A write \in unended : Len(write.events) > HeldMax
=============================================================================
