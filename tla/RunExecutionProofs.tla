-------------------------- MODULE RunExecutionProofs --------------------------
(***************************************************************************)
(* Proofs about RunExecution, for every number of events and tool calls    *)
(* and any limit of held events, with or without cancellations, losses,    *)
(* stops and failing calls.                                                *)
(***************************************************************************)
EXTENDS RunExecution, SequenceTheorems, FunctionTheorems, FiniteSetTheorems, TLAPS

-----------------------------------------------------------------------------
(* The inductive invariant. *)

NoTerminal(events) == \A i \in DOMAIN events : events[i].type \notin TerminalEvents

\* The event a write ends with.
Final(events) == events[Len(events)]

\* The events of the log are numbered without a gap and once each, and the one that ends the run
\* is the last.
LogOK ==
    /\ {e.sequence : e \in log} = 1..row.lastSequence
    /\ \A d, e \in log : d.sequence = e.sequence => d = e
    /\ \A e \in log : e.type \in TerminalEvents =>
          e.sequence = row.lastSequence /\ row.status = terminalStatus(e.type)
    /\ row.status \in ENDED_STATUSES => \E e \in log : e.type \in TerminalEvents
    /\ row.status \in STARTED_STATUSES \cup ENDED_STATUSES

Writing == consumer.pc \in {"write", "reread", "rewrite"}

\* The runtime has emitted the end of an answered run.
Completes(s) == \E i \in DOMAIN s.events : s.events[i] = "run_completed"

Completing == Completes(state)

\* The consumer has the events of the runtime before it, and does not close the run itself.
InLoop == consumer.pc \in {"start", "next"} \/ (consumer.pc = "write" /\ consumer.at = "loop")

\* What a coroutine has to write: at most the last event of a write ends the run; a write that
\* carries a message ends the run or is over the limit; and only the events of the runtime
\* complete it.
BatchesOK ==
    /\ heldEnd # Null => NoTerminal(heldEnd.events)
    /\ NoTerminal(loop.batch.events) /\ NoTerminal(cancel.batch.events)
    /\ ~Writing => consumer.batch.message = Null
    /\ Writing =>
          LET events == consumer.batch.events
          IN  /\ events # <<>>
              /\ \A i \in DOMAIN events : i # Len(events) => events[i].type \notin TerminalEvents
              /\ consumer.batch.message # Null =>
                    Final(events).type \in TerminalEvents \/ Len(events) > HeldMax
              /\ consumer.at # "loop" \/ consumer.pc # "write" =>
                    Final(events).type \in TerminalEvents
              /\ Final(events).type = "run_completed" =>
                    consumer.at = "loop" /\ consumer.pc # "rewrite" /\ Completing
    /\ consumer.pc = "start" => loop.pc = "off"

\* Nothing of a cancellation is under way in a run that nobody asked to cancel; and there nothing
\* is held, and the runtime is not closed, before the turn loop is done.
CancellationOK ==
    /\ cancellation => row.status # "running"
    /\ cancel.pc # "idle" \/ state.cancellationStarted => cancellation
    /\ loop.pc \in {"flush", "toolFlush"} => cancellation
    /\ heldEnd # Null /\ loop.pc # "done" => cancellation
    /\ state.closed /\ loop.pc # "done" => cancellation
    /\ Completing => loop.pc = "done"

\* Where the one answer of a run is that nobody asked to cancel, until its end is written.
AnswerOK == row.status = "running" =>
    /\ ~Completing => heldEnd = Null /\ answers = <<>> /\ consumer.batch.message = Null
    /\ Completing /\ InLoop =>
          \/ /\ heldEnd # Null /\ heldEnd.message = "answer" /\ answers = <<>>
             /\ consumer.batch.message = Null
          \/ /\ heldEnd = Null /\ answers = <<>>
             /\ consumer.batch.message = "answer"
          \/ /\ heldEnd = Null /\ answers = <<"answer">>
             /\ consumer.batch.message = Null
    /\ consumer.pc = "write" /\ Final(consumer.batch.events).type = "run_completed" =>
          heldEnd = Null

AnswersOK == AnswerOK /\ CompletedHasAnswer

IInv == TypeOK /\ LogOK /\ BatchesOK /\ CancellationOK /\ AnswersOK

-----------------------------------------------------------------------------
(* The states of the parts. *)

RunStates == [events: Seq(EventTypes), closed: BOOLEAN, cancellationStarted: BOOLEAN,
              messageCompleted: BOOLEAN, streamed: BOOLEAN]

Loops == [pc: {"off", "model", "assert", "flush", "toolAssert", "toolFlush", "toolWrite", "done"},
          batch: RunWrite, rounds: Nat]

RuntimeCancels == [pc: {"idle", "due", "assert", "flush", "done"}, batch: RunWrite]

Consumers == [pc: {"start", "next", "write", "reread", "rewrite", "closeRead", "closeHeld",
                   "closeLast", "returned", "thrown"},
              at: {"loop", "closeHeld", "closeLast"}, seen: Nat, latest: Nat, batch: RunWrite,
              caught: BOOLEAN]

RunRow == AgentRunRow({Me}, {Me})

\* Null is neither a message nor a write, as the constants are assumed.
LEMMA Types ==
    TypeOK <=>
        /\ row \in RunRow /\ log \subseteq Event /\ answers \in Seq(Messages)
        /\ unended \subseteq RunWrite
        /\ job \in {"held", "gone"}
        /\ state \in RunStates /\ loop \in Loops /\ cancel \in RuntimeCancels
        /\ consumer \in Consumers /\ heldEnd \in RunWrite \cup {Null}
        /\ stopCause \in {"none", "lease_lost", "worker_stopping", "idle"}
        /\ aborted \in BOOLEAN /\ cancellation \in BOOLEAN
BY DEF TypeOK, RunStates, Loops, RuntimeCancels, Consumers, RunRow

-----------------------------------------------------------------------------
(* RunState. *)

\* What is emitted neither opens the state nor takes an event back, and only one event completes
\* the run.
LEMMA EmittedState ==
    ASSUME NEW s \in RunStates, NEW type \in EventTypes, NEW allow \in BOOLEAN
    PROVE  /\ emitted(s, type, allow) \in RunStates
           /\ emitted(s, type, allow).closed = s.closed
           /\ emitted(s, type, allow).cancellationStarted = s.cancellationStarted
           /\ Completes(s) => Completes(emitted(s, type, allow))
           /\ type # "run_completed" => (Completes(emitted(s, type, allow)) => Completes(s))
           /\ type = "run_completed" /\ ~s.closed /\ allow => Completes(emitted(s, type, allow))
<1> DEFINE more == [s EXCEPT !.events = Append(@, type),
                             !.messageCompleted = @ \/ type = "message_completed"]
<1>1. /\ s.events \in Seq(EventTypes) /\ s.closed \in BOOLEAN /\ s.cancellationStarted \in BOOLEAN
      /\ s.messageCompleted \in BOOLEAN /\ s.streamed \in BOOLEAN
  BY DEF RunStates
<1>2. /\ Append(s.events, type) \in Seq(EventTypes)
      /\ DOMAIN Append(s.events, type) = 1..(Len(s.events) + 1)
      /\ \A i \in DOMAIN s.events : Append(s.events, type)[i] = s.events[i]
      /\ Append(s.events, type)[Len(s.events) + 1] = type
      /\ DOMAIN s.events = 1..Len(s.events) /\ Len(s.events) \in Nat
  BY <1>1
<1>3. /\ more.events = Append(s.events, type) /\ more.closed = s.closed
      /\ more.cancellationStarted = s.cancellationStarted
  BY DEF RunStates
<1>4. more \in RunStates
  <2>1. (s.messageCompleted \/ type = "message_completed") \in BOOLEAN
    OBVIOUS
  <2>2. QED
    BY <1>1, <1>2, <2>1, Zenon DEF RunStates
<1>5. /\ Completes(s) => Completes(more)
      /\ type # "run_completed" => (Completes(more) => Completes(s))
      /\ type = "run_completed" => Completes(more)
  <2> HIDE DEF more
  <2>1. Completes(s) => Completes(more)
    BY <1>2, <1>3 DEF Completes
  <2>2. ASSUME type # "run_completed", Completes(more) PROVE Completes(s)
    BY <1>2, <1>3, <2>2 DEF Completes
  <2>3. type = "run_completed" => Completes(more)
    BY <1>2, <1>3 DEF Completes
  <2>4. QED
    BY <2>1, <2>2, <2>3
<1>6. emitted(s, type, allow) \in {s, more}
  BY DEF emitted
<1>7. ~s.closed /\ allow => emitted(s, type, allow) = more
  BY DEF emitted
<1>8. QED
  <2> HIDE DEF more
  <2>1. CASE emitted(s, type, allow) = more
    BY <1>3, <1>4, <1>5, <2>1
  <2>2. CASE emitted(s, type, allow) = s
    BY <1>3, <1>5, <1>7, <2>2
  <2>3. QED
    BY <1>6, <2>1, <2>2

\* A closing event closes the state, and completes the run if it says so.
LEMMA ClosedState ==
    ASSUME NEW s \in RunStates, NEW type \in EventTypes
    PROVE  /\ closedWith(s, type) \in RunStates
           /\ closedWith(s, type).closed
           /\ closedWith(s, type).cancellationStarted = s.cancellationStarted
           /\ type # "run_completed" => (Completes(closedWith(s, type)) => Completes(s))
           /\ type = "run_completed" /\ ~s.closed => Completes(closedWith(s, type))
           /\ Completes(s) => Completes(closedWith(s, type))
<1> DEFINE e == emitted(s, type, TRUE)
<1>1. /\ e \in RunStates /\ e.cancellationStarted = s.cancellationStarted
      /\ Completes(s) => Completes(e)
      /\ type # "run_completed" => (Completes(e) => Completes(s))
      /\ type = "run_completed" /\ ~s.closed => Completes(e)
  BY EmittedState
<1>2. closedWith(s, type) = [e EXCEPT !.closed = TRUE]
  BY DEF closedWith
<1> HIDE DEF e
<1>3. /\ closedWith(s, type) \in RunStates /\ closedWith(s, type).closed
      /\ closedWith(s, type).cancellationStarted = e.cancellationStarted
      /\ closedWith(s, type).events = e.events
  BY <1>1, <1>2 DEF RunStates
<1>4. Completes(closedWith(s, type)) <=> Completes(e)
  BY <1>3 DEF Completes
<1>5. QED
  BY <1>1, <1>3, <1>4

\* The ends the runtime can emit.
LEMMA EndedStates ==
    ASSUME NEW s \in RunStates, NEW withPartial \in BOOLEAN
    PROVE  /\ completedState(s) \in RunStates /\ completedState(s).closed
           /\ completedState(s).cancellationStarted = s.cancellationStarted
           /\ ~s.closed \/ Completes(s) => Completes(completedState(s))
           /\ failedState(s) \in RunStates /\ failedState(s).closed
           /\ failedState(s).cancellationStarted = s.cancellationStarted
           /\ Completes(failedState(s)) <=> Completes(s)
           /\ cancelledState(s, withPartial) \in RunStates /\ cancelledState(s, withPartial).closed
           /\ Completes(cancelledState(s, withPartial)) <=> Completes(s)
           /\ s.cancellationStarted => cancelledState(s, withPartial).cancellationStarted
<1>1. /\ "message_completed" \in EventTypes /\ "run_completed" \in EventTypes
      /\ "run_failed" \in EventTypes /\ "run_cancelled" \in EventTypes
  BY DEF EventTypes, TerminalEvents
<1>2. /\ completedState(s) \in RunStates /\ completedState(s).closed
      /\ completedState(s).cancellationStarted = s.cancellationStarted
      /\ ~s.closed \/ Completes(s) => Completes(completedState(s))
  <2> DEFINE e == emitted(s, "message_completed", FALSE)
  <2>1. /\ e \in RunStates /\ e.cancellationStarted = s.cancellationStarted
        /\ e.closed = s.closed /\ (Completes(s) => Completes(e))
    BY <1>1, EmittedState
  <2>2. completedState(s) = closedWith(e, "run_completed")
    BY DEF completedState
  <2> HIDE DEF e
  <2>3. QED
    BY <1>1, <2>1, <2>2, ClosedState
<1>3. /\ failedState(s) \in RunStates /\ failedState(s).closed
      /\ failedState(s).cancellationStarted = s.cancellationStarted
      /\ Completes(failedState(s)) <=> Completes(s)
  BY <1>1, ClosedState DEF failedState
<1>4. /\ cancelledState(s, withPartial) \in RunStates /\ cancelledState(s, withPartial).closed
      /\ Completes(cancelledState(s, withPartial)) <=> Completes(s)
      /\ s.cancellationStarted => cancelledState(s, withPartial).cancellationStarted
  <2> DEFINE begun == [s EXCEPT !.cancellationStarted = @ \/ ~s.closed]
             e == IF withPartial /\ ~s.messageCompleted
                  THEN emitted(begun, "message_completed", TRUE) ELSE begun
  <2>1. /\ begun \in RunStates /\ (Completes(begun) <=> Completes(s))
        /\ s.cancellationStarted => begun.cancellationStarted
    <3>1. begun.events = s.events
      BY DEF RunStates
    <3>2. begun \in RunStates
      <4>1. (s.cancellationStarted \/ ~s.closed) \in BOOLEAN
        OBVIOUS
      <4>2. QED
        BY <4>1, Zenon DEF RunStates
    <3>3. s.cancellationStarted => begun.cancellationStarted
      BY DEF RunStates
    <3>4. QED
      BY <3>1, <3>2, <3>3 DEF Completes
  <2>2. cancelledState(s, withPartial) = closedWith(e, "run_cancelled")
    BY DEF cancelledState
  <2> HIDE DEF begun
  <2>3. /\ emitted(begun, "message_completed", TRUE) \in RunStates
        /\ Completes(emitted(begun, "message_completed", TRUE)) <=> Completes(begun)
        /\ emitted(begun, "message_completed", TRUE).cancellationStarted = begun.cancellationStarted
    BY <1>1, <2>1, EmittedState
  <2>4. /\ e \in RunStates /\ (Completes(e) <=> Completes(s))
        /\ s.cancellationStarted => e.cancellationStarted
    BY <2>1, <2>3
  <2> HIDE DEF e
  <2>5. /\ closedWith(e, "run_cancelled") \in RunStates /\ closedWith(e, "run_cancelled").closed
        /\ Completes(closedWith(e, "run_cancelled")) <=> Completes(e)
        /\ closedWith(e, "run_cancelled").cancellationStarted = e.cancellationStarted
    BY <1>1, <2>4, ClosedState
  <2>6. QED
    BY <2>2, <2>4, <2>5
<1>5. QED
  BY <1>2, <1>3, <1>4

-----------------------------------------------------------------------------
(* The database. *)

\* At most the last event of a transaction ends the run.
OneEnd(events) == \A i \in DOMAIN events : i # Len(events) => events[i].type \notin TerminalEvents

Ends(events) == events # <<>> /\ Final(events).type \in TerminalEvents

\* The row behind a transaction: a started run goes on from the last event, or has the end that
\* event says, and one that was asked to cancel is cancelled.
LEMMA InsertedRows ==
    ASSUME NEW r \in RunRow, NEW events \in Seq(Event), insertable(r, Me, events)
    PROVE  /\ r.token = Me /\ r.status \in STARTED_STATUSES
           /\ insertedRun(r, events) \in RunRow
           /\ insertedRun(r, events).lastSequence = r.lastSequence + Len(events)
           /\ ~Ends(events) => insertedRun(r, events).status = r.status
           /\ Ends(events) =>
                 /\ insertedRun(r, events).status = terminalStatus(Final(events).type)
                 /\ insertedRun(r, events).status \in ENDED_STATUSES
                 /\ r.status = "cancelling" => Final(events).type = "run_cancelled"
<1>1. r.token = Me /\ r.status \in STARTED_STATUSES
  BY DEF insertable, claimedRunWhere
<1>2. /\ r.lastSequence \in Nat /\ r.status \in RunStatus /\ r.owner \in {Me, Null}
      /\ r.token \in {Me, Null} /\ r.lease \in Nat /\ r.queuedFor \in Nat
  BY DEF RunRow, AgentRunRow
<1>3. CASE events = <<>>
  BY <1>1, <1>2, <1>3 DEF insertedRun, Ends
<1>4. CASE events # <<>>
  <2> DEFINE last == Final(events)
  <2>1. Len(events) \in Nat /\ Len(events) \in DOMAIN events /\ last \in Event
    BY <1>4 DEF Final
  <2>2. last.sequence = r.lastSequence + Len(events) /\ last.sequence \in Nat
        /\ last.type \in EventTypes
    BY <2>1 DEF insertable, Final, Event
  <2>3. endsOrSuspendsRun(last) => r.status = "running"
    BY <2>1 DEF insertable, Final
  <2>4. insertedRun(r, events) =
           IF last.type \in TerminalEvents
           THEN noRunLease([r EXCEPT !.status = terminalStatus(last.type),
                                     !.lastSequence = last.sequence])
           ELSE [r EXCEPT !.lastSequence = last.sequence]
    BY <1>4 DEF insertedRun, Final
  <2> HIDE DEF last
  <2>5. CASE last.type \in TerminalEvents
    <3>1. terminalStatus(last.type) \in ENDED_STATUSES
      BY <2>5 DEF TerminalEvents, terminalStatus, ENDED_STATUSES
    <3>2. r.status = "cancelling" => last.type = "run_cancelled"
      BY <2>3, <2>5 DEF endsOrSuspendsRun, TerminalEvents
    <3>3. Ends(events) /\ Final(events) = last
      BY <1>4, <2>5 DEF Ends, last
    <3>4. insertedRun(r, events) =
             noRunLease([r EXCEPT !.status = terminalStatus(last.type),
                                  !.lastSequence = last.sequence])
      BY <2>4, <2>5
    <3>5. PICK status \in ENDED_STATUSES, n \in Nat :
             status = terminalStatus(last.type) /\ n = last.sequence
      BY <2>2, <3>1
    <3>6. LET ended == noRunLease([r EXCEPT !.status = status, !.lastSequence = n])
          IN  ended \in RunRow /\ ended.status = status /\ ended.lastSequence = n
      BY <1>2 DEF noRunLease, RunRow, AgentRunRow, RunStatus, ENDED_STATUSES
    <3>7. /\ insertedRun(r, events) \in RunRow
          /\ insertedRun(r, events).status = terminalStatus(last.type)
          /\ insertedRun(r, events).lastSequence = last.sequence
      BY <3>4, <3>5, <3>6
    <3>8. QED
      BY <1>1, <2>2, <3>1, <3>2, <3>3, <3>7
  <2>6. CASE last.type \notin TerminalEvents
    <3>1. ~Ends(events)
      BY <2>6 DEF Ends, last
    <3>2. insertedRun(r, events) = [r EXCEPT !.lastSequence = last.sequence]
      BY <2>4, <2>6
    <3>3. /\ insertedRun(r, events) \in RunRow /\ insertedRun(r, events).status = r.status
          /\ insertedRun(r, events).lastSequence = last.sequence
      BY <1>2, <2>2, <3>2 DEF RunRow, AgentRunRow
    <3>4. QED
      BY <1>1, <2>2, <3>1, <3>3
  <2>7. QED
    BY <2>5, <2>6
<1>5. QED
  BY <1>3, <1>4

\* The rows a request to cancel and the loss of the job leave.
LEMMA OtherRows ==
    ASSUME NEW r \in RunRow
    PROVE  /\ r.status = "running" =>
                 /\ cancelRequested(r) \in RunRow /\ cancelRequested(r).status = "cancelling"
                 /\ cancelRequested(r).lastSequence = r.lastSequence
           /\ failedRun(r) \in RunRow /\ failedRun(r).status = "failed"
           /\ failedRun(r).lastSequence = r.lastSequence + 1
<1>1. r.lastSequence \in Nat /\ r.lastSequence + 1 \in Nat
  BY DEF RunRow, AgentRunRow
<1>2. /\ failedRun(r) \in RunRow /\ failedRun(r).status = "failed"
      /\ failedRun(r).lastSequence = r.lastSequence + 1
  BY <1>1 DEF failedRun, noRunLease, RunRow, AgentRunRow, RunStatus, ENDED_STATUSES
<1>3. ASSUME r.status = "running"
      PROVE  /\ cancelRequested(r) \in RunRow /\ cancelRequested(r).status = "cancelling"
             /\ cancelRequested(r).lastSequence = r.lastSequence
  <2>1. cancelRequested(r) = [r EXCEPT !.status = "cancelling"]
    BY <1>3 DEF cancelRequested, STARTED_STATUSES
  <2>2. QED
    BY <2>1 DEF RunRow, AgentRunRow, RunStatus, RUN_IN_PROGRESS_STATUSES, STARTED_STATUSES
<1>4. QED
  BY <1>2, <1>3

\* A run that has not ended has no event that ends it.
LEMMA NoEndYet ==
    ASSUME LogOK, row.status \in STARTED_STATUSES
    PROVE  \A e \in log : e.type \notin TerminalEvents
<1>1. \A e \in log : e.type \in TerminalEvents => terminalStatus(e.type) \in STARTED_STATUSES
  BY DEF LogOK
<1>2. \A t \in TerminalEvents : terminalStatus(t) \notin STARTED_STATUSES
  BY DEF TerminalEvents, terminalStatus, STARTED_STATUSES
<1>3. QED
  BY <1>1, <1>2

\* Events that follow the log without a gap and of which at most the last ends the run, with the
\* row that says so.
LEMMA LongerLog ==
    ASSUME TypeOK, LogOK, row.status \in STARTED_STATUSES, row' \in RunRow,
           NEW events \in Seq(Event), OneEnd(events),
           \A i \in DOMAIN events : events[i].sequence = row.lastSequence + i,
           log' = log \cup {events[i] : i \in DOMAIN events},
           row'.lastSequence = row.lastSequence + Len(events),
           ~Ends(events) => row'.status \in STARTED_STATUSES,
           Ends(events) => row'.status = terminalStatus(Final(events).type)
    PROVE  LogOK'
<1> DEFINE n == row.lastSequence
<1>1. /\ n \in Nat /\ Len(events) \in Nat /\ DOMAIN events = 1..Len(events)
      /\ \A i \in DOMAIN events : events[i] \in Event
  BY Types DEF RunRow, AgentRunRow
<1>2. {e.sequence : e \in log} = 1..n
  BY DEF LogOK
<1>3. \A e \in log : e.sequence \in 1..n
  BY <1>2
<1>4. \A e \in log : e.type \notin TerminalEvents
  BY NoEndYet
<1>5. \A e \in log' : e \in log \/ \E i \in DOMAIN events : e = events[i]
  OBVIOUS
<1>6. {e.sequence : e \in log'} = 1..(n + Len(events))
  <2>1. \A e \in log' : e.sequence \in 1..(n + Len(events))
    <3>1. ASSUME NEW e \in log' PROVE e.sequence \in 1..(n + Len(events))
      <4>1. CASE e \in log
        <5>1. e.sequence \in 1..n
          BY <1>3, <4>1
        <5>2. QED
          BY <1>1, <5>1
      <4>2. ASSUME NEW i \in DOMAIN events, e = events[i] PROVE e.sequence \in 1..(n + Len(events))
        <5>1. e.sequence = n + i /\ i \in 1..Len(events)
          BY <1>1, <4>2
        <5>2. QED
          BY <1>1, <5>1
      <4>3. QED
        BY <1>5, <4>1, <4>2
    <3>2. QED
      BY <3>1
  <2>2. ASSUME NEW k \in 1..(n + Len(events)) PROVE \E e \in log' : e.sequence = k
    <3>1. CASE k <= n
      <4>1. k \in 1..n
        BY <1>1, <3>1
      <4>2. QED
        BY <1>2, <4>1
    <3>2. CASE k > n
      <4>1. k - n \in 1..Len(events) /\ n + (k - n) = k
        BY <1>1, <3>2
      <4>2. k - n \in DOMAIN events
        BY <1>1, <4>1
      <4>3. events[k - n].sequence = n + (k - n)
        BY <4>2
      <4>4. events[k - n] \in log'
        BY <4>2
      <4>5. QED
        BY <4>1, <4>3, <4>4
    <3>3. QED
      BY <1>1, <3>1, <3>2
  <2>3. QED
    BY <2>1, <2>2
<1>7. \A d, e \in log' : d.sequence = e.sequence => d = e
  <2>1. ASSUME NEW d \in log', NEW e \in log', d.sequence = e.sequence PROVE d = e
    <3>1. CASE d \in log /\ e \in log
      BY <2>1, <3>1 DEF LogOK
    <3>2. ASSUME NEW i \in DOMAIN events, d = events[i], e \in log PROVE FALSE
      <4>1. d.sequence = n + i /\ e.sequence \in 1..n /\ i \in 1..Len(events)
        BY <1>1, <1>3, <3>2
      <4>2. QED
        BY <1>1, <2>1, <4>1
    <3>3. ASSUME NEW i \in DOMAIN events, e = events[i], d \in log PROVE FALSE
      <4>1. e.sequence = n + i /\ d.sequence \in 1..n /\ i \in 1..Len(events)
        BY <1>1, <1>3, <3>3
      <4>2. QED
        BY <1>1, <2>1, <4>1
    <3>4. ASSUME NEW i \in DOMAIN events, NEW j \in DOMAIN events, d = events[i], e = events[j]
          PROVE  d = e
      <4>1. n + i = n + j /\ i \in Nat /\ j \in Nat
        BY <1>1, <2>1, <3>4
      <4>2. i = j
        BY <1>1, <4>1
      <4>3. QED
        BY <3>4, <4>2
    <3>5. QED
      BY <1>5, <3>1, <3>2, <3>3, <3>4
  <2>2. QED
    BY <2>1
<1>8. ASSUME NEW e \in log', e.type \in TerminalEvents
      PROVE  Ends(events) /\ e = Final(events)
  <2>1. PICK i \in DOMAIN events : e = events[i]
    BY <1>4, <1>5, <1>8
  <2>2. i = Len(events)
    BY <1>8, <2>1 DEF OneEnd
  <2>3. events # <<>>
    BY <2>1
  <2>4. QED
    BY <1>8, <2>1, <2>2, <2>3 DEF Ends, Final
<1>9. \A e \in log' : e.type \in TerminalEvents =>
         e.sequence = row'.lastSequence /\ row'.status = terminalStatus(e.type)
  <2>1. ASSUME NEW e \in log', e.type \in TerminalEvents
        PROVE  e.sequence = row'.lastSequence /\ row'.status = terminalStatus(e.type)
    <3>1. Ends(events) /\ e = Final(events)
      BY <1>8, <2>1
    <3>2. Len(events) \in DOMAIN events
      BY <3>1 DEF Ends
    <3>3. QED
      BY <3>1, <3>2 DEF Final
  <2>2. QED
    BY <2>1
<1>10. /\ row'.status \in ENDED_STATUSES => \E e \in log' : e.type \in TerminalEvents
       /\ row'.status \in STARTED_STATUSES \cup ENDED_STATUSES
  <2>1. CASE Ends(events)
    <3>1. Len(events) \in DOMAIN events
      BY <2>1 DEF Ends
    <3>2. Final(events) \in log' /\ Final(events).type \in TerminalEvents
      BY <2>1, <3>1 DEF Final, Ends
    <3>3. terminalStatus(Final(events).type) \in ENDED_STATUSES
      BY <3>2 DEF TerminalEvents, terminalStatus, ENDED_STATUSES
    <3>4. QED
      BY <2>1, <3>2, <3>3
  <2>2. CASE ~Ends(events)
    BY <2>2 DEF STARTED_STATUSES, ENDED_STATUSES
  <2>3. QED
    BY <2>1, <2>2
<1>11. QED
  BY <1>6, <1>7, <1>9, <1>10 DEF LogOK

-----------------------------------------------------------------------------
(* What a step does to the database, whoever takes it. *)

StoredStep ==
    \/ UNCHANGED stored
    \/ row.status = "running" /\ row' = cancelRequested(row) /\ UNCHANGED <<log, answers, unended>>
    \/ /\ row.status \in STARTED_STATUSES /\ (job = "gone" \/ consumer.pc = "thrown")
       /\ FailLost
    \/ \E batch \in RunWrite : OneEnd(batch.events) /\ Accepts(batch) /\ Store(batch)

\* It keeps the log in order, and no run is running that was not.
LEMMA StoredStepKeepsLog ==
    ASSUME TypeOK, LogOK, StoredStep
    PROVE  /\ row' \in RunRow /\ log' \subseteq Event /\ answers' \in Seq(Messages)
           /\ unended' \subseteq RunWrite
           /\ LogOK'
           /\ row'.status = "running" => row.status = "running"
           /\ row'.status = "completed" /\ row.status # "running" => UNCHANGED stored
<1>1. /\ row \in RunRow /\ log \subseteq Event /\ answers \in Seq(Messages)
      /\ unended \subseteq RunWrite
      /\ row.lastSequence \in Nat
  BY Types DEF RunRow, AgentRunRow
<1>2. CASE UNCHANGED stored
  BY <1>1, <1>2 DEF stored, LogOK
<1>3. CASE row.status = "running" /\ row' = cancelRequested(row) /\ UNCHANGED <<log, answers, unended>>
  <2>1. /\ row' \in RunRow /\ row'.status = "cancelling"
        /\ row'.lastSequence = row.lastSequence
    BY <1>1, <1>3, OtherRows
  <2>2. \A e \in log : e.type \notin TerminalEvents
    BY <1>3, NoEndYet DEF STARTED_STATUSES
  <2>3. LogOK'
    BY <1>3, <2>1, <2>2 DEF LogOK, STARTED_STATUSES, ENDED_STATUSES
  <2>4. QED
    BY <1>1, <1>3, <2>1, <2>3
<1>4. CASE row.status \in STARTED_STATUSES /\ FailLost
  <2> DEFINE e == [type |-> "run_failed", sequence |-> row.lastSequence + 1]
  <2>1. row' \in RunRow /\ row'.status = "failed" /\ row'.lastSequence = row.lastSequence + 1
    BY <1>1, <1>4, OtherRows DEF FailLost
  <2>2. e \in Event
    BY <1>1 DEF Event, EventTypes, TerminalEvents
  <2>3. log' = log \cup {e} /\ answers' = answers /\ unended' = unended
    BY <1>4 DEF FailLost
  <2>4. e.type = "run_failed" /\ e.sequence = row.lastSequence + 1
    OBVIOUS
  <2> HIDE DEF e
  <2>5. LogOK'
    <3> DEFINE events == <<e>>
    <3>1. /\ events \in Seq(Event) /\ Len(events) = 1 /\ DOMAIN events = {1}
          /\ \A i \in DOMAIN events : events[i] = e
      BY <2>2
    <3>2. {events[i] : i \in DOMAIN events} = {e} /\ Final(events) = e /\ events # <<>>
      BY <3>1 DEF Final
    <3> HIDE DEF events
    <3>3. OneEnd(events) /\ Ends(events) /\ terminalStatus("run_failed") = "failed"
      BY <2>4, <3>1, <3>2 DEF OneEnd, Ends, TerminalEvents, terminalStatus
    <3>4. \A i \in DOMAIN events : events[i].sequence = row.lastSequence + i
      BY <2>4, <3>1
    <3>5. /\ log' = log \cup {events[i] : i \in DOMAIN events}
          /\ row'.lastSequence = row.lastSequence + Len(events)
          /\ row'.status = terminalStatus(Final(events).type)
      BY <2>1, <2>3, <2>4, <3>1, <3>2, <3>3
    <3>6. QED
      BY <1>4, <2>1, <3>1, <3>3, <3>4, <3>5, LongerLog
  <2>6. QED
    BY <1>1, <2>1, <2>2, <2>3, <2>5
<1>5. ASSUME NEW batch \in RunWrite, OneEnd(batch.events), Accepts(batch), Store(batch)
      PROVE  /\ row' \in RunRow /\ log' \subseteq Event /\ answers' \in Seq(Messages)
             /\ unended' \subseteq RunWrite
             /\ LogOK'
             /\ row'.status = "running" => row.status = "running"
             /\ row'.status = "completed" /\ row.status # "running" => UNCHANGED stored
  <2> DEFINE events == batch.events
  <2>1. events \in Seq(Event) /\ batch.message \in Messages \cup {Null}
    BY DEF RunWrite
  <2>2. insertable(row, Me, events) /\ row' = insertedRun(row, events)
    BY <1>5 DEF Accepts, Store
  <2> HIDE DEF events
  <2>3. /\ row.status \in STARTED_STATUSES /\ row' \in RunRow
        /\ row'.lastSequence = row.lastSequence + Len(events)
        /\ ~Ends(events) => row'.status = row.status
        /\ Ends(events) =>
              /\ row'.status = terminalStatus(Final(events).type)
              /\ row'.status \in ENDED_STATUSES
              /\ row.status = "cancelling" => Final(events).type = "run_cancelled"
    BY <1>1, <2>1, <2>2, InsertedRows
  <2>4. log' = log \cup {events[i] : i \in DOMAIN events}
    BY <1>5 DEF Store, events
  <2>5. \A i \in DOMAIN events : events[i].sequence = row.lastSequence + i /\ events[i] \in Event
    BY <2>1, <2>2 DEF insertable
  <2>6. answers' \in Seq(Messages) /\ unended' \subseteq RunWrite
    BY <1>1, <1>5, <2>1 DEF Store
  <2>7. log' \subseteq Event
    BY <1>1, <2>4, <2>5
  <2>8. OneEnd(events)
    BY <1>5 DEF events
  <2>9. LogOK'
    BY <2>1, <2>3, <2>4, <2>5, <2>8, LongerLog
  <2>10. row'.status = "running" => row.status = "running"
    BY <2>3 DEF STARTED_STATUSES, ENDED_STATUSES
  <2>11. ~(row'.status = "completed" /\ row.status # "running")
    BY <2>3 DEF STARTED_STATUSES, ENDED_STATUSES, terminalStatus
  <2>12. QED
    BY <2>3, <2>6, <2>7, <2>9, <2>10, <2>11
<1>6. QED
  BY <1>2, <1>3, <1>4, <1>5 DEF StoredStep

\* Nothing is said of the answer of a run that somebody asked to cancel.
LEMMA AnswersOfNoRunning ==
    ASSUME TypeOK, LogOK, AnswersOK, StoredStep,
           row.status # "running" \/ row'.status \notin {"running", "completed"}
    PROVE  AnswersOK'
<1>1. row'.status # "running"
  BY StoredStepKeepsLog
<1>2. AnswerOK'
  BY <1>1 DEF AnswerOK
<1>3. CompletedHasAnswer'
  BY StoredStepKeepsLog DEF CompletedHasAnswer, AnswersOK, stored
<1>4. QED
  BY <1>2, <1>3 DEF AnswersOK

\* Nor does a step change anything that concerns neither the answer nor the consumer.
LEMMA AnswersKept ==
    ASSUME AnswersOK, UNCHANGED <<stored, consumer, heldEnd>>, Completing' <=> Completing
    PROVE  AnswersOK'
<1>1. UNCHANGED <<row, answers, consumer, heldEnd>>
  BY DEF stored
<1>2. CompletedHasAnswer'
  BY <1>1 DEF AnswersOK, CompletedHasAnswer
<1>3. InLoop' <=> InLoop
  BY <1>1 DEF InLoop
<1>4. AnswerOK'
  BY <1>1, <1>3 DEF AnswersOK, AnswerOK
<1>5. QED
  BY <1>2, <1>4 DEF AnswersOK

\* What the others do to what the consumer is about to write.
LEMMA BatchesKept ==
    ASSUME BatchesOK, UNCHANGED consumer, Completing => Completing',
           heldEnd' # Null => NoTerminal(heldEnd'.events),
           NoTerminal(loop'.batch.events), NoTerminal(cancel'.batch.events),
           consumer.pc = "start" => loop'.pc = "off"
    PROVE  BatchesOK'
<1>1. Writing' <=> Writing
  BY DEF Writing
<1>2. QED
  BY <1>1 DEF BatchesOK

\* The parts of a state of the invariant.
LEMMA Parts ==
    ASSUME TypeOK
    PROVE  /\ row \in RunRow /\ row.lastSequence \in Nat
           /\ state \in RunStates /\ state.closed \in BOOLEAN
           /\ state.cancellationStarted \in BOOLEAN /\ state.messageCompleted \in BOOLEAN
           /\ state.streamed \in BOOLEAN
           /\ loop \in Loops /\ loop.batch \in RunWrite /\ loop.rounds \in Nat
           /\ cancel \in RuntimeCancels /\ cancel.batch \in RunWrite
           /\ consumer \in Consumers /\ consumer.batch \in RunWrite /\ consumer.seen \in Nat
           /\ consumer.latest \in Nat /\ consumer.at \in {"loop", "closeHeld", "closeLast"}
           /\ heldEnd \in RunWrite \cup {Null}
           /\ NoWrite \in RunWrite /\ NoTerminal(NoWrite.events) /\ NoWrite.message = Null
           /\ \A m \in Messages : LET held == [message |-> m, events |-> <<>>]
                                  IN  held \in RunWrite /\ held # Null /\ NoTerminal(held.events)
<1>1. <<>> \in Seq(Event) /\ NoTerminal(<<>>)
  BY DEF NoTerminal
<1>2. NoWrite \in RunWrite /\ NoTerminal(NoWrite.events) /\ NoWrite.message = Null
  BY <1>1 DEF NoWrite, RunWrite
<1>3. \A m \in Messages : LET held == [message |-> m, events |-> <<>>]
                          IN  held \in RunWrite /\ held # Null /\ NoTerminal(held.events)
  <2>1. ASSUME NEW m \in Messages PROVE [message |-> m, events |-> <<>>] \in RunWrite
    BY <1>1 DEF RunWrite
  <2>2. QED
    BY <1>1, <2>1, RunExecutionConstants
<1>4. row \in RunRow /\ row.lastSequence \in Nat
  BY Types DEF RunRow, AgentRunRow
<1>5. /\ state \in RunStates /\ state.closed \in BOOLEAN
      /\ state.cancellationStarted \in BOOLEAN /\ state.messageCompleted \in BOOLEAN
      /\ state.streamed \in BOOLEAN
  BY Types DEF RunStates
<1>6. /\ loop \in Loops /\ loop.batch \in RunWrite /\ loop.rounds \in Nat
      /\ cancel \in RuntimeCancels /\ cancel.batch \in RunWrite
  BY Types DEF Loops, RuntimeCancels
<1>7. /\ consumer \in Consumers /\ consumer.batch \in RunWrite /\ consumer.seen \in Nat
      /\ consumer.latest \in Nat /\ consumer.at \in {"loop", "closeHeld", "closeLast"}
  BY Types DEF Consumers
<1>8. QED
  BY <1>2, <1>3, <1>4, <1>5, <1>6, <1>7, Types

\* A step that puts the parts in order keeps the invariant.
LEMMA Assembled ==
    ASSUME IInv, StoredStep, job' \in {"held", "gone"},
           state' \in RunStates, loop' \in Loops, cancel' \in RuntimeCancels,
           consumer' \in Consumers, heldEnd' \in RunWrite \cup {Null},
           stopCause' \in {"none", "lease_lost", "worker_stopping", "idle"},
           aborted' \in BOOLEAN, cancellation' \in BOOLEAN,
           BatchesOK', CancellationOK', AnswersOK'
    PROVE  IInv'
<1>1. /\ row' \in RunRow /\ log' \subseteq Event /\ answers' \in Seq(Messages)
      /\ unended' \subseteq RunWrite /\ LogOK'
  BY StoredStepKeepsLog DEF IInv
<1>2. TypeOK'
  BY <1>1 DEF TypeOK, RunStates, Loops, RuntimeCancels, Consumers, RunRow
<1>3. QED
  BY <1>1, <1>2 DEF IInv

-----------------------------------------------------------------------------
(* The turn loop. *)

\* A fenced call ends: a lost lease is noted.
LEMMA Signalled ==
    ASSUME TypeOK, NEW result \in Results, Fenced(result)
    PROVE  /\ stopCause' \in {"none", "lease_lost", "worker_stopping", "idle"}
           /\ aborted' \in BOOLEAN /\ cancellation' = cancellation
BY DEF TypeOK, Fenced, StopFor, signals

\* A write that a coroutine has begun, whatever comes back.
LEMMA Written ==
    ASSUME TypeOK, NEW batch \in RunWrite, OneEnd(batch.events), NEW result \in Results,
           Write(batch, result)
    PROVE  StoredStep
BY DEF Write, StoredStep

\* Events without an end have at most one.
LEMMA NoTerminalOneEnd == ASSUME NEW events, NoTerminal(events) PROVE OneEnd(events)
BY DEF NoTerminal, OneEnd

\* The model streams.
LEMMA LoopStreamsOK == ASSUME IInv, NEW text \in BOOLEAN, LoopStreams(text) PROVE IInv'
<1> USE DEF IInv
<1>1. UNCHANGED <<stored, job, loop, cancel, consumer, heldEnd, signals>> /\ loop.pc = "model"
  BY DEF LoopStreams
<1> DEFINE e == emitted(state, "progress", FALSE)
<1>2. /\ e \in RunStates /\ e.closed = state.closed
      /\ e.cancellationStarted = state.cancellationStarted
      /\ Completes(e) <=> Completes(state)
  <2>1. "progress" \in EventTypes /\ "progress" # "run_completed"
    BY DEF EventTypes
  <2>2. QED
    BY <2>1, Parts, EmittedState
<1>3. state' = [e EXCEPT !.streamed = @ \/ text]
  BY DEF LoopStreams
<1> HIDE DEF e
<1>4. /\ state'.events = e.events /\ state'.closed = e.closed
      /\ state'.cancellationStarted = e.cancellationStarted
  BY <1>2, <1>3 DEF RunStates
<1>5. state' \in RunStates
  <2>1. e.streamed \in BOOLEAN
    BY <1>2 DEF RunStates
  <2>2. (e.streamed \/ text) \in BOOLEAN
    OBVIOUS
  <2>3. QED
    BY <1>2, <1>3, <2>2, Zenon DEF RunStates
<1>6. Completing' <=> Completing
  BY <1>2, <1>4 DEF Completing, Completes
<1>7. BatchesOK'
  BY <1>1, <1>6, BatchesKept DEF BatchesOK
<1>8. CancellationOK'
  BY <1>1, <1>2, <1>4, <1>6 DEF CancellationOK, stored, signals
<1>9. AnswersOK'
  BY <1>1, <1>6, AnswersKept
<1>10. StoredStep
  BY <1>1 DEF StoredStep
<1>11. QED
  BY <1>1, <1>5, <1>7, <1>8, <1>9, <1>10, Types, Assembled DEF signals

\* The loop goes from one await to the next, or ends, and emits nothing.
LEMMA LoopMovesOK ==
    ASSUME IInv, UNCHANGED <<stored, job, state, cancel, consumer, heldEnd, signals>>,
           loop.pc \notin {"off", "flush", "toolFlush", "done"},
           NEW pc \in {"model", "assert", "toolAssert", "toolWrite", "done"}, NEW rounds \in Nat,
           loop' = [loop EXCEPT !.pc = pc, !.rounds = rounds]
    PROVE  IInv'
<1> USE DEF IInv
<1>1. loop' \in Loops /\ loop'.batch = loop.batch /\ loop'.pc = pc
  BY Parts DEF Loops
<1>2. Completing' <=> Completing
  BY DEF Completing
<1>3. BatchesOK'
  BY <1>1, <1>2, BatchesKept DEF BatchesOK
<1>4. CancellationOK'
  BY <1>1, <1>2 DEF CancellationOK, stored, signals
<1>5. AnswersOK'
  BY <1>2, AnswersKept
<1>6. StoredStep
  BY DEF StoredStep
<1>7. QED
  BY <1>1, <1>3, <1>4, <1>5, <1>6, Types, Assembled DEF signals

\* The loop fails: the runtime closes the run.
LEMMA LoopFailsOK ==
    ASSUME IInv, UNCHANGED <<job, cancel, consumer, heldEnd>>, UNCHANGED stored,
           stopCause' \in {"none", "lease_lost", "worker_stopping", "idle"},
           aborted' \in BOOLEAN, cancellation' = cancellation,
           loop.pc # "off", loop' = [loop EXCEPT !.pc = "done"], state' = failedState(state)
    PROVE  IInv'
<1> USE DEF IInv
<1>1. loop' \in Loops /\ loop'.batch = loop.batch /\ loop'.pc = "done"
  BY Parts DEF Loops
<1>2. /\ state' \in RunStates /\ state'.cancellationStarted = state.cancellationStarted
      /\ Completing' <=> Completing
  BY Parts, EndedStates DEF Completing
<1>3. BatchesOK'
  BY <1>1, <1>2, BatchesKept DEF BatchesOK
<1>4. CancellationOK'
  BY <1>1, <1>2 DEF CancellationOK, stored
<1>5. AnswersOK'
  BY <1>2, AnswersKept
<1>6. StoredStep
  BY DEF StoredStep
<1>7. QED
  BY <1>1, <1>2, <1>3, <1>4, <1>5, <1>6, Types, Assembled

\* The answer is held back with the events that end the run.
LEMMA AnswerHeld ==
    ASSUME TypeOK, HoldAnswer
    PROVE  /\ heldEnd' \in RunWrite /\ heldEnd' # Null /\ heldEnd'.message = "answer"
           /\ NoTerminal(heldEnd'.events)
           /\ state' \in RunStates /\ state'.closed
           /\ state'.cancellationStarted = state.cancellationStarted
           /\ ~state.closed => Completing'
           /\ Completing => Completing'
<1>1. /\ heldEnd' \in RunWrite /\ heldEnd' # Null /\ heldEnd'.message = "answer"
      /\ NoTerminal(heldEnd'.events)
  <2>1. "answer" \in Messages
    BY DEF Messages
  <2>2. QED
    BY <2>1, Parts DEF HoldAnswer
<1> DEFINE e == emitted(state, "progress", FALSE)
<1>2. /\ e \in RunStates /\ e.closed = state.closed
      /\ e.cancellationStarted = state.cancellationStarted
      /\ Completes(state) => Completes(e)
  <2>1. "progress" \in EventTypes
    BY DEF EventTypes
  <2>2. QED
    BY <2>1, Parts, EmittedState
<1>3. state' = completedState(state) \/ state' = completedState(e)
  BY DEF HoldAnswer
<1> HIDE DEF e
<1>4. ASSUME NEW s \in RunStates, state' = completedState(s), s.closed = state.closed,
             s.cancellationStarted = state.cancellationStarted, Completing => Completes(s)
      PROVE  /\ state' \in RunStates /\ state'.closed
             /\ state'.cancellationStarted = state.cancellationStarted
             /\ ~state.closed => Completing'
             /\ Completing => Completing'
  BY <1>4, EndedStates DEF Completing
<1>5. QED
  BY <1>1, <1>2, <1>3, <1>4, Parts DEF Completing

\* The loop asserts the claim, and stores what is held first.
LEMMA LoopAssertsOK == ASSUME IInv, LoopAsserts PROVE IInv'
<1> USE DEF IInv
<1>1. UNCHANGED <<stored, job, cancel, consumer, signals>> /\ loop.pc \in {"assert", "toolAssert"}
  BY DEF LoopAsserts
<1>2. StoredStep
  BY <1>1 DEF StoredStep
<1>3. CASE heldEnd # Null
  <2>1. UNCHANGED state /\ heldEnd' = Null
    BY <1>3 DEF LoopAsserts
  <2>2. PICK pc \in {"flush", "toolFlush"} : loop' = [loop EXCEPT !.pc = pc, !.batch = heldEnd]
    BY <1>3 DEF LoopAsserts
  <2>3. loop' \in Loops /\ loop'.pc = pc /\ loop'.batch = heldEnd
    BY <1>3, <2>2, Parts DEF Loops
  <2>4. cancellation /\ row.status # "running"
    BY <1>1, <1>3 DEF CancellationOK
  <2>5. Completing' <=> Completing
    BY <2>1 DEF Completing
  <2>6. BatchesOK'
    BY <1>1, <1>3, <2>1, <2>3, <2>5, BatchesKept DEF BatchesOK
  <2>7. CancellationOK'
    BY <1>1, <2>1, <2>3, <2>4, <2>5 DEF CancellationOK, stored, signals
  <2>8. AnswersOK'
    BY <1>2, <2>4, AnswersOfNoRunning
  <2>9. QED
    BY <1>1, <1>2, <2>1, <2>3, <2>6, <2>7, <2>8, Types, Assembled DEF signals
<1>4. CASE heldEnd = Null /\ loop.pc = "toolAssert"
  <2>1. UNCHANGED <<heldEnd, state>> /\ loop' = [loop EXCEPT !.pc = "toolWrite"]
    BY <1>4 DEF LoopAsserts
  <2>2. [loop EXCEPT !.pc = "toolWrite"] = [loop EXCEPT !.pc = "toolWrite", !.rounds = loop.rounds]
    BY Parts DEF Loops
  <2>3. QED
    BY <1>1, <1>4, <2>1, <2>2, Parts, LoopMovesOK
<1>5. CASE heldEnd = Null /\ loop.pc = "assert"
  <2>1. HoldAnswer /\ loop' = [loop EXCEPT !.pc = "done"]
    BY <1>5 DEF LoopAsserts
  <2>2. loop' \in Loops /\ loop'.pc = "done" /\ loop'.batch = loop.batch
    BY <2>1, Parts DEF Loops
  <2>3. /\ heldEnd' \in RunWrite /\ heldEnd' # Null /\ heldEnd'.message = "answer"
        /\ NoTerminal(heldEnd'.events)
        /\ state' \in RunStates /\ state'.closed
        /\ state'.cancellationStarted = state.cancellationStarted
        /\ ~state.closed => Completing'
        /\ Completing => Completing'
    BY <2>1, AnswerHeld
  <2>4. ~Completing
    BY <1>5 DEF CancellationOK
  <2>5. BatchesOK'
    BY <1>1, <2>2, <2>3, BatchesKept DEF BatchesOK
  <2>6. CancellationOK'
    BY <1>1, <2>2, <2>3 DEF CancellationOK, stored, signals
  <2>7. AnswersOK'
    <3>1. CASE row.status # "running"
      BY <1>2, <3>1, AnswersOfNoRunning
    <3>2. CASE row.status = "running"
      <4>1. Completing'
        BY <1>5, <2>3, <3>2 DEF CancellationOK
      <4>2. answers = <<>> /\ consumer.batch.message = Null
        BY <2>4, <3>2 DEF AnswersOK, AnswerOK
      <4>3. UNCHANGED <<row, answers, consumer>>
        BY <1>1 DEF stored
      <4>4. ~(consumer.pc = "write" /\ Final(consumer.batch.events).type = "run_completed")
        BY <2>4 DEF BatchesOK, Writing
      <4>5. AnswerOK'
        BY <2>3, <4>1, <4>2, <4>3, <4>4 DEF AnswerOK
      <4>6. CompletedHasAnswer'
        BY <3>2, <4>2, <4>3 DEF CompletedHasAnswer
      <4>7. QED
        BY <4>5, <4>6 DEF AnswersOK
    <3>3. QED
      BY <3>1, <3>2
  <2>8. QED
    BY <1>1, <1>2, <2>2, <2>3, <2>5, <2>6, <2>7, Types, Assembled DEF signals
<1>6. QED
  BY <1>1, <1>3, <1>4, <1>5

\* The loop stores what was held, in a run that was asked to cancel.
LEMMA LoopFlushesOK == ASSUME IInv, LoopFlushes PROVE IInv'
<1> USE DEF IInv
<1>1. UNCHANGED <<job, cancel, consumer>> /\ loop.pc \in {"flush", "toolFlush"}
  BY DEF LoopFlushes
<1>2. PICK result \in Results :
          /\ Write(loop.batch, result) /\ Fenced(result)
          /\ loop' = [loop EXCEPT !.pc = IF result = "ok" /\ @ = "toolFlush" THEN "toolWrite"
                                         ELSE "done",
                                  !.batch = NoWrite]
          /\ IF result # "ok" THEN state' = failedState(state) /\ UNCHANGED heldEnd
             ELSE IF loop.pc = "flush" THEN HoldAnswer
             ELSE UNCHANGED <<state, heldEnd>>
  BY DEF LoopFlushes
<1>3. StoredStep
  BY <1>2, Parts, NoTerminalOneEnd, Written DEF BatchesOK
<1>4. /\ stopCause' \in {"none", "lease_lost", "worker_stopping", "idle"}
      /\ aborted' \in BOOLEAN /\ cancellation' = cancellation
  BY <1>2, Signalled
<1>5. PICK pc \in {"toolWrite", "done"} :
        /\ loop' = [loop EXCEPT !.pc = pc, !.batch = NoWrite]
        /\ pc = "toolWrite" => result = "ok" /\ loop.pc = "toolFlush"
  BY <1>2
<1>6. loop' \in Loops /\ loop'.pc = pc /\ loop'.batch = NoWrite
  BY <1>5, Parts DEF Loops
<1>7. cancellation /\ row.status # "running" /\ row'.status # "running"
  BY <1>1, <1>3, StoredStepKeepsLog DEF CancellationOK
<1>8. AnswersOK'
  BY <1>3, <1>7, AnswersOfNoRunning
<1>9. ~Completing
  BY <1>1 DEF CancellationOK
<1>10. /\ state' \in RunStates /\ heldEnd' \in RunWrite \cup {Null}
       /\ heldEnd' # Null => NoTerminal(heldEnd'.events)
       /\ Completing' => pc = "done"
  <2>1. CASE result # "ok"
    BY <1>2, <2>1, <1>5, Parts, EndedStates DEF BatchesOK
  <2>2. CASE result = "ok" /\ loop.pc = "flush"
    <3>1. HoldAnswer
      BY <1>2, <2>2
    <3>2. pc = "done"
      BY <1>5, <2>2
    <3>3. QED
      BY <3>1, <3>2, AnswerHeld
  <2>3. CASE result = "ok" /\ loop.pc = "toolFlush"
    <3>1. UNCHANGED <<state, heldEnd>>
      BY <1>2, <2>3
    <3>2. ~Completing'
      BY <1>9, <3>1 DEF Completing
    <3>3. QED
      BY <3>1, <3>2, Parts DEF BatchesOK
  <2>4. QED
    BY <1>1, <2>1, <2>2, <2>3
<1>11. BatchesOK'
  BY <1>1, <1>6, <1>9, <1>10, Parts, BatchesKept DEF BatchesOK
<1>12. CancellationOK'
  BY <1>4, <1>6, <1>7, <1>10 DEF CancellationOK
<1>13. QED
  BY <1>1, <1>3, <1>4, <1>6, <1>8, <1>10, <1>11, <1>12, Types, Assembled

\* Whatever the turn loop does.
LEMMA TurnLoopOK == ASSUME IInv, TurnLoop PROVE IInv'
<1>1. TypeOK
  BY DEF IInv
<1>2. ASSUME NEW pc \in {"model", "assert", "toolAssert", "toolWrite", "done"}
      PROVE  [loop EXCEPT !.pc = pc] = [loop EXCEPT !.pc = pc, !.rounds = loop.rounds]
  BY <1>1, Parts DEF Loops
<1>3. CASE \E text \in BOOLEAN : LoopStreams(text)
  BY <1>3, LoopStreamsOK
<1>4. CASE LoopReturns \/ LoopAnswers \/ LoopToolWrites
  <2>1. PICK pc \in {"model", "assert", "done"} : loop' = [loop EXCEPT !.pc = pc]
    BY <1>4 DEF LoopReturns, LoopAnswers, LoopToolWrites
  <2>2. /\ UNCHANGED <<stored, job, state, cancel, consumer, heldEnd, signals>>
        /\ loop.pc \in {"model", "toolWrite"}
    BY <1>4 DEF LoopReturns, LoopAnswers, LoopToolWrites
  <2>3. loop' = [loop EXCEPT !.pc = pc, !.rounds = loop.rounds]
    BY <1>2, <2>1
  <2>4. QED
    BY <1>1, <2>2, <2>3, Parts, LoopMovesOK
<1>5. CASE LoopCallsTools
  <2>1. /\ UNCHANGED <<stored, job, state, cancel, consumer, heldEnd, signals>>
        /\ loop.pc = "model"
        /\ loop' = [loop EXCEPT !.pc = "toolAssert", !.rounds = loop.rounds + 1]
    BY <1>5 DEF LoopCallsTools
  <2>2. loop.rounds + 1 \in Nat
    BY <1>1, Parts
  <2>3. QED
    BY <2>1, <2>2, LoopMovesOK
<1>6. CASE LoopThrows
  <2>1. /\ UNCHANGED <<job, cancel, consumer, heldEnd>> /\ UNCHANGED stored
        /\ loop.pc = "model" /\ loop' = [loop EXCEPT !.pc = "done"]
        /\ state' = failedState(state)
        /\ UNCHANGED signals
    BY <1>6 DEF LoopThrows
  <2>2. /\ stopCause' \in {"none", "lease_lost", "worker_stopping", "idle"}
        /\ aborted' \in BOOLEAN /\ cancellation' = cancellation
    BY <1>1, <2>1, Types DEF signals
  <2>3. QED
    BY <2>1, <2>2, LoopFailsOK
<1>7. CASE LoopRefused
  <2>1. /\ UNCHANGED <<job, cancel, consumer, heldEnd>> /\ UNCHANGED stored
        /\ loop.pc # "off" /\ loop' = [loop EXCEPT !.pc = "done"]
        /\ state' = failedState(state)
    BY <1>7 DEF LoopRefused
  <2>2. PICK result \in Results : Fenced(result)
    BY <1>7 DEF LoopRefused
  <2>3. QED
    BY <1>1, <2>1, <2>2, Signalled, LoopFailsOK
<1>8. QED
  BY <1>3, <1>4, <1>5, <1>6, <1>7, LoopAssertsOK, LoopFlushesOK DEF TurnLoop

-----------------------------------------------------------------------------
(* Cancellation. *)

\* The partial message is held back with the event that ends the run.
LEMMA PartialHeld ==
    ASSUME TypeOK, HoldPartial
    PROVE  /\ heldEnd' \in RunWrite /\ heldEnd' # Null /\ NoTerminal(heldEnd'.events)
           /\ state' \in RunStates
           /\ Completing' <=> Completing
           /\ state.cancellationStarted => state'.cancellationStarted
<1>1. "partial" \in Messages
  BY DEF Messages
<1>2. QED
  BY <1>1, Parts, EndedStates DEF HoldPartial, Completing

\* A cancellation begins, in a run that was asked to cancel.
LEMMA BeginCancelOK ==
    ASSUME TypeOK, BeginCancel
    PROVE  /\ cancel' \in RuntimeCancels /\ cancel'.batch = cancel.batch
           /\ state' \in RunStates /\ (Completing' <=> Completing)
           /\ state.cancellationStarted => state'.cancellationStarted
           /\ cancel'.pc \in {"assert", "flush"} => state'.cancellationStarted
<1> DEFINE partial == ~state.closed /\ ~state.messageCompleted /\ state.streamed
<1>1. /\ cancel' = [cancel EXCEPT !.pc = IF partial THEN "assert" ELSE "done"]
      /\ state' = IF partial THEN [state EXCEPT !.cancellationStarted = TRUE]
                  ELSE cancelledState(state, FALSE)
  BY DEF BeginCancel
<1> HIDE DEF partial
<1>2. /\ cancel' \in RuntimeCancels /\ cancel'.batch = cancel.batch
      /\ cancel'.pc \in {"assert", "flush"} => partial
  BY <1>1, Parts DEF RuntimeCancels
<1>3. CASE partial
  <2>1. state' = [state EXCEPT !.cancellationStarted = TRUE]
    BY <1>1, <1>3
  <2>2. state' \in RunStates /\ state'.events = state.events /\ state'.cancellationStarted
    BY <2>1, Parts DEF RunStates
  <2>3. QED
    BY <1>2, <2>2 DEF Completing, Completes
<1>4. CASE ~partial
  BY <1>1, <1>2, <1>4, Parts, EndedStates DEF Completing
<1>5. QED
  BY <1>3, <1>4

\* While a cancellation is under way the invariant asks little of what it changes.
LEMMA CancelStepOK ==
    ASSUME IInv, StoredStep, UNCHANGED <<job, loop, consumer>>,
           row.status # "running", cancellation', cancellation' \in BOOLEAN,
           cancel' \in RuntimeCancels, NoTerminal(cancel'.batch.events),
           state' \in RunStates, Completing' <=> Completing,
           heldEnd' \in RunWrite \cup {Null}, heldEnd' # Null => NoTerminal(heldEnd'.events),
           stopCause' \in {"none", "lease_lost", "worker_stopping", "idle"}, aborted' \in BOOLEAN
    PROVE  IInv'
<1> USE DEF IInv
<1>1. row'.status # "running"
  BY StoredStepKeepsLog
<1>2. BatchesOK'
  BY BatchesKept DEF BatchesOK
<1>3. CancellationOK'
  BY <1>1 DEF CancellationOK
<1>4. AnswersOK'
  BY AnswersOfNoRunning
<1>5. QED
  BY <1>2, <1>3, <1>4, Types, Assembled

\* runtime.cancel writes the partial message.
LEMMA RuntimeCancelOK == ASSUME IInv, RuntimeCancel PROVE IInv'
<1> USE DEF IInv
<1>1. cancel.pc \in {"assert", "flush"} /\ UNCHANGED <<job, loop, consumer>>
  BY DEF RuntimeCancel, CancelAsserts, CancelRefused, CancelFlushes
<1>2. row.status # "running" /\ cancellation
  BY <1>1 DEF CancellationOK
<1>3. CASE CancelAsserts /\ heldEnd # Null
  <2>1. /\ UNCHANGED stored /\ UNCHANGED signals /\ UNCHANGED state /\ heldEnd' = Null
        /\ cancel' = [pc |-> "flush", batch |-> heldEnd]
    BY <1>3 DEF CancelAsserts
  <2>2. cancel' \in RuntimeCancels /\ cancel'.batch = heldEnd
    BY <1>3, <2>1, Parts DEF RuntimeCancels
  <2>3. StoredStep /\ (Completing' <=> Completing)
    BY <2>1 DEF StoredStep, Completing
  <2>4. UNCHANGED <<stopCause, aborted, cancellation>>
    BY <2>1 DEF signals
  <2>5. NoTerminal(cancel'.batch.events)
    BY <1>3, <2>2 DEF BatchesOK
  <2>6. QED
    BY <1>1, <1>2, <2>1, <2>2, <2>3, <2>4, <2>5, Types, CancelStepOK
<1>4. CASE CancelAsserts /\ heldEnd = Null
  <2>1. /\ UNCHANGED stored /\ UNCHANGED signals /\ HoldPartial
        /\ cancel' = [cancel EXCEPT !.pc = "done"]
    BY <1>4 DEF CancelAsserts
  <2>2. cancel' \in RuntimeCancels /\ cancel'.batch = cancel.batch
    BY <2>1, Parts DEF RuntimeCancels
  <2>3. StoredStep
    BY <2>1 DEF StoredStep
  <2>4. UNCHANGED <<stopCause, aborted, cancellation>>
    BY <2>1 DEF signals
  <2>5. /\ heldEnd' \in RunWrite /\ heldEnd' # Null /\ NoTerminal(heldEnd'.events)
        /\ state' \in RunStates /\ (Completing' <=> Completing)
    BY <2>1, PartialHeld
  <2>6. NoTerminal(cancel'.batch.events)
    BY <2>2 DEF BatchesOK
  <2>7. QED
    BY <1>1, <1>2, <2>2, <2>3, <2>4, <2>5, <2>6, Types, CancelStepOK
<1>5. ASSUME NEW result, CancelThrows(result)
      PROVE  /\ stopCause' \in {"none", "lease_lost", "worker_stopping", "idle"}
             /\ aborted' \in BOOLEAN /\ UNCHANGED cancellation
  BY <1>5 DEF CancelThrows, StopFor, TypeOK
<1>6. CASE CancelRefused
  <2>1. /\ UNCHANGED stored /\ UNCHANGED state /\ UNCHANGED heldEnd
        /\ cancel' = [cancel EXCEPT !.pc = "done"]
    BY <1>6 DEF CancelRefused
  <2>2. PICK result \in Results : CancelThrows(result)
    BY <1>6 DEF CancelRefused
  <2>3. cancel' \in RuntimeCancels /\ cancel'.batch = cancel.batch
    BY <2>1, Parts DEF RuntimeCancels
  <2>4. StoredStep /\ (Completing' <=> Completing)
    BY <2>1 DEF StoredStep, Completing
  <2>5. NoTerminal(cancel'.batch.events) /\ (heldEnd' # Null => NoTerminal(heldEnd'.events))
    BY <2>1, <2>3 DEF BatchesOK
  <2>6. QED
    BY <1>1, <1>2, <1>5, <2>1, <2>2, <2>3, <2>4, <2>5, Types, CancelStepOK
<1>7. CASE CancelFlushes
  <2>1. cancel' = [pc |-> "done", batch |-> NoWrite]
    BY <1>7 DEF CancelFlushes
  <2>2. PICK result \in Results :
          /\ Write(cancel.batch, result)
          /\ IF result = "ok" THEN HoldPartial /\ UNCHANGED signals
             ELSE CancelThrows(result) /\ UNCHANGED <<heldEnd, state>>
    BY <1>7 DEF CancelFlushes
  <2>3. StoredStep
    BY <2>2, Parts, NoTerminalOneEnd, Written DEF BatchesOK
  <2>4. cancel' \in RuntimeCancels /\ NoTerminal(cancel'.batch.events)
    BY <2>1, Parts DEF RuntimeCancels
  <2>5. /\ heldEnd' \in RunWrite \cup {Null} /\ (heldEnd' # Null => NoTerminal(heldEnd'.events))
        /\ state' \in RunStates /\ (Completing' <=> Completing)
        /\ stopCause' \in {"none", "lease_lost", "worker_stopping", "idle"}
        /\ aborted' \in BOOLEAN /\ UNCHANGED cancellation
    <3>1. CASE result = "ok"
      <4>1. HoldPartial /\ UNCHANGED signals
        BY <2>2, <3>1
      <4>2. UNCHANGED <<stopCause, aborted, cancellation>>
        BY <4>1 DEF signals
      <4>3. QED
        BY <4>1, <4>2, PartialHeld, Types
    <3>2. CASE result # "ok"
      <4>1. CancelThrows(result) /\ UNCHANGED <<heldEnd, state>>
        BY <2>2, <3>2
      <4>2. Completing' <=> Completing
        BY <4>1 DEF Completing
      <4>3. QED
        BY <1>5, <4>1, <4>2, Types DEF BatchesOK
    <3>3. QED
      BY <3>1, <3>2
  <2>6. QED
    BY <1>1, <1>2, <2>3, <2>4, <2>5, Types, CancelStepOK
<1>8. QED
  BY <1>3, <1>4, <1>6, <1>7 DEF RuntimeCancel

\* The watcher starts it.
LEMMA WatchOK == ASSUME IInv, WatchForCancellation PROVE IInv'
<1> USE DEF IInv
<1>1. /\ row.status = "cancelling" /\ cancellation' = TRUE
      /\ UNCHANGED stored /\ UNCHANGED <<job, loop, consumer, heldEnd, stopCause, aborted>>
      /\ IF consumer.pc = "start"
         THEN cancel' = [cancel EXCEPT !.pc = "due"] /\ UNCHANGED state
         ELSE BeginCancel
  BY DEF WatchForCancellation
<1>2. /\ cancel' \in RuntimeCancels /\ cancel'.batch = cancel.batch
      /\ state' \in RunStates /\ (Completing' <=> Completing)
  <2>1. CASE consumer.pc = "start"
    BY <1>1, <2>1, Parts DEF RuntimeCancels, Completing
  <2>2. CASE consumer.pc # "start"
    BY <1>1, <2>2, BeginCancelOK
  <2>3. QED
    BY <2>1, <2>2
<1>3. StoredStep
  BY <1>1 DEF StoredStep
<1>4. NoTerminal(cancel'.batch.events) /\ (heldEnd' # Null => NoTerminal(heldEnd'.events))
  BY <1>1, <1>2 DEF BatchesOK
<1>5. QED
  BY <1>1, <1>2, <1>3, <1>4, Types, CancelStepOK

-----------------------------------------------------------------------------
(* What happens to the attempt. *)

\* The process goes on as it was: only the row, the job or the causes to stop changed.
LEMMA OutsideOK ==
    ASSUME IInv, StoredStep, UNCHANGED <<state, loop, cancel, consumer, heldEnd, cancellation>>,
           job' \in {"held", "gone"},
           stopCause' \in {"none", "lease_lost", "worker_stopping", "idle"}, aborted' \in BOOLEAN,
           UNCHANGED stored \/ row'.status \notin {"running", "completed"}
    PROVE  IInv'
<1> USE DEF IInv
<1>1. Completing' <=> Completing
  BY DEF Completing
<1>2. BatchesOK'
  BY <1>1, BatchesKept DEF BatchesOK
<1>3. CancellationOK'
  BY <1>1, StoredStepKeepsLog DEF CancellationOK
<1>4. AnswersOK'
  BY <1>1, AnswersKept, AnswersOfNoRunning
<1>5. QED
  BY <1>2, <1>3, <1>4, Types, Assembled

\* A job that is gone, a run that is failed as lost.
LEMMA AttemptOK ==
    ASSUME IInv,
           \/ RequestCancellation \/ LoseJob \/ HeartbeatFindsLoss \/ SettleJob \/ FailLostRun
           \/ StopExecution("worker_stopping") \/ StopExecution("idle")
    PROVE  IInv'
<1> USE DEF IInv
<1>1. CASE RequestCancellation
  <2>1. /\ row.status = "running" /\ row' = cancelRequested(row)
        /\ UNCHANGED <<log, answers, unended, job, state, loop, cancel, consumer, heldEnd>>
        /\ UNCHANGED signals
    BY <1>1 DEF RequestCancellation
  <2>2. row'.status = "cancelling"
    BY <2>1, Parts, OtherRows
  <2>3. StoredStep
    BY <2>1 DEF StoredStep
  <2>4. QED
    BY <2>1, <2>2, <2>3, Types, OutsideOK DEF signals
<1>2. ASSUME FailLost PROVE row'.status = "failed"
  BY <1>2, Parts, OtherRows DEF FailLost
<1>3. CASE SettleJob
  <2>1. job' = "gone" /\ UNCHANGED <<state, loop, cancel, consumer, heldEnd>> /\ UNCHANGED signals
    BY <1>3 DEF SettleJob
  <2>2. \/ consumer.pc = "thrown" /\ row.status \in STARTED_STATUSES /\ FailLost
        \/ UNCHANGED stored
    BY <1>3 DEF SettleJob
  <2>3. StoredStep
    BY <2>2 DEF StoredStep
  <2>4. QED
    BY <1>2, <2>1, <2>2, <2>3, Types, OutsideOK DEF signals
<1>4. CASE FailLostRun
  <2>1. /\ job = "gone" /\ row.status \in STARTED_STATUSES /\ FailLost
        /\ UNCHANGED <<job, state, loop, cancel, consumer, heldEnd>> /\ UNCHANGED signals
    BY <1>4 DEF FailLostRun
  <2>2. StoredStep
    BY <2>1 DEF StoredStep
  <2>3. QED
    BY <1>2, <2>1, <2>2, Types, OutsideOK DEF signals
<1>5. CASE LoseJob
  <2>1. job' = "gone" /\ UNCHANGED <<state, loop, cancel, consumer, heldEnd>>
        /\ UNCHANGED signals /\ UNCHANGED stored
    BY <1>5 DEF LoseJob
  <2>2. StoredStep
    BY <2>1 DEF StoredStep
  <2>3. QED
    BY <2>1, <2>2, Types, OutsideOK DEF signals
<1>6. ASSUME NEW cause \in {"lease_lost", "worker_stopping", "idle"}, StopFor(cause),
             UNCHANGED stored, UNCHANGED <<job, state, loop, cancel, consumer, heldEnd>>
      PROVE  IInv'
  <2>1. /\ stopCause' \in {"none", "lease_lost", "worker_stopping", "idle"}
        /\ aborted' \in BOOLEAN /\ cancellation' = cancellation
    BY <1>6 DEF StopFor, TypeOK
  <2>2. StoredStep
    BY <1>6 DEF StoredStep
  <2>3. QED
    BY <1>6, <2>1, <2>2, Types, OutsideOK
<1>7. CASE HeartbeatFindsLoss \/ StopExecution("worker_stopping") \/ StopExecution("idle")
  <2>1. UNCHANGED stored /\ UNCHANGED <<job, state, loop, cancel, consumer, heldEnd>>
    BY <1>7 DEF HeartbeatFindsLoss, StopExecution
  <2>2. StopFor("lease_lost") \/ StopFor("worker_stopping") \/ StopFor("idle")
    BY <1>7 DEF HeartbeatFindsLoss, StopExecution
  <2>3. QED
    BY <1>6, <2>1, <2>2
<1>8. QED
  BY <1>1, <1>3, <1>4, <1>5, <1>7

-----------------------------------------------------------------------------
(* The consumer. *)

\* The consumer moves on while the runtime and the job stay as they are.
LEMMA ConsumerMoves ==
    ASSUME IInv, StoredStep, UNCHANGED <<job, state, loop, cancel>>,
           consumer.pc # "start", consumer' \in Consumers,
           heldEnd' \in RunWrite \cup {Null}, heldEnd' # Null => heldEnd # Null,
           stopCause' \in {"none", "lease_lost", "worker_stopping", "idle"}, aborted' \in BOOLEAN,
           cancellation' \in BOOLEAN, cancellation => cancellation',
           cancellation' => cancellation \/ row.status # "running",
           BatchesOK', AnswersOK'
    PROVE  IInv'
<1> USE DEF IInv
<1>1. Completing' <=> Completing
  BY DEF Completing
<1>2. row'.status = "running" => row.status = "running"
  BY StoredStepKeepsLog
<1>3. CancellationOK'
  BY <1>1, <1>2 DEF CancellationOK
<1>4. QED
  BY <1>3, Types, Assembled

\* It writes nothing now, and has left the events or found the run over.
LEMMA ConsumerLeaves ==
    ASSUME IInv, UNCHANGED stored, UNCHANGED <<state, heldEnd>>,
           consumer'.pc \in {"reread", "closeRead", "closeHeld", "closeLast", "returned", "thrown"},
           consumer'.batch.message \in {Null, consumer.batch.message}
    PROVE  AnswersOK'
<1>1. UNCHANGED <<row, answers>> /\ (Completing' <=> Completing) /\ ~InLoop'
  BY DEF stored, Completing, InLoop
<1>2. CompletedHasAnswer'
  BY <1>1 DEF IInv, AnswersOK, CompletedHasAnswer
<1>3. AnswerOK'
  <2> SUFFICES ASSUME row'.status = "running", ~Completing'
               PROVE  heldEnd' = Null /\ answers' = <<>> /\ consumer'.batch.message = Null
    BY <1>1 DEF AnswerOK
  <2>1. heldEnd = Null /\ answers = <<>> /\ consumer.batch.message = Null
    BY <1>1 DEF IInv, AnswersOK, AnswerOK
  <2>2. QED
    BY <1>1, <2>1
<1>4. QED
  BY <1>2, <1>3 DEF AnswersOK

\* What it is about to write is as it should be when it does not write.
LEMMA NotWriting ==
    ASSUME IInv, UNCHANGED <<loop, cancel, heldEnd>>,
           consumer'.pc \notin {"start", "write", "reread", "rewrite"},
           consumer'.batch.message = Null
    PROVE  BatchesOK'
<1>1. ~Writing'
  BY DEF Writing
<1>2. QED
  BY <1>1 DEF IInv, BatchesOK

\* An error leads out of the events.
LEMMA Thrown ==
    ASSUME NEW c \in Consumers
    PROVE  /\ Catch(c) \in Consumers /\ Catch(c).pc \in {"thrown", "closeRead"}
           /\ Catch(c).batch = NoWrite
           /\ Throw(c) \in Consumers /\ Throw(c).pc \in {"thrown", "closeRead", "closeLast"}
           /\ Throw(c).batch = NoWrite
<1>1. NoWrite \in RunWrite
  BY DEF NoWrite, RunWrite
<1>2. /\ [c EXCEPT !.pc = "thrown", !.batch = NoWrite] \in Consumers
      /\ [c EXCEPT !.pc = "closeRead", !.caught = TRUE, !.batch = NoWrite] \in Consumers
      /\ [c EXCEPT !.pc = "closeLast", !.batch = NoWrite] \in Consumers
  BY <1>1 DEF Consumers
<1>3. /\ [c EXCEPT !.pc = "thrown", !.batch = NoWrite].pc = "thrown"
      /\ [c EXCEPT !.pc = "thrown", !.batch = NoWrite].batch = NoWrite
      /\ [c EXCEPT !.pc = "closeRead", !.caught = TRUE, !.batch = NoWrite].pc = "closeRead"
      /\ [c EXCEPT !.pc = "closeRead", !.caught = TRUE, !.batch = NoWrite].batch = NoWrite
      /\ [c EXCEPT !.pc = "closeLast", !.batch = NoWrite].pc = "closeLast"
      /\ [c EXCEPT !.pc = "closeLast", !.batch = NoWrite].batch = NoWrite
  BY DEF Consumers
<1>4. /\ Catch(c) \in Consumers /\ Catch(c).pc \in {"thrown", "closeRead"}
      /\ Catch(c).batch = NoWrite
  BY <1>2, <1>3 DEF Catch
<1>5. QED
  BY <1>2, <1>3, <1>4 DEF Throw

\* An event is held behind the answer, or is written with what is held.
LEMMA Appended ==
    ASSUME TypeOK, BatchesOK, NEW e \in Event, NEW at \in {"loop", "closeHeld", "closeLast"},
           NEW seen \in Nat, AppendEvent(e, at, seen)
    PROVE  /\ consumer' \in Consumers /\ heldEnd' \in RunWrite \cup {Null}
           /\ \/ /\ heldEnd # Null /\ e.type \notin TerminalEvents
                 /\ consumer'.pc = consumer.pc /\ consumer'.batch = NoWrite
                 /\ heldEnd' # Null /\ heldEnd'.message = heldEnd.message
                 /\ NoTerminal(heldEnd'.events)
              \/ /\ consumer'.pc = "write" /\ consumer'.at = at /\ heldEnd' = Null
                 /\ consumer'.batch.events # <<>> /\ Final(consumer'.batch.events) = e
                 /\ \A i \in DOMAIN consumer'.batch.events :
                       i # Len(consumer'.batch.events) =>
                          consumer'.batch.events[i].type \notin TerminalEvents
                 /\ heldEnd = Null => consumer'.batch.message = Null
                 /\ heldEnd # Null =>
                       /\ consumer'.batch.message = heldEnd.message
                       /\ e.type \in TerminalEvents \/ Len(consumer'.batch.events) > HeldMax
<1> DEFINE pushed == IF heldEnd = Null THEN [message |-> Null, events |-> <<e>>]
                     ELSE [heldEnd EXCEPT !.events = Append(@, e)]
           holds == /\ heldEnd # Null /\ e.type \notin TerminalEvents
                    /\ Len(pushed.events) <= HeldMax
<1>1. /\ consumer' = [consumer EXCEPT !.pc = IF holds THEN @ ELSE "write", !.at = at,
                                      !.seen = seen,
                                      !.batch = IF holds THEN NoWrite ELSE pushed]
      /\ heldEnd' = IF holds THEN pushed ELSE Null
  BY DEF AppendEvent
<1>2. /\ pushed \in RunWrite /\ pushed.events # <<>> /\ Final(pushed.events) = e
      /\ \A i \in DOMAIN pushed.events :
            i # Len(pushed.events) => pushed.events[i].type \notin TerminalEvents
      /\ heldEnd = Null => pushed.message = Null
      /\ heldEnd # Null => pushed.message = heldEnd.message
  <2>1. CASE heldEnd = Null
    <3>1. pushed = [message |-> Null, events |-> <<e>>]
      BY <2>1
    <3>2. /\ <<e>> \in Seq(Event) /\ Len(<<e>>) = 1 /\ DOMAIN <<e>> = {1} /\ <<e>>[1] = e
          /\ <<e>> # <<>>
      OBVIOUS
    <3>3. pushed \in RunWrite /\ pushed.events = <<e>> /\ pushed.message = Null
      BY <3>1, <3>2 DEF RunWrite
    <3> HIDE DEF pushed
    <3>4. QED
      BY <2>1, <3>2, <3>3 DEF Final
  <2>2. CASE heldEnd # Null
    <3>1. pushed = [heldEnd EXCEPT !.events = Append(@, e)]
      BY <2>2
    <3>2. heldEnd \in RunWrite /\ NoTerminal(heldEnd.events)
      BY <2>2, Parts DEF BatchesOK
    <3>3. /\ heldEnd.events \in Seq(Event) /\ heldEnd.message \in Messages \cup {Null}
          /\ Append(heldEnd.events, e) \in Seq(Event)
      BY <3>2 DEF RunWrite
    <3>4. pushed \in RunWrite /\ pushed.events = Append(heldEnd.events, e)
          /\ pushed.message = heldEnd.message
      <4> DEFINE more == Append(heldEnd.events, e)
      <4>1. more \in Seq(Event) /\ pushed = [heldEnd EXCEPT !.events = more]
        BY <3>1, <3>3
      <4> HIDE DEF more, pushed
      <4>2. pushed \in RunWrite /\ pushed.events = more /\ pushed.message = heldEnd.message
        BY <3>2, <4>1 DEF RunWrite
      <4>3. QED
        BY <4>2 DEF more
    <3> HIDE DEF pushed
    <3>5. /\ Len(heldEnd.events) \in Nat /\ DOMAIN heldEnd.events = 1..Len(heldEnd.events)
          /\ Len(pushed.events) = Len(heldEnd.events) + 1
          /\ DOMAIN pushed.events = 1..Len(pushed.events)
          /\ pushed.events[Len(pushed.events)] = e
          /\ \A i \in 1..Len(heldEnd.events) : pushed.events[i] = heldEnd.events[i]
      BY <3>3, <3>4
    <3>6. \A i \in DOMAIN pushed.events :
             i # Len(pushed.events) => i \in DOMAIN heldEnd.events
      BY <3>5
    <3>7. pushed.events # <<>>
      BY <3>5
    <3>8. QED
      BY <2>2, <3>2, <3>4, <3>5, <3>6, <3>7 DEF Final, NoTerminal
  <2>3. QED
    BY <2>1, <2>2
<1>3. pushed.events \in Seq(Event) /\ Len(pushed.events) \in Nat /\ pushed # Null
  <2> HIDE DEF pushed
  <2>1. pushed.events \in Seq(Event) /\ pushed # Null
    BY <1>2, RunExecutionConstants DEF RunWrite
  <2>2. QED
    BY <2>1
<1>4. holds <=> /\ heldEnd # Null /\ e.type \notin TerminalEvents
                /\ Len(pushed.events) <= HeldMax
  OBVIOUS
<1> HIDE DEF holds, pushed
<1>5. CASE holds
  <2>1. /\ consumer' = [consumer EXCEPT !.at = at, !.seen = seen, !.batch = NoWrite]
        /\ heldEnd' = pushed
    BY <1>1, <1>5, Parts DEF Consumers
  <2>2. /\ consumer' \in Consumers /\ consumer'.pc = consumer.pc /\ consumer'.batch = NoWrite
    BY <2>1, Parts DEF Consumers
  <2>3. NoTerminal(pushed.events)
    <3>1. pushed.events[Len(pushed.events)].type \notin TerminalEvents
      BY <1>2, <1>4, <1>5 DEF Final
    <3>2. QED
      BY <1>2, <3>1 DEF NoTerminal
  <2>4. QED
    BY <1>2, <1>3, <1>4, <1>5, <2>1, <2>2, <2>3
<1>6. CASE ~holds
  <2>1. /\ consumer' = [consumer EXCEPT !.pc = "write", !.at = at, !.seen = seen, !.batch = pushed]
        /\ heldEnd' = Null
    BY <1>1, <1>6
  <2>2. /\ consumer' \in Consumers /\ consumer'.pc = "write" /\ consumer'.at = at
        /\ consumer'.batch = pushed
    BY <1>2, <2>1, Parts DEF Consumers
  <2>3. heldEnd # Null => e.type \in TerminalEvents \/ Len(pushed.events) > HeldMax
    BY <1>3, <1>4, <1>6, RunExecutionConstants
  <2>4. QED
    BY <1>2, <2>1, <2>2, <2>3
<1>7. QED
  BY <1>5, <1>6

\* Where an appended event and what is held go.
LEMMA AppendOK ==
    ASSUME IInv, UNCHANGED stored, UNCHANGED <<job, state, loop, cancel>>, UNCHANGED signals,
           NEW e \in Event, NEW at \in {"loop", "closeHeld", "closeLast"}, NEW seen \in Nat,
           AppendEvent(e, at, seen), consumer.pc \in {"next", "closeHeld", "closeLast"},
           at = "loop" <=> consumer.pc = "next",
           at = "loop" \/ e.type \in TerminalEvents,
           e.type = "run_completed" => at = "loop" /\ Completing
    PROVE  IInv'
<1> USE DEF IInv
<1>1. /\ consumer' \in Consumers /\ heldEnd' \in RunWrite \cup {Null}
      /\ \/ /\ heldEnd # Null /\ e.type \notin TerminalEvents
            /\ consumer'.pc = consumer.pc /\ consumer'.batch = NoWrite
            /\ heldEnd' # Null /\ heldEnd'.message = heldEnd.message
            /\ NoTerminal(heldEnd'.events)
         \/ /\ consumer'.pc = "write" /\ consumer'.at = at /\ heldEnd' = Null
            /\ consumer'.batch.events # <<>> /\ Final(consumer'.batch.events) = e
            /\ \A i \in DOMAIN consumer'.batch.events :
                  i # Len(consumer'.batch.events) =>
                     consumer'.batch.events[i].type \notin TerminalEvents
            /\ heldEnd = Null => consumer'.batch.message = Null
            /\ heldEnd # Null =>
                  /\ consumer'.batch.message = heldEnd.message
                  /\ e.type \in TerminalEvents \/ Len(consumer'.batch.events) > HeldMax
  BY Appended
<1>2. /\ Completing' <=> Completing
      /\ UNCHANGED <<row, log, answers, unended, stopCause, aborted, cancellation>>
  BY DEF Completing, stored, signals
<1>3. consumer.batch.message = Null /\ NoWrite.message = Null
  BY Parts DEF BatchesOK, Writing
<1>4. CASE /\ heldEnd # Null /\ e.type \notin TerminalEvents
           /\ consumer'.pc = consumer.pc /\ consumer'.batch = NoWrite
           /\ heldEnd' # Null /\ heldEnd'.message = heldEnd.message
           /\ NoTerminal(heldEnd'.events)
  <2>1. consumer.pc = "next" /\ InLoop /\ InLoop' /\ ~Writing'
    BY <1>4 DEF InLoop, Writing
  <2>2. BatchesOK'
    BY <1>3, <1>4, <2>1 DEF BatchesOK
  <2>3. AnswersOK'
    <3>1. CompletedHasAnswer'
      BY <1>2 DEF AnswersOK, CompletedHasAnswer
    <3>2. AnswerOK'
      BY <1>2, <1>3, <1>4, <2>1 DEF AnswersOK, AnswerOK
    <3>3. QED
      BY <3>1, <3>2 DEF AnswersOK
  <2>4. QED
    BY <1>1, <1>2, <1>4, <2>1, <2>2, <2>3, Types, ConsumerMoves DEF StoredStep
<1>5. CASE /\ consumer'.pc = "write" /\ consumer'.at = at /\ heldEnd' = Null
           /\ consumer'.batch.events # <<>> /\ Final(consumer'.batch.events) = e
           /\ \A i \in DOMAIN consumer'.batch.events :
                 i # Len(consumer'.batch.events) =>
                    consumer'.batch.events[i].type \notin TerminalEvents
           /\ heldEnd = Null => consumer'.batch.message = Null
           /\ heldEnd # Null =>
                 /\ consumer'.batch.message = heldEnd.message
                 /\ e.type \in TerminalEvents \/ Len(consumer'.batch.events) > HeldMax
  <2>1. BatchesOK'
    BY <1>2, <1>5 DEF BatchesOK, Writing
  <2>2. AnswersOK'
    <3>1. CompletedHasAnswer'
      BY <1>2 DEF AnswersOK, CompletedHasAnswer
    <3>2. InLoop' => InLoop
      BY <1>5 DEF InLoop
    <3>3. Null # "answer"
      BY RunExecutionConstants DEF Messages
    <3>4. AnswerOK'
      <4> SUFFICES ASSUME row'.status = "running" PROVE AnswerOK'
        BY DEF AnswerOK
      <4>1. /\ ~Completing => heldEnd = Null /\ answers = <<>>
            /\ Completing /\ InLoop =>
                  \/ heldEnd # Null /\ heldEnd.message = "answer" /\ answers = <<>>
                  \/ heldEnd = Null /\ answers = <<"answer">>
        BY <1>2, <1>3, <3>3 DEF AnswersOK, AnswerOK
      <4>2. QED
        BY <1>2, <1>5, <3>2, <4>1 DEF AnswerOK
    <3>5. QED
      BY <3>1, <3>4 DEF AnswersOK
  <2>3. QED
    BY <1>1, <1>2, <1>5, <2>1, <2>2, Types, ConsumerMoves DEF StoredStep
<1>6. QED
  BY <1>1, <1>4, <1>5

\* The events that end a run, and those that go before an end.
LEMMA ClosingEvents ==
    ASSUME NEW n \in Nat
    PROVE  /\ closingEvent(n) \in Event /\ closingEvent(n).type \in TerminalEvents
           /\ closingEvent(n).type # "run_completed"
<1>1. /\ [type |-> "run_cancelled", sequence |-> n] \in Event
      /\ [type |-> "run_failed", sequence |-> n] \in Event
  BY DEF Event, EventTypes, TerminalEvents
<1>2. closingEvent(n) = [type |-> "run_cancelled", sequence |-> n]
      \/ closingEvent(n) = [type |-> "run_failed", sequence |-> n]
  BY DEF closingEvent
<1>3. QED
  BY <1>1, <1>2 DEF TerminalEvents

\* What the consumer does without waiting.
LEMMA ConsumerRunsOK == ASSUME IInv, ConsumerRuns PROVE IInv'
<1> USE DEF IInv
<1>1. CASE ConsumeEvent
  <2> DEFINE sequence == consumer.seen + 1
             type == state.events[sequence]
             e == IF type = "run_failed" /\ cancellation THEN closingEvent(sequence)
                  ELSE [type |-> type, sequence |-> sequence]
  <2>1. /\ UNCHANGED stored /\ UNCHANGED <<job, state, loop, cancel>> /\ UNCHANGED signals
        /\ consumer.pc = "next" /\ consumer.seen < Len(state.events)
        /\ AppendEvent(e, "loop", sequence)
    BY <1>1 DEF ConsumeEvent
  <2>2. sequence \in Nat /\ sequence \in DOMAIN state.events /\ type \in EventTypes
    <3>1. consumer.seen \in Nat /\ state.events \in Seq(EventTypes)
      BY Parts DEF RunStates
    <3>2. QED
      BY <2>1, <3>1
  <2>3. type = "run_completed" => Completing
    BY <2>2 DEF Completing, Completes
  <2> HIDE DEF type, sequence
  <2>4. e \in Event /\ (e.type = "run_completed" => Completing)
    <3>1. CASE type = "run_failed" /\ cancellation
      BY <2>2, <3>1, ClosingEvents
    <3>2. CASE ~(type = "run_failed" /\ cancellation)
      <4>1. e = [type |-> type, sequence |-> sequence]
        BY <3>2
      <4>2. QED
        BY <2>2, <2>3, <4>1 DEF Event
    <3>3. QED
      BY <3>1, <3>2
  <2> HIDE DEF e
  <2>5. QED
    BY <2>1, <2>2, <2>4, AppendOK
<1>2. CASE ConsumeAbort
  <2>1. /\ UNCHANGED stored /\ UNCHANGED <<job, state, loop, cancel>> /\ UNCHANGED signals
        /\ consumer.pc = "next"
        /\ IF stopCause = "lease_lost"
           THEN consumer' = [consumer EXCEPT !.pc = "thrown"] /\ UNCHANGED heldEnd
           ELSE AppendEvent(closingEvent(consumer.seen + 1), "loop", consumer.seen + 1)
    BY <1>2 DEF ConsumeAbort
  <2>2. CASE stopCause = "lease_lost"
    <3>1. /\ consumer' \in Consumers /\ consumer'.pc = "thrown"
          /\ consumer'.batch = consumer.batch /\ UNCHANGED heldEnd
      BY <2>1, <2>2, Parts DEF Consumers
    <3>2. consumer.batch.message = Null
      BY <2>1 DEF BatchesOK, Writing
    <3>3. BatchesOK'
      BY <2>1, <3>1, <3>2, NotWriting
    <3>4. AnswersOK'
      BY <2>1, <3>1, <3>2, ConsumerLeaves
    <3>5. QED
      BY <2>1, <3>1, <3>3, <3>4, Types, ConsumerMoves DEF StoredStep, signals
  <2>3. CASE stopCause # "lease_lost"
    <3>1. consumer.seen + 1 \in Nat
      BY Parts
    <3>2. QED
      BY <2>1, <2>3, <3>1, ClosingEvents, AppendOK
  <2>4. QED
    BY <2>2, <2>3
<1>3. CASE CloseAppends
  <2>1. /\ UNCHANGED stored /\ UNCHANGED <<job, state, loop, cancel>> /\ UNCHANGED signals
        /\ consumer.pc \in {"closeHeld", "closeLast"}
    BY <1>3 DEF CloseAppends
  <2>2. ASSUME NEW n \in Nat, NEW at \in {"closeHeld", "closeLast"},
               AppendEvent(closingEvent(n), at, consumer.seen)
        PROVE  IInv'
    BY <2>1, <2>2, Parts, ClosingEvents, AppendOK
  <2>3. consumer.latest + 1 \in Nat
    BY Parts
  <2>4. CASE consumer.pc = "closeHeld" /\ heldEnd # Null
    <3> DEFINE n == Len(heldEnd.events)
               lastHeld == IF n = 0 THEN consumer.latest ELSE heldEnd.events[n].sequence
    <3>1. AppendEvent(closingEvent(lastHeld + 1), "closeHeld", consumer.seen)
      BY <1>3, <2>4 DEF CloseAppends
    <3>2. lastHeld \in Nat
      <4>1. heldEnd.events \in Seq(Event)
        BY <2>4, Parts DEF RunWrite
      <4>2. n \in Nat /\ (n # 0 => heldEnd.events[n] \in Event)
        BY <4>1
      <4>3. QED
        BY <4>2, Parts DEF Event
    <3> HIDE DEF lastHeld
    <3>3. lastHeld + 1 \in Nat
      BY <3>2
    <3>4. QED
      BY <2>2, <3>1, <3>3
  <2>5. CASE ~(consumer.pc = "closeHeld" /\ heldEnd # Null)
    <3>1. AppendEvent(closingEvent(consumer.latest + 1), "closeLast", consumer.seen)
      BY <1>3, <2>5 DEF CloseAppends
    <3>2. QED
      BY <2>2, <2>3, <3>1
  <2>6. QED
    BY <2>4, <2>5
<1>4. QED
  BY <1>1, <1>2, <1>3 DEF ConsumerRuns

\* The write of the consumer: a completed run got its answer before or gets it now, and the answer
\* of a run that goes on stays in one place.
LEMMA AnswersWritten ==
    ASSUME IInv, consumer.pc \in {"write", "rewrite"}, UNCHANGED <<state, heldEnd>>,
           Accepts(consumer.batch), Store(consumer.batch),
           consumer'.pc # "write", consumer'.pc = "next" => consumer'.batch.message = Null,
           consumer'.batch.message \in {Null, consumer.batch.message},
           consumer'.pc # "start"
    PROVE  AnswersOK'
<1> USE DEF IInv
<1> DEFINE events == consumer.batch.events
           message == consumer.batch.message
<1>1. /\ events \in Seq(Event) /\ message \in Messages \cup {Null} /\ Len(events) \in Nat
      /\ row \in RunRow /\ row.lastSequence \in Nat
  BY Parts DEF RunWrite
<1>2. /\ events # <<>>
      /\ \A i \in DOMAIN events : i # Len(events) => events[i].type \notin TerminalEvents
      /\ message # Null => Final(events).type \in TerminalEvents \/ Len(events) > HeldMax
      /\ consumer.at # "loop" \/ consumer.pc # "write" => Final(events).type \in TerminalEvents
      /\ Final(events).type = "run_completed" =>
            consumer.at = "loop" /\ consumer.pc # "rewrite" /\ Completing
  BY DEF BatchesOK, Writing
<1>3. /\ row.status \in STARTED_STATUSES
      /\ row'.lastSequence = row.lastSequence + Len(events)
      /\ ~Ends(events) => row'.status = row.status
      /\ Ends(events) =>
            /\ row'.status = terminalStatus(Final(events).type)
            /\ row'.status \in ENDED_STATUSES
            /\ row.status = "cancelling" => Final(events).type = "run_cancelled"
  BY <1>1, InsertedRows DEF Accepts, Store
<1>4. answers' = IF message = Null THEN answers ELSE Append(answers, message)
  BY DEF Store
<1>5. StoredStep
  BY <1>2, Parts DEF StoredStep, OneEnd
<1>6. Completing' <=> Completing
  BY DEF Completing
<1>7. Append(<<>>, "answer") = <<"answer">> /\ Null # "answer" /\ <<"answer">> # <<>>
  BY RunExecutionConstants DEF Messages
<1> HIDE DEF events, message
<1>8. CASE row.status # "running" \/ row'.status \notin {"running", "completed"}
  BY <1>5, <1>8, AnswersOfNoRunning
<1>9. CASE row.status = "running" /\ row'.status = "completed"
  <2>1. Ends(events) /\ Final(events).type = "run_completed"
    <3>1. Ends(events) /\ row'.status = terminalStatus(Final(events).type)
      BY <1>3, <1>9
    <3>2. Final(events).type \in TerminalEvents
      BY <3>1 DEF Ends
    <3>3. QED
      BY <1>9, <3>1, <3>2 DEF TerminalEvents, terminalStatus
  <2>2. consumer.at = "loop" /\ consumer.pc = "write" /\ Completing /\ InLoop
    BY <1>2, <2>1 DEF InLoop
  <2>3. heldEnd = Null
    BY <1>9, <2>1, <2>2 DEF AnswersOK, AnswerOK, events
  <2>4. \/ answers = <<>> /\ message = "answer"
        \/ answers = <<"answer">> /\ message = Null
    BY <1>9, <2>2, <2>3 DEF AnswersOK, AnswerOK, message
  <2>5. answers' = <<"answer">>
    BY <1>4, <1>7, <2>4
  <2>6. QED
    BY <1>9, <2>5 DEF AnswersOK, AnswerOK, CompletedHasAnswer
<1>10. CASE row.status = "running" /\ row'.status = "running"
  <2>1. ~Ends(events)
    BY <1>3, <1>10 DEF ENDED_STATUSES
  <2>2. consumer.pc = "write" /\ consumer.at = "loop" /\ InLoop
    BY <1>2, <2>1 DEF Ends, InLoop
  <2>4. AnswerOK'
    <3>1. CASE ~Completing
      <4>1. heldEnd = Null /\ answers = <<>> /\ message = Null
        BY <1>10, <3>1 DEF AnswersOK, AnswerOK, message
      <4>2. heldEnd' = Null /\ answers' = <<>> /\ consumer'.batch.message = Null
        BY <1>4, <4>1 DEF message
      <4>3. QED
        BY <1>6, <3>1, <4>2 DEF AnswerOK
    <3>2. CASE Completing
      <4>1. \/ heldEnd # Null /\ heldEnd.message = "answer" /\ answers = <<>> /\ message = Null
            \/ heldEnd = Null /\ answers = <<>> /\ message = "answer"
            \/ heldEnd = Null /\ answers = <<"answer">> /\ message = Null
        BY <1>10, <2>2, <3>2 DEF AnswersOK, AnswerOK, message
      <4>2. InLoop' => consumer'.batch.message = Null
        BY DEF InLoop
      <4>3. \/ heldEnd' # Null /\ heldEnd'.message = "answer" /\ answers' = <<>>
            \/ heldEnd' = Null /\ answers' = <<"answer">>
        BY <1>4, <1>7, <4>1
      <4>4. QED
        BY <1>6, <3>2, <4>2, <4>3 DEF AnswerOK
    <3>3. QED
      BY <3>1, <3>2
  <2>5. CompletedHasAnswer'
    BY <1>10 DEF CompletedHasAnswer
  <2>6. QED
    BY <2>4, <2>5 DEF AnswersOK
<1>11. QED
  BY <1>8, <1>9, <1>10

\* A write of the consumer ends, and it goes where the result sends it.
LEMMA ConsumerWroteOK ==
    ASSUME IInv, consumer.pc \in {"write", "rewrite"},
           UNCHANGED <<job, state, loop, cancel, heldEnd>>,
           NEW result \in Results, Write(consumer.batch, result), Fenced(result),
           consumer' \in Consumers,
           consumer'.pc \in {"next", "reread", "closeRead", "closeLast", "returned", "thrown"},
           consumer'.pc = "next" => result = "ok",
           IF consumer'.pc = "reread"
           THEN /\ consumer' = [consumer EXCEPT !.pc = "reread"]
                /\ Final(consumer.batch.events).type \in TerminalEvents
                /\ consumer.pc = "write"
           ELSE consumer'.batch = NoWrite
    PROVE  IInv'
<1> USE DEF IInv
<1>1. /\ stopCause' \in {"none", "lease_lost", "worker_stopping", "idle"}
      /\ aborted' \in BOOLEAN /\ cancellation' = cancellation
  BY Signalled
<1>2. OneEnd(consumer.batch.events)
  BY DEF BatchesOK, Writing, OneEnd
<1>3. StoredStep
  BY <1>2, Parts, Written
<1>4. /\ consumer'.pc = "reread" => consumer'.batch = consumer.batch /\ consumer'.at = consumer.at
      /\ consumer'.batch.message \in {Null, consumer.batch.message}
      /\ consumer'.pc # "reread" => consumer'.batch.message = Null
  BY Parts DEF Consumers
<1>5. AnswersOK'
  <2>1. CASE Accepts(consumer.batch) /\ Store(consumer.batch)
    BY <1>4, <2>1, AnswersWritten
  <2>2. CASE UNCHANGED stored /\ result # "ok"
    BY <1>4, <2>2, ConsumerLeaves
  <2>3. QED
    BY <2>1, <2>2 DEF Write
<1>6. BatchesOK'
  <2>1. CASE consumer'.pc = "reread"
    <3>1. Completing' <=> Completing
      BY DEF Completing
    <3>2. Writing /\ Writing'
      BY <2>1 DEF Writing
    <3>3. consumer'.batch = consumer.batch /\ consumer'.at = consumer.at
      BY <1>4, <2>1
    <3>4. QED
      BY <2>1, <3>1, <3>2, <3>3 DEF BatchesOK
  <2>2. CASE consumer'.pc # "reread"
    BY <1>4, <2>2, NotWriting
  <2>3. QED
    BY <2>1, <2>2
<1>7. QED
  BY <1>1, <1>3, <1>5, <1>6, Types, ConsumerMoves

\* What the consumer writes, and writes again after a failure, keeps the invariant.
LEMMA ConsumerWritesOK == ASSUME IInv, ConsumerWrites \/ ConsumerRewrites PROVE IInv'
<1>1. TypeOK
  BY DEF IInv
<1>2. /\ \A pc \in {"next", "returned", "thrown"} :
            LET c == [consumer EXCEPT !.pc = pc, !.batch = NoWrite]
            IN  c \in Consumers /\ c.pc = pc /\ c.batch = NoWrite
      /\ [consumer EXCEPT !.pc = "reread"] \in Consumers
      /\ [consumer EXCEPT !.pc = "reread"].pc = "reread"
  BY <1>1, Parts DEF Consumers
<1>3. /\ Throw(consumer) \in Consumers /\ Throw(consumer).pc \in {"thrown", "closeRead", "closeLast"}
      /\ Throw(consumer).batch = NoWrite
  BY <1>1, Parts, Thrown
<1>4. CASE ConsumerWrites
  <2> DEFINE last == consumer.batch.events[Len(consumer.batch.events)]
  <2>1. consumer.pc = "write" /\ UNCHANGED <<job, state, loop, cancel, heldEnd>>
    BY <1>4 DEF ConsumerWrites
  <2>2. PICK result \in Results :
          /\ Write(consumer.batch, result) /\ Fenced(result)
          /\ consumer' =
                CASE result = "ok" ->
                        [consumer EXCEPT !.pc = IF last.type \in TerminalEvents
                                                THEN "returned" ELSE "next",
                                         !.batch = NoWrite]
                  [] result = "lost" -> [consumer EXCEPT !.pc = "thrown", !.batch = NoWrite]
                  [] result = "refused" ->
                        IF endsOrSuspendsRun(last) THEN [consumer EXCEPT !.pc = "reread"]
                        ELSE Throw(consumer)
    BY <1>4 DEF ConsumerWrites
  <2>3. last = Final(consumer.batch.events)
    BY DEF Final
  <2> HIDE DEF last
  <2>4. CASE result = "ok"
    <3>1. PICK pc \in {"returned", "next"} : consumer' = [consumer EXCEPT !.pc = pc, !.batch = NoWrite]
      BY <2>2, <2>4
    <3>2. QED
      BY <1>2, <2>1, <2>2, <2>4, <3>1, ConsumerWroteOK
  <2>5. CASE result = "lost"
    <3>1. consumer' = [consumer EXCEPT !.pc = "thrown", !.batch = NoWrite]
      BY <2>2, <2>5
    <3>2. QED
      BY <1>2, <2>1, <2>2, <3>1, ConsumerWroteOK
  <2>6. CASE result = "refused" /\ endsOrSuspendsRun(last)
    <3>1. consumer' = [consumer EXCEPT !.pc = "reread"]
      BY <2>2, <2>6
    <3>2. Final(consumer.batch.events).type \in TerminalEvents
      BY <2>3, <2>6 DEF endsOrSuspendsRun, TerminalEvents
    <3>3. QED
      BY <1>2, <2>1, <2>2, <3>1, <3>2, ConsumerWroteOK
  <2>7. CASE result = "refused" /\ ~endsOrSuspendsRun(last)
    <3>1. consumer' = Throw(consumer)
      BY <2>2, <2>7
    <3>2. QED
      BY <1>3, <2>1, <2>2, <3>1, ConsumerWroteOK
  <2>8. QED
    BY <2>4, <2>5, <2>6, <2>7 DEF Results
<1>5. CASE ConsumerRewrites
  <2>1. consumer.pc = "rewrite" /\ UNCHANGED <<job, state, loop, cancel, heldEnd>>
    BY <1>5 DEF ConsumerRewrites
  <2>2. PICK result \in Results :
          /\ Write(consumer.batch, result) /\ Fenced(result)
          /\ consumer' = CASE result = "ok" ->
                                 [consumer EXCEPT !.pc = "returned", !.batch = NoWrite]
                           [] result = "lost" ->
                                 [consumer EXCEPT !.pc = "thrown", !.batch = NoWrite]
                           [] result = "refused" -> Throw(consumer)
    BY <1>5 DEF ConsumerRewrites
  <2>3. /\ consumer' \in Consumers /\ consumer'.batch = NoWrite
        /\ consumer'.pc \in {"returned", "thrown", "closeRead", "closeLast"}
    <3>1. CASE result = "ok"
      BY <1>2, <2>2, <3>1
    <3>2. CASE result = "lost"
      BY <1>2, <2>2, <3>2
    <3>3. CASE result = "refused"
      BY <1>3, <2>2, <3>3
    <3>4. QED
      BY <3>1, <3>2, <3>3 DEF Results
  <2>4. QED
    BY <2>1, <2>2, <2>3, ConsumerWroteOK
<1>6. QED
  BY <1>4, <1>5

\* The execution begins, or fails before it does.
LEMMA ConsumerStartsOK == ASSUME IInv, StartExecution \/ StartFails PROVE IInv'
<1> USE DEF IInv
<1>1. /\ consumer.pc = "start" /\ loop.pc = "off" /\ consumer.batch.message = Null
      /\ UNCHANGED stored /\ UNCHANGED <<job, heldEnd>> /\ UNCHANGED signals
  BY DEF StartExecution, StartFails, BatchesOK, Writing
<1>2. StoredStep
  BY <1>1 DEF StoredStep
<1>3. ~Completing
  BY <1>1 DEF CancellationOK
<1>4. CASE StartExecution
  <2>1. /\ consumer' = [consumer EXCEPT !.pc = "next"] /\ loop' = [loop EXCEPT !.pc = "model"]
        /\ IF cancel.pc = "due" THEN BeginCancel ELSE UNCHANGED <<cancel, state>>
    BY <1>4 DEF StartExecution
  <2>2. /\ consumer' \in Consumers /\ consumer'.pc = "next" /\ consumer'.batch = consumer.batch
        /\ loop' \in Loops /\ loop'.pc = "model" /\ loop'.batch = loop.batch
    BY <2>1, Parts DEF Consumers, Loops
  <2>3. /\ cancel' \in RuntimeCancels /\ cancel'.batch = cancel.batch
        /\ state' \in RunStates /\ (Completing' <=> Completing)
    BY <2>1, Parts, BeginCancelOK DEF Completing
  <2>4. BatchesOK'
    BY <1>1, <2>2, <2>3 DEF BatchesOK, Writing
  <2>5. CancellationOK'
    <3>1. CASE cancel.pc = "due"
      BY <1>1, <1>3, <2>2, <2>3, <3>1 DEF CancellationOK, stored, signals
    <3>2. CASE cancel.pc # "due"
      BY <1>1, <1>3, <2>1, <2>2, <2>3, <3>2 DEF CancellationOK, stored, signals
    <3>3. QED
      BY <3>1, <3>2
  <2>6. AnswersOK'
    BY <1>1, <1>3, <2>2, <2>3
       DEF AnswersOK, AnswerOK, CompletedHasAnswer, stored
  <2>7. QED
    BY <1>1, <1>2, <2>2, <2>3, <2>4, <2>5, <2>6, Types, Assembled DEF signals
<1>5. CASE StartFails
  <2>1. consumer' = Catch(consumer) /\ UNCHANGED <<state, loop, cancel>>
    BY <1>5 DEF StartFails
  <2>2. /\ consumer' \in Consumers /\ consumer'.pc \in {"thrown", "closeRead"}
        /\ consumer'.batch.message = Null
    BY <2>1, Parts, Thrown
  <2>3. BatchesOK'
    BY <1>1, <2>1, <2>2, NotWriting
  <2>4. AnswersOK'
    BY <1>1, <2>1, <2>2, ConsumerLeaves
  <2>5. CancellationOK'
    BY <1>1, <2>1 DEF CancellationOK, Completing, stored, signals
  <2>6. QED
    BY <1>1, <1>2, <2>1, <2>2, <2>3, <2>4, <2>5, Types, Assembled DEF signals
<1>6. QED
  BY <1>4, <1>5

\* The write is repeated with the event that says cancelled.
LEMMA ConsumerRereadsOK == ASSUME IInv, ConsumerRereads PROVE IInv'
<1> USE DEF IInv
<1>1. /\ consumer.pc = "reread" /\ UNCHANGED stored
      /\ UNCHANGED <<job, state, loop, cancel, heldEnd, stopCause, aborted>>
  BY DEF ConsumerRereads
<1>2. StoredStep
  BY <1>1 DEF StoredStep
<1>3. CASE consumer' = Throw(consumer) /\ UNCHANGED cancellation
  <2>1. /\ consumer' \in Consumers /\ consumer'.pc \in {"thrown", "closeRead", "closeLast"}
        /\ consumer'.batch.message = Null
    BY <1>3, Parts, Thrown
  <2>2. BatchesOK'
    BY <1>1, <2>1, NotWriting
  <2>3. AnswersOK'
    BY <1>1, <2>1, ConsumerLeaves
  <2>4. QED
    BY <1>1, <1>2, <1>3, <2>1, <2>2, <2>3, Types, ConsumerMoves
<1>4. CASE /\ row.status = "cancelling" /\ cancellation' = TRUE
           /\ consumer' = [consumer EXCEPT !.pc = "rewrite",
                              !.batch.events[Len(consumer.batch.events)].type = "run_cancelled"]
  <2> DEFINE events == consumer.batch.events
             last == [events[Len(events)] EXCEPT !.type = "run_cancelled"]
             rewritten == [events EXCEPT ![Len(events)] = last]
             batch == [consumer.batch EXCEPT !.events = rewritten]
  <2>1. consumer' = [consumer EXCEPT !.pc = "rewrite", !.batch = batch]
    BY <1>4, Zenon
  <2>2. /\ events \in Seq(Event) /\ events # <<>>
        /\ \A i \in DOMAIN events : i # Len(events) => events[i].type \notin TerminalEvents
    BY <1>1, Parts DEF BatchesOK, Writing, RunWrite
  <2>3. /\ Len(events) \in Nat /\ Len(events) \in DOMAIN events
        /\ events[Len(events)] \in Event
    BY <2>2
  <2>4. last \in Event /\ last.type = "run_cancelled"
    BY <2>3 DEF Event, EventTypes, TerminalEvents
  <2> HIDE DEF last
  <2>5. /\ rewritten \in Seq(Event) /\ Len(rewritten) = Len(events)
        /\ DOMAIN rewritten = DOMAIN events /\ rewritten # <<>>
        /\ rewritten[Len(events)] = last
        /\ \A i \in DOMAIN events : i # Len(events) => rewritten[i] = events[i]
    BY <2>2, <2>3, <2>4, ExceptSeq
  <2> HIDE DEF rewritten, events
  <2>6. batch \in RunWrite /\ batch.events = rewritten
    BY <2>5, Parts DEF RunWrite
  <2> HIDE DEF batch
  <2>7. consumer' \in Consumers /\ consumer'.pc = "rewrite" /\ consumer'.batch = batch
    BY <2>1, <2>6, Parts DEF Consumers
  <2>8. /\ Final(consumer'.batch.events) = last /\ consumer'.batch.events # <<>>
        /\ \A i \in DOMAIN consumer'.batch.events :
              i # Len(consumer'.batch.events) =>
                 consumer'.batch.events[i].type \notin TerminalEvents
    BY <2>2, <2>5, <2>6, <2>7 DEF Final, events
  <2>9. BatchesOK'
    BY <1>1, <2>4, <2>7, <2>8 DEF BatchesOK, Writing, TerminalEvents
  <2>10. row.status # "running"
    BY <1>4
  <2>11. AnswersOK'
    BY <1>2, <2>10, AnswersOfNoRunning
  <2>12. QED
    BY <1>1, <1>2, <1>4, <2>7, <2>9, <2>10, <2>11, Types, ConsumerMoves
<1>5. QED
  BY <1>3, <1>4 DEF ConsumerRereads

\* closeRun finds the run over, or closes it.
LEMMA CloseReadsOK == ASSUME IInv, CloseReads PROVE IInv'
<1> USE DEF IInv
<1>1. /\ consumer.pc = "closeRead" /\ UNCHANGED stored
      /\ UNCHANGED <<job, state, loop, cancel, heldEnd, stopCause, aborted>>
  BY DEF CloseReads
<1>2. StoredStep /\ consumer.batch.message = Null
  BY <1>1 DEF StoredStep, BatchesOK, Writing
<1>3. cancellation' = cancellation
      \/ cancellation' = (cancellation \/ row.status = "cancelling")
  BY DEF CloseReads
<1>4. cancellation' \in BOOLEAN /\ (cancellation => cancellation')
      /\ (cancellation' => cancellation \/ row.status # "running")
  <2>1. cancellation \in BOOLEAN
    BY Types
  <2>2. CASE cancellation' = cancellation
    BY <2>1, <2>2
  <2>3. CASE cancellation' = (cancellation \/ row.status = "cancelling")
    <3>1. CASE row.status = "cancelling"
      <4>1. cancellation' = TRUE
        BY <2>3, <3>1, Zenon
      <4>2. QED
        BY <3>1, <4>1
    <3>2. CASE row.status # "cancelling"
      <4>1. (cancellation \/ row.status = "cancelling") = cancellation
        BY <2>1, <3>2
      <4>2. cancellation' = cancellation
        BY <2>3, <4>1
      <4>3. QED
        BY <2>1, <4>2
    <3>3. QED
      BY <3>1, <3>2
  <2>4. QED
    BY <1>3, <2>2, <2>3
<1>5. /\ consumer' \in Consumers
      /\ consumer'.pc \in {"closeRead", "closeHeld", "returned", "thrown"}
      /\ consumer'.batch.message = Null
  <2>1. \/ consumer' = [consumer EXCEPT !.pc = "returned"]
        \/ consumer' = [consumer EXCEPT !.pc = "closeHeld", !.latest = row.lastSequence]
        \/ consumer' = Catch(consumer)
    BY DEF CloseReads
  <2>2. /\ [consumer EXCEPT !.pc = "returned"] \in Consumers
        /\ [consumer EXCEPT !.pc = "returned"].pc = "returned"
        /\ [consumer EXCEPT !.pc = "returned"].batch = consumer.batch
        /\ [consumer EXCEPT !.pc = "closeHeld", !.latest = row.lastSequence] \in Consumers
        /\ [consumer EXCEPT !.pc = "closeHeld", !.latest = row.lastSequence].pc = "closeHeld"
        /\ [consumer EXCEPT !.pc = "closeHeld", !.latest = row.lastSequence].batch
              = consumer.batch
    BY Parts DEF Consumers
  <2>3. /\ Catch(consumer) \in Consumers /\ Catch(consumer).pc \in {"thrown", "closeRead"}
        /\ Catch(consumer).batch.message = Null
    BY Parts, Thrown
  <2>4. QED
    BY <1>2, <2>1, <2>2, <2>3
<1>6. BatchesOK'
  BY <1>1, <1>5, NotWriting
<1>7. AnswersOK'
  BY <1>1, <1>5, ConsumerLeaves
<1>8. QED
  BY <1>1, <1>2, <1>4, <1>5, <1>6, <1>7, Types, ConsumerMoves

-----------------------------------------------------------------------------
(* The invariant. *)

\* The attempt begins with a claimed run and nothing stored.
LEMMA InitOK == ASSUME Init PROVE IInv
<1>1. /\ row.status = "running" /\ row.lastSequence = 0 /\ row \in RunRow
  BY DEF Init, NoAgentRun, RunRow, AgentRunRow, RunStatus, RUN_IN_PROGRESS_STATUSES,
         STARTED_STATUSES
<1>2. /\ NoWrite \in RunWrite /\ NoWrite.message = Null /\ NoTerminal(NoWrite.events)
      /\ <<>> \in Seq(EventTypes) /\ <<>> \in Seq(Messages)
  BY DEF NoWrite, RunWrite, NoTerminal
<1>3. TypeOK
  <2>1. state \in RunStates /\ loop \in Loops /\ cancel \in RuntimeCancels /\ consumer \in Consumers
    BY <1>2 DEF Init, RunStates, Loops, RuntimeCancels, Consumers
  <2>2. QED
    BY <1>1, <1>2, <2>1, Types DEF Init
<1>4. LogOK
  <2>1. {e.sequence : e \in log} = {} /\ log = {}
    BY DEF Init
  <2>2. 1..row.lastSequence = {}
    BY <1>1
  <2>3. QED
    BY <1>1, <2>1, <2>2 DEF LogOK, STARTED_STATUSES, ENDED_STATUSES
<1>5. ~Completing
  BY DEF Init, Completing, Completes
<1>6. BatchesOK
  BY <1>2 DEF Init, BatchesOK, Writing
<1>7. CancellationOK
  BY <1>5 DEF Init, CancellationOK
<1>8. AnswersOK
  BY <1>1, <1>2, <1>5 DEF Init, AnswersOK, AnswerOK, CompletedHasAnswer
<1>9. QED
  BY <1>3, <1>4, <1>6, <1>7, <1>8 DEF IInv

\* Every step keeps it.
LEMMA StepOK == ASSUME IInv, [Next]_vars PROVE IInv'
<1>1. CASE TurnLoop
  BY <1>1, TurnLoopOK
<1>2. CASE RuntimeCancel
  BY <1>2, RuntimeCancelOK
<1>3. CASE ConsumerRuns
  BY <1>3, ConsumerRunsOK
<1>4. CASE ConsumerResumes
  BY <1>4, ConsumerStartsOK, ConsumerWritesOK, ConsumerRereadsOK, CloseReadsOK DEF ConsumerResumes
<1>5. CASE WatchForCancellation
  BY <1>5, WatchOK
<1>6. CASE \/ RequestCancellation \/ LoseJob \/ HeartbeatFindsLoss \/ SettleJob \/ FailLostRun
           \/ StopExecution("worker_stopping") \/ StopExecution("idle")
  BY <1>6, AttemptOK
<1>7. CASE UNCHANGED vars
  <2>1. /\ UNCHANGED <<job, state, loop, cancel, consumer, heldEnd, cancellation>>
        /\ UNCHANGED stored /\ UNCHANGED <<stopCause, aborted>>
    BY <1>7 DEF vars, stored
  <2>2. QED
    BY <2>1, Types, OutsideOK DEF IInv, StoredStep
<1>8. QED
  BY <1>1, <1>2, <1>3, <1>4, <1>5, <1>6, <1>7 DEF Next

\* The inductive invariant holds in every execution of an attempt.
THEOREM Invariance == Spec => []IInv
<1>1. Init => IInv
  BY InitOK
<1>2. IInv /\ [Next]_vars => IInv'
  BY StepOK
<1>3. QED
  BY <1>1, <1>2, PTL DEF Spec

\* Every variable keeps its type, whatever fails and in whatever order the coroutines run.
THEOREM TypeCorrect == Spec => []TypeOK
BY Invariance, PTL DEF IInv

\* As many events as numbers: to number them is a bijection.
LEMMA LogCounted ==
    ASSUME TypeOK, LogOK
    PROVE  Cardinality(log) = row.lastSequence
<1> DEFINE n == row.lastSequence
           f == [e \in log |-> e.sequence]
<1>1. n \in Nat /\ {e.sequence : e \in log} = 1..n
  BY Parts DEF LogOK
<1>2. f \in [log -> 1..n]
  BY <1>1
<1>3. f \in Bijection(log, 1..n)
  <2>1. \A d, e \in log : f[d] = f[e] => d = e
    BY DEF LogOK
  <2>2. \A k \in 1..n : \E e \in log : f[e] = k
    BY <1>1
  <2> HIDE DEF f
  <2>3. QED
    BY <1>2, <2>1, <2>2, Fun_IsBij
<1>4. ExistsBijection(1..n, log)
  BY <1>3, Fun_ExistsBijSymmetric DEF ExistsBijection
<1>5. QED
  BY <1>1, <1>4, FS_CountingElements

\* LogMatchesRow: the events of a run are stored without a gap and once each by three coroutines
\* that write at the same time, and the one that ends the run is the last and agrees with the row.
THEOREM LogIsTheRow == Spec => []LogMatchesRow
<1>1. IInv => LogMatchesRow
  BY LogCounted DEF IInv, LogOK, LogMatchesRow
<1>2. QED
  BY <1>1, Invariance, PTL

\* CompletedHasAnswer: until a run that nobody asked to cancel has ended, its answer is held, about
\* to be written or stored, and in one place only.
THEOREM AnswerStoredOnce == Spec => []CompletedHasAnswer
BY Invariance, PTL DEF IInv, AnswersOK

\* Who writes to the database.
LEMMA Writers ==
    ASSUME [Next]_vars
    PROVE  \/ UNCHANGED stored \/ LoopFlushes \/ CancelFlushes
           \/ ConsumerWrites \/ ConsumerRewrites
           \/ /\ row.status = "running" /\ row' = cancelRequested(row)
              /\ UNCHANGED <<log, answers, unended>>
           \/ /\ row.status \in STARTED_STATUSES /\ (job = "gone" \/ consumer.pc = "thrown")
              /\ FailLost
<1>1. TurnLoop => LoopFlushes \/ UNCHANGED stored
  BY DEF TurnLoop, LoopStreams, LoopReturns, LoopThrows, LoopAnswers, LoopCallsTools, LoopAsserts,
         LoopRefused, LoopToolWrites
<1>2. RuntimeCancel => CancelFlushes \/ UNCHANGED stored
  BY DEF RuntimeCancel, CancelAsserts, CancelRefused
<1>3. ConsumerRuns => UNCHANGED stored
  BY DEF ConsumerRuns, ConsumeEvent, ConsumeAbort, CloseAppends
<1>4. ConsumerResumes => ConsumerWrites \/ ConsumerRewrites \/ UNCHANGED stored
  BY DEF ConsumerResumes, StartExecution, StartFails, ConsumerRereads, CloseReads
<1>5. /\ WatchForCancellation \/ LoseJob \/ HeartbeatFindsLoss => UNCHANGED stored
      /\ StopExecution("worker_stopping") \/ StopExecution("idle") => UNCHANGED stored
      /\ UNCHANGED vars => UNCHANGED stored
  BY DEF WatchForCancellation, LoseJob, HeartbeatFindsLoss, StopExecution, vars, stored
<1>6. RequestCancellation =>
         row.status = "running" /\ row' = cancelRequested(row) /\ UNCHANGED <<log, answers, unended>>
  BY DEF RequestCancellation
<1>7. SettleJob \/ FailLostRun =>
         \/ UNCHANGED stored
         \/ /\ row.status \in STARTED_STATUSES /\ (job = "gone" \/ consumer.pc = "thrown")
            /\ FailLost
  BY DEF SettleJob, FailLostRun
<1>8. QED
  BY <1>1, <1>2, <1>3, <1>4, <1>5, <1>6, <1>7 DEF Next

\* Whatever a step does to the database is one of four things.
LEMMA StoredSteps == ASSUME IInv, [Next]_vars PROVE StoredStep
<1> USE DEF IInv
<1>1. CASE LoopFlushes
  <2>1. \E result \in Results : Write(loop.batch, result)
    BY <1>1 DEF LoopFlushes
  <2>2. QED
    BY <2>1, Parts, NoTerminalOneEnd, Written DEF BatchesOK
<1>2. CASE CancelFlushes
  <2>1. \E result \in Results : Write(cancel.batch, result)
    BY <1>2 DEF CancelFlushes
  <2>2. QED
    BY <2>1, Parts, NoTerminalOneEnd, Written DEF BatchesOK
<1>3. CASE ConsumerWrites \/ ConsumerRewrites
  <2>1. /\ consumer.pc \in {"write", "rewrite"}
        /\ \E result \in Results : Write(consumer.batch, result)
    BY <1>3 DEF ConsumerWrites, ConsumerRewrites
  <2>2. OneEnd(consumer.batch.events)
    BY <2>1 DEF BatchesOK, Writing, OneEnd
  <2>3. QED
    BY <2>1, <2>2, Parts, Written
<1>4. QED
  BY <1>1, <1>2, <1>3, Writers DEF StoredStep

\* NothingAfterLoss: no coroutine of an attempt whose job is gone stores anything, whatever it
\* chose to write before.
THEOREM LostAttemptIsFenced == Spec => NothingAfterLoss
<1> DEFINE Step == job = "gone" =>
                      /\ answers' = answers
                      /\ row' # row => row'.status \in {"failed", "cancelling"}
<1>1. ASSUME IInv, [Next]_vars PROVE Step
  <2> SUFFICES ASSUME job = "gone" PROVE Step
    OBVIOUS
  <2>1. StoredStep /\ TypeOK
    BY <1>1, StoredSteps DEF IInv
  <2>2. CASE UNCHANGED stored
    BY <2>2 DEF stored
  <2>3. CASE row.status = "running" /\ row' = cancelRequested(row) /\ UNCHANGED <<log, answers, unended>>
    BY <2>1, <2>3, Parts, OtherRows
  <2>4. CASE FailLost
    BY <2>1, <2>4, Parts, OtherRows DEF FailLost
  <2>5. ~ \E batch \in RunWrite : Accepts(batch)
    BY DEF Accepts, jobLeaseHeld
  <2>6. QED
    BY <2>1, <2>2, <2>3, <2>4, <2>5 DEF StoredStep
<1>2. QED
  BY <1>1, Invariance, PTL DEF Spec, NothingAfterLoss

\* CancelEndsCancelled: a run that was asked to cancel ends as cancelled and as nothing else,
\* unless its attempt is over and it is failed as lost.
THEOREM CancelledIsCancelled == Spec => CancelEndsCancelled
<1> DEFINE Step == row.status = "cancelling" =>
                      \/ row'.status \in {"cancelling", "cancelled"}
                      \/ row'.status = "failed" /\ (job = "gone" \/ consumer.pc = "thrown")
<1>1. ASSUME IInv, [Next]_vars PROVE Step
  <2> SUFFICES ASSUME row.status = "cancelling" PROVE Step
    OBVIOUS
  <2>1. StoredStep /\ TypeOK
    BY <1>1, StoredSteps DEF IInv
  <2>2. CASE UNCHANGED stored
    BY <2>2 DEF stored
  <2>3. CASE FailLost /\ (job = "gone" \/ consumer.pc = "thrown")
    BY <2>1, <2>3, Parts, OtherRows DEF FailLost
  <2>4. ASSUME NEW batch \in RunWrite, Accepts(batch), Store(batch) PROVE Step
    <3>1. batch.events \in Seq(Event) /\ insertable(row, Me, batch.events)
          /\ row' = insertedRun(row, batch.events)
      BY <2>4 DEF RunWrite, Accepts, Store
    <3>2. /\ ~Ends(batch.events) => row'.status = row.status
          /\ Ends(batch.events) =>
                /\ row'.status = terminalStatus(Final(batch.events).type)
                /\ Final(batch.events).type = "run_cancelled"
      BY <2>1, <3>1, Parts, InsertedRows
    <3>3. QED
      BY <3>2 DEF terminalStatus
  <2>5. QED
    BY <2>1, <2>2, <2>3, <2>4 DEF StoredStep
<1>2. QED
  BY <1>1, Invariance, PTL DEF Spec, CancelEndsCancelled

-----------------------------------------------------------------------------
(* The answer and the end of its run. *)

\* A message is held before the turn loop is done, and flushed, only once runtime.cancel began to
\* store the text streamed so far.
FlushOK ==
    /\ cancel.pc \in {"assert", "flush"} => state.cancellationStarted
    /\ loop.pc \in {"flush", "toolFlush"} => state.cancellationStarted
    /\ heldEnd # Null /\ loop.pc # "done" => state.cancellationStarted

EndInv == IInv /\ FlushOK /\ AnswerEndsRun

\* What runtime.cancel began stands.
LEMMA CancellationStands ==
    ASSUME IInv, [Next]_vars, state.cancellationStarted
    PROVE  state'.cancellationStarted
<1>1. TypeOK
  BY DEF IInv
<1>2. CASE UNCHANGED state
  BY <1>2
<1>3. ASSUME NEW text \in BOOLEAN, LoopStreams(text) PROVE state'.cancellationStarted
  <2>1. "progress" \in EventTypes
    BY DEF EventTypes
  <2>2. /\ emitted(state, "progress", FALSE) \in RunStates
        /\ emitted(state, "progress", FALSE).cancellationStarted
    BY <1>1, <2>1, Parts, EmittedState
  <2>3. PICK streamed : state' = [emitted(state, "progress", FALSE) EXCEPT !.streamed = streamed]
    BY <1>3 DEF LoopStreams
  <2>4. QED
    BY <2>2, <2>3 DEF RunStates
<1>4. CASE state' = failedState(state)
  BY <1>1, <1>4, Parts, EndedStates
<1>5. CASE HoldAnswer
  BY <1>1, <1>5, AnswerHeld
<1>6. CASE HoldPartial
  BY <1>1, <1>6, PartialHeld
<1>7. CASE BeginCancel
  BY <1>1, <1>7, BeginCancelOK
<1>8. CASE TurnLoop
  <2>1. \/ UNCHANGED state \/ \E text \in BOOLEAN : LoopStreams(text)
        \/ state' = failedState(state) \/ HoldAnswer
    BY <1>8 DEF TurnLoop, LoopReturns, LoopThrows, LoopAnswers, LoopCallsTools, LoopAsserts,
                LoopRefused, LoopFlushes, LoopToolWrites
  <2>2. QED
    BY <1>2, <1>3, <1>4, <1>5, <2>1
<1>9. CASE RuntimeCancel
  <2>1. UNCHANGED state \/ HoldPartial
    BY <1>9 DEF RuntimeCancel, CancelAsserts, CancelRefused, CancelFlushes
  <2>2. QED
    BY <1>2, <1>6, <2>1
<1>10. CASE StartExecution \/ WatchForCancellation
  <2>1. UNCHANGED state \/ BeginCancel
    BY <1>10 DEF StartExecution, WatchForCancellation
  <2>2. QED
    BY <1>2, <1>7, <2>1
<1>11. \/ TurnLoop \/ RuntimeCancel \/ StartExecution \/ WatchForCancellation \/ UNCHANGED state
  BY DEF Next, ConsumerRuns, ConsumeEvent, ConsumeAbort, CloseAppends, ConsumerResumes, StartFails,
         ConsumerWrites, ConsumerRereads, ConsumerRewrites, CloseReads, RequestCancellation,
         LoseJob, HeartbeatFindsLoss, SettleJob, FailLostRun, StopExecution, vars
<1>12. QED
  BY <1>2, <1>8, <1>9, <1>10, <1>11

\* The turn loop holds a message and is not done, or flushes one, beside runtime.cancel only.
LEMMA FlushKept == ASSUME IInv, FlushOK, [Next]_vars PROVE FlushOK'
<1>1. state.cancellationStarted => state'.cancellationStarted
  BY CancellationStands
<1>2. CASE state.cancellationStarted
  BY <1>1, <1>2 DEF FlushOK
<1>3. CASE TurnLoop /\ ~state.cancellationStarted
  <2>1. /\ UNCHANGED cancel /\ loop.pc \notin {"flush", "toolFlush"}
        /\ heldEnd # Null => loop.pc = "done"
    BY <1>3 DEF FlushOK, TurnLoop, LoopStreams, LoopReturns, LoopThrows, LoopAnswers,
                LoopCallsTools, LoopAsserts, LoopRefused, LoopFlushes, LoopToolWrites
  <2>2. /\ loop.pc # "done" => heldEnd = Null
        /\ loop \in Loops
    BY <2>1, Parts DEF IInv
  <2>3. CASE LoopAsserts
    <3>1. /\ heldEnd = Null
          /\ loop' = [loop EXCEPT !.pc = IF @ = "assert" THEN "done" ELSE "toolWrite"]
          /\ IF loop.pc = "assert" THEN HoldAnswer ELSE UNCHANGED <<heldEnd, state>>
      BY <2>2, <2>3 DEF LoopAsserts
    <3>2. loop'.pc = IF loop.pc = "assert" THEN "done" ELSE "toolWrite"
      BY <2>2, <3>1 DEF Loops
    <3>3. QED
      BY <1>1, <1>3, <2>1, <3>1, <3>2 DEF FlushOK
  <2>4. CASE ~LoopAsserts
    <3>1. loop.pc # "done" /\ UNCHANGED heldEnd
      BY <1>3, <2>1, <2>4
         DEF TurnLoop, LoopStreams, LoopReturns, LoopThrows, LoopAnswers, LoopCallsTools,
             LoopRefused, LoopFlushes, LoopToolWrites
    <3>2. loop'.pc \notin {"flush", "toolFlush"}
      BY <1>3, <2>1, <2>2, <2>4
         DEF TurnLoop, LoopStreams, LoopReturns, LoopThrows, LoopAnswers, LoopCallsTools,
             LoopRefused, LoopFlushes, LoopToolWrites, Loops
    <3>3. QED
      BY <1>3, <2>1, <2>2, <3>1, <3>2 DEF FlushOK
  <2>5. QED
    BY <2>3, <2>4
<1>4. ~RuntimeCancel \/ state.cancellationStarted
  BY DEF FlushOK, RuntimeCancel, CancelAsserts, CancelRefused, CancelFlushes
<1>5. CASE StartExecution \/ WatchForCancellation
  <2>1. cancel'.pc \in {"assert", "flush"} => state'.cancellationStarted
    <3>1. CASE BeginCancel
      BY <3>1, BeginCancelOK DEF IInv
    <3>2. CASE UNCHANGED <<cancel, state>>
      BY <3>2 DEF FlushOK
    <3>3. CASE cancel' = [cancel EXCEPT !.pc = "due"]
      BY <3>3, Parts DEF IInv, RuntimeCancels
    <3>4. QED
      BY <1>5, <3>1, <3>2, <3>3 DEF StartExecution, WatchForCancellation
  <2>2. CASE StartExecution
    <3>1. loop.pc = "off" /\ UNCHANGED heldEnd /\ loop' = [loop EXCEPT !.pc = "model"]
      BY <2>2 DEF StartExecution, IInv, BatchesOK
    <3>2. loop'.pc = "model"
      BY <3>1, Parts DEF IInv, Loops
    <3>3. QED
      BY <1>1, <2>1, <3>1, <3>2 DEF FlushOK
  <2>3. CASE WatchForCancellation
    BY <1>1, <2>1, <2>3 DEF FlushOK, WatchForCancellation
  <2>4. QED
    BY <1>5, <2>2, <2>3
<1>6. CASE ConsumerRuns
  <2>1. UNCHANGED <<state, loop, cancel>>
    BY <1>6 DEF ConsumerRuns, ConsumeEvent, ConsumeAbort, CloseAppends
  <2>2. heldEnd' # Null => heldEnd # Null
    BY <1>6 DEF ConsumerRuns, ConsumeEvent, ConsumeAbort, CloseAppends, AppendEvent
  <2>3. QED
    BY <2>1, <2>2 DEF FlushOK
<1>7. ASSUME ~(TurnLoop \/ RuntimeCancel \/ StartExecution \/ WatchForCancellation \/ ConsumerRuns)
      PROVE  UNCHANGED <<state, loop, cancel, heldEnd>>
  BY <1>7 DEF Next, ConsumerResumes, StartFails, ConsumerWrites, ConsumerRereads, ConsumerRewrites,
         CloseReads, RequestCancellation, LoseJob, HeartbeatFindsLoss, SettleJob, FailLostRun,
         StopExecution, vars
<1>8. ASSUME UNCHANGED <<state, loop, cancel, heldEnd>> PROVE FlushOK'
  BY <1>8 DEF FlushOK
<1>9. QED
  BY <1>2, <1>3, <1>4, <1>5, <1>6, <1>7, <1>8

\* A transaction that stores an answer ends the run, carries more than the limit, or is one of two
\* messages.
LEMMA AnswerStored ==
    ASSUME IInv, AnswerEndsRun, state.cancellationStarted => state'.cancellationStarted,
           NEW batch \in RunWrite, Accepts(batch), Store(batch),
           \/ batch.message = Null \/ Ends(batch.events) \/ Len(batch.events) > HeldMax
           \/ state'.cancellationStarted
    PROVE  AnswerEndsRun'
<1>1. /\ row.status \in STARTED_STATUSES
      /\ ~Ends(batch.events) => row'.status = row.status
      /\ Ends(batch.events) => row'.status \in ENDED_STATUSES
  <2>1. /\ batch.events \in Seq(Event) /\ insertable(row, Me, batch.events)
        /\ row' = insertedRun(row, batch.events)
    BY DEF RunWrite, Accepts, Store
  <2>2. QED
    BY <2>1, Parts, InsertedRows DEF IInv
<1>2. /\ endsRun(batch.events) <=> Ends(batch.events)
      /\ STARTED_STATUSES \cap ENDED_STATUSES = {}
  BY DEF endsRun, Ends, Final, STARTED_STATUSES, ENDED_STATUSES
<1>3. CASE batch.message = Null \/ Ends(batch.events)
  <2>1. unended' = unended
    BY <1>2, <1>3 DEF Store
  <2>2. answers' # <<>> /\ row'.status \in STARTED_STATUSES => unended' # {}
    BY <1>1, <1>2, <1>3, <2>1 DEF Store, AnswerEndsRun
  <2>3. QED
    BY <2>1, <2>2 DEF AnswerEndsRun
<1>4. CASE batch.message # Null /\ ~Ends(batch.events)
  <2>1. unended' = unended \cup {batch}
    BY <1>2, <1>4 DEF Store
  <2>2. QED
    BY <1>4, <2>1 DEF AnswerEndsRun
<1>5. QED
  BY <1>3, <1>4

\* Every step keeps it: the consumer stores what it held to the end or over the limit, and the
\* two others flush beside each other only.
LEMMA AnswerEndKept == ASSUME EndInv, [Next]_vars PROVE AnswerEndsRun'
<1> USE DEF EndInv
<1>1. state.cancellationStarted => state'.cancellationStarted
  BY CancellationStands
<1>2. CASE UNCHANGED stored
  BY <1>1, <1>2 DEF stored, AnswerEndsRun
<1>3. CASE \/ row.status = "running" /\ row' = cancelRequested(row)
              /\ UNCHANGED <<log, answers, unended>>
           \/ row.status \in STARTED_STATUSES /\ FailLost
  <2>1. row'.status \in STARTED_STATUSES => row.status \in STARTED_STATUSES
    BY <1>3 DEF STARTED_STATUSES
  <2>2. UNCHANGED <<answers, unended>>
    BY <1>3 DEF FailLost
  <2>3. QED
    BY <1>1, <2>1, <2>2 DEF AnswerEndsRun
<1>4. CASE LoopFlushes \/ CancelFlushes
  <2>1. PICK batch \in RunWrite, result \in Results : Write(batch, result)
    BY <1>4, Parts DEF IInv, LoopFlushes, CancelFlushes
  <2>2. state'.cancellationStarted
    BY <1>1, <1>4 DEF FlushOK, LoopFlushes, CancelFlushes
  <2>3. CASE Accepts(batch) /\ Store(batch)
    BY <2>2, <2>3, AnswerStored
  <2>4. QED
    BY <1>2, <2>1, <2>3 DEF Write
<1>5. CASE ConsumerWrites \/ ConsumerRewrites
  <2>1. /\ consumer.pc \in {"write", "rewrite"} /\ consumer.batch \in RunWrite
        /\ \E result \in Results : Write(consumer.batch, result)
    BY <1>5, Parts DEF IInv, ConsumerWrites, ConsumerRewrites
  <2>2. \/ consumer.batch.message = Null \/ Ends(consumer.batch.events)
        \/ Len(consumer.batch.events) > HeldMax
    BY <2>1 DEF IInv, BatchesOK, Writing, Ends
  <2>3. CASE Accepts(consumer.batch) /\ Store(consumer.batch)
    BY <1>1, <2>1, <2>2, <2>3, AnswerStored
  <2>4. QED
    BY <1>2, <2>1, <2>3 DEF Write
<1>6. \/ UNCHANGED stored \/ LoopFlushes \/ CancelFlushes \/ ConsumerWrites \/ ConsumerRewrites
      \/ row.status = "running" /\ row' = cancelRequested(row) /\ UNCHANGED <<log, answers, unended>>
      \/ row.status \in STARTED_STATUSES /\ FailLost
  BY Writers
<1>7. QED
  BY <1>2, <1>3, <1>4, <1>5, <1>6

\* AnswerEndsRun: the answer and the event that ends the run are stored by one transaction, however
\* the execution is interrupted, unless more was held behind the answer than the limit or
\* runtime.cancel began to store the text streamed so far; so no run is failed as lost with another.
THEOREM AnswerEndsItsRun == Spec => []AnswerEndsRun
<1>1. Init => EndInv
  <2>1. ASSUME Init PROVE FlushOK /\ AnswerEndsRun
    BY <2>1 DEF Init, FlushOK, AnswerEndsRun
  <2>2. QED
    BY <2>1, InitOK DEF EndInv
<1>2. EndInv /\ [Next]_vars => EndInv'
  BY StepOK, FlushKept, AnswerEndKept DEF EndInv
<1>3. EndInv => AnswerEndsRun
  BY DEF EndInv
<1>4. QED
  BY <1>1, <1>2, <1>3, PTL DEF Spec

=============================================================================
