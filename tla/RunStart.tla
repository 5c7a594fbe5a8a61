------------------------------ MODULE RunStart ------------------------------
(***************************************************************************)
(* Starting a run with an idempotency key: RunStartWorkflow of             *)
(* packages/chat-server/src/conversations/run-start-workflow.ts over the   *)
(* table run_start_commands.  A request is one call of the API; requests   *)
(* with one key are the retries and the double clicks of one caller, and   *)
(* any of them may hang, fail at any statement or die with its process,    *)
(* which is a request that takes no further step.                          *)
(* Every request makes its own run id, so a run is named by the request    *)
(* that accepted it, and a claim, an instant in the code, by the request   *)
(* that made it.                                                           *)
(***************************************************************************)
EXTENDS Naturals

CONSTANTS
    Null,
    Requests,      \* the calls
    Commands,      \* the idempotency keys of the callers, each with its command kind
    Creates,       \* the commands of kind create_conversation_run
    CommandOf,     \* [Requests -> Commands]
    Conversations, \* conversations that exist, for start_conversation_run
    DbFails        \* whether a statement may fail, before or after it took effect

ASSUME RunStartConstants ==
    /\ Null \notin Requests
    /\ Conversations \cap (Requests \cup {Null}) = {}
    /\ Creates \subseteq Commands
    /\ CommandOf \in [Requests -> Commands]
    /\ DbFails \in BOOLEAN

VARIABLES
    command,     \* run_start_commands
    accepted,    \* the runs that were accepted
    inProgress,  \* those that have not ended
    pc,          \* where each request is
    target,      \* the conversation a start names
    before,      \* reclaimPendingBefore of each request: the claim it may take over, if any
    answer       \* the run each request answered with

vars == <<command, accepted, inProgress, pc, target, before, answer>>
tables == <<command, accepted, inProgress>>
inputs == <<target, before>>

\* A row of run_start_commands; aged once the claim is IDEMPOTENCY_PENDING_RECLAIM_MS ago.
Command == [status: {"none", "pending", "completed"}, claimedAt: Requests \cup {Null},
            aged: BOOLEAN, run: Requests \cup {Null}]

NoCommand == [status |-> "none", claimedAt |-> Null, aged |-> FALSE, run |-> Null]

Places == {"new", "insert", "reclaim", "read", "prepare", "accept", "started", "complete",
           "release", "answered", "failed"}

\* Commands are typed, and a completed one names its run.
TypeOK ==
    /\ command \in [Commands -> Command]
    /\ \A c \in Commands : command[c].status = "completed" => command[c].run \in Requests
    /\ accepted \subseteq Requests
    /\ inProgress \subseteq accepted
    /\ pc \in [Requests -> Places]
    /\ target \in [Requests -> Conversations \cup {Null}]
    /\ before \in [Requests -> Requests \cup {Null}]
    /\ answer \in [Requests -> Requests \cup {Null}]

Init ==
    /\ command = [c \in Commands |-> NoCommand]
    /\ accepted = {} /\ inProgress = {}
    /\ pc = [r \in Requests |-> "new"]
    /\ target = [r \in Requests |-> Null]
    /\ before = [r \in Requests |-> Null]
    /\ answer = [r \in Requests |-> Null]

-----------------------------------------------------------------------------
RowOf(r) == command[CommandOf[r]]

Create(r) == CommandOf[r] \in Creates

\* A conversation a request creates is its own.
ConversationOf(r) == IF Create(r) THEN r ELSE target[r]

pendingCommand(r) == [status |-> "pending", claimedAt |-> r, aged |-> FALSE, run |-> Null]

completedCommand(r) == [status |-> "completed", claimedAt |-> r, aged |-> FALSE, run |-> r]

SetCommand(r, row) == command' = [command EXCEPT ![CommandOf[r]] = row]

Goto(r, place) == pc' = [pc EXCEPT ![r] = place]

\* runStartCommandPendingClaimWhere: the command still waits under this request's claim.
claimStands(r) == RowOf(r).status = "pending" /\ RowOf(r).claimedAt = r

-----------------------------------------------------------------------------
\* claimOrResolveRunStartCommand.  The claim is outside the try of the workflow: an error here
\* releases nothing.

\* The request comes in.  How old a claim must be to be taken over is fixed now, so only the claim
\* that stands now can be.
Begin(r, conversation) ==
    /\ pc[r] = "new"
    /\ target' = [target EXCEPT ![r] = conversation]
    /\ before' = [before EXCEPT ![r] = IF RowOf(r).status = "pending" /\ RowOf(r).aged
                                       THEN RowOf(r).claimedAt ELSE Null]
    /\ Goto(r, "insert")
    /\ UNCHANGED <<tables, answer>>

\* insert ... on conflict do nothing.
ClaimInserts(r) ==
    /\ pc[r] = "insert"
    /\ \/ /\ RowOf(r).status = "none"
          /\ SetCommand(r, pendingCommand(r))
          /\ Goto(r, "prepare") \/ (DbFails /\ Goto(r, "failed"))
       \/ /\ RowOf(r).status # "none"
          /\ Goto(r, "reclaim")
          /\ UNCHANGED command
       \/ /\ DbFails
          /\ Goto(r, "failed")
          /\ UNCHANGED command
    /\ UNCHANGED <<accepted, inProgress, inputs, answer>>

\* A pending command whose claim is old enough.
reclaimable(r) == RowOf(r).status = "pending" /\ RowOf(r).claimedAt = before[r]

ClaimReclaims(r) ==
    /\ pc[r] = "reclaim"
    /\ \/ /\ reclaimable(r)
          /\ SetCommand(r, pendingCommand(r))
          /\ Goto(r, "prepare") \/ (DbFails /\ Goto(r, "failed"))
       \/ /\ ~reclaimable(r)
          /\ Goto(r, "read")
          /\ UNCHANGED command
       \/ /\ DbFails
          /\ Goto(r, "failed")
          /\ UNCHANGED command
    /\ UNCHANGED <<accepted, inProgress, inputs, answer>>

\* getRunStartCommand, and the loop that waits.  A completed command answers with its run, unless
\* the run is in another conversation; a pending one is looked at again.  The request fails when
\* the row was released since the insert, the run is elsewhere or no longer the caller's to see,
\* the wait is over (also if the last look found the command completed) or a statement fails.
ClaimReads(r) ==
    /\ pc[r] = "read"
    /\ \/ /\ RowOf(r).status = "completed"
          /\ Create(r) \/ ConversationOf(RowOf(r).run) = target[r]
          /\ Goto(r, "answered")
          /\ answer' = [answer EXCEPT ![r] = RowOf(r).run]
       \/ /\ RowOf(r).status = "pending"
          /\ Goto(r, "insert")
          /\ UNCHANGED answer
       \/ /\ Goto(r, "failed")
          /\ UNCHANGED answer
    /\ UNCHANGED <<tables, inputs>>

-----------------------------------------------------------------------------
\* The try of the workflow: every error releases the claim.

\* The agent, the model and the attachments are checked, and create_conversation_run creates its
\* conversation.
Prepare(r) ==
    /\ pc[r] = "prepare"
    /\ Goto(r, "accept") \/ Goto(r, "release")
    /\ UNCHANGED <<tables, inputs, answer>>

\* What prepareConversationRunStart requires: no run in progress in the conversation, no run there
\* with the key (agent_runs_idempotency_idx) and, for a start, the claim.
acceptable(r) ==
    /\ \A q \in inProgress : ConversationOf(q) # ConversationOf(r)
    /\ ~Create(r) => /\ claimStands(r)
                     /\ \A q \in accepted : ~(/\ CommandOf[q] = CommandOf[r]
                                              /\ ConversationOf(q) = ConversationOf(r))

\* prepareConversationRunStart: the message, the run, its job and the completed command of a start
\* in one transaction.  A create passes no key on and completes its command later.
PrepareConversationRunStart(r) ==
    /\ pc[r] = "accept"
    /\ \/ /\ acceptable(r)
          /\ accepted' = accepted \cup {r}
          /\ inProgress' = inProgress \cup {r}
          /\ IF Create(r) THEN UNCHANGED command ELSE SetCommand(r, completedCommand(r))
          /\ Goto(r, "started") \/ (DbFails /\ Goto(r, "release"))
       \/ /\ ~acceptable(r) \/ DbFails
          /\ Goto(r, "release")
          /\ UNCHANGED <<command, accepted, inProgress>>
    /\ UNCHANGED <<inputs, answer>>

\* agentRuntime.start reads the run back and the audit event is recorded.
Started(r) ==
    /\ pc[r] = "started"
    /\ \/ Create(r) /\ Goto(r, "complete") /\ UNCHANGED answer
       \/ ~Create(r) /\ Goto(r, "answered") /\ answer' = [answer EXCEPT ![r] = r]
       \/ DbFails /\ Goto(r, "release") /\ UNCHANGED answer
    /\ UNCHANGED <<tables, inputs>>

\* Mutant: the command is completed whatever became of the claim.
CompleteRunStartCommand_unfenced(r) ==
    /\ pc[r] = "complete"
    /\ SetCommand(r, completedCommand(r))
    /\ Goto(r, "answered")
    /\ answer' = [answer EXCEPT ![r] = r]
    /\ UNCHANGED <<accepted, inProgress, inputs>>

\* completeRunStartCommand of a create, after its run was accepted.
CompleteRunStartCommand(r) ==
    /\ pc[r] = "complete"
    /\ \/ /\ claimStands(r)
          /\ SetCommand(r, completedCommand(r))
          /\ \/ Goto(r, "answered") /\ answer' = [answer EXCEPT ![r] = r]
             \/ DbFails /\ Goto(r, "release") /\ UNCHANGED answer
       \/ /\ ~claimStands(r) \/ DbFails
          /\ Goto(r, "release")
          /\ UNCHANGED <<command, answer>>
    /\ UNCHANGED <<accepted, inProgress, inputs>>

\* Mutant: the release does not ask whether the command was completed.
ReleaseRunStartCommand_completedToo(r) ==
    /\ pc[r] = "release"
    /\ IF RowOf(r).claimedAt = r THEN SetCommand(r, NoCommand) ELSE UNCHANGED command
    /\ Goto(r, "failed")
    /\ UNCHANGED <<accepted, inProgress, inputs, answer>>

\* releaseRunStartCommand deletes the command that still waits under this claim; then the error
\* is thrown.
ReleaseRunStartCommand(r) ==
    /\ pc[r] = "release"
    /\ \/ IF claimStands(r) THEN SetCommand(r, NoCommand) ELSE UNCHANGED command
       \/ DbFails /\ UNCHANGED command
    /\ Goto(r, "failed")
    /\ UNCHANGED <<accepted, inProgress, inputs, answer>>

-----------------------------------------------------------------------------
\* A pending claim comes of age, while its request may still be on its way.
ClockTick(c) ==
    /\ command[c].status = "pending" /\ ~command[c].aged
    /\ command' = [command EXCEPT ![c].aged = TRUE]
    /\ UNCHANGED <<accepted, inProgress, pc, inputs, answer>>

\* A run ends (AgentRun).
RunEnds(r) ==
    /\ r \in inProgress
    /\ inProgress' = inProgress \ {r}
    /\ UNCHANGED <<command, accepted, pc, inputs, answer>>

Request(r) ==
    \/ \E conversation \in IF Create(r) THEN {Null} ELSE Conversations : Begin(r, conversation)
    \/ ClaimInserts(r) \/ ClaimReclaims(r) \/ ClaimReads(r)
    \/ Prepare(r) \/ PrepareConversationRunStart(r) \/ Started(r)
    \/ CompleteRunStartCommand(r) \/ ReleaseRunStartCommand(r)
    \/ RunEnds(r)

Next == (\E c \in Commands : ClockTick(c)) \/ (\E r \in Requests : Request(r))

Spec == Init /\ [][Next]_vars

-----------------------------------------------------------------------------
\* A run that start_conversation_run accepted is the run its command names, whatever failed after
\* the acceptance and whoever took the command over before it: a retry with the key finds this
\* run, and there is no second one (startMessageRun, prepareConversationRunStart).
AcceptedIsRecorded ==
    \A r \in accepted : ~Create(r) => RowOf(r).status = "completed" /\ RowOf(r).run = r

\* Requests with one key that answer at all answer with one run, of either kind of command, also
\* when a hanging request comes back after another took its command over.
AnswersAgree ==
    \A r \in Requests : pc[r] = "answered" =>
        RowOf(r).status = "completed" /\ answer[r] = RowOf(r).run /\ answer[r] \in accepted

\* A completed command is never taken over, completed again or released.
CompletedIsFinal ==
    [][\A c \in Commands : command[c].status = "completed" => command'[c] = command[c]]_vars

\* To its callers all of it is one call that happens once under its key: what happened under a key
\* is the run its completed command names, which no later claim, release or completion replaces,
\* and every request that answers, however long it hung, answers with it.
result ==
    [c \in Commands |-> IF command[c].status = "completed" THEN command[c].run ELSE Null]

Call == INSTANCE IdempotentCall
            WITH Keys <- Commands, KeyOf <- CommandOf, Results <- Requests, told <- answer

ImplementsIdempotentCall == Call!Spec
=============================================================================
