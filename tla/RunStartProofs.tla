--------------------------- MODULE RunStartProofs ---------------------------
(***************************************************************************)
(* What RunStart promises, for any number of requests, keys and            *)
(* conversations.  The two safety properties are inductive together with   *)
(* the type invariant and three facts: requests past the acceptance have   *)
(* their run, a completed command names one, and only a create completes   *)
(* its command after the acceptance.                                       *)
(***************************************************************************)
EXTENDS RunStart, TLAPS

\* A request past the acceptance has its run.
OnItsWay == \A r \in Requests : pc[r] \in {"started", "complete"} => r \in accepted

\* A completed command names a run that was accepted.
NamesARun == \A c \in Commands : command[c].status = "completed" => command[c].run \in accepted

\* Only a create goes on to complete its command after the acceptance.
OnlyCreatesComplete == \A r \in Requests : pc[r] = "complete" => Create(r)

\* A request that has not answered has no answer yet.
NoAnswerYet == \A r \in Requests : pc[r] # "answered" => answer[r] = Null

IInv ==
    /\ TypeOK /\ AcceptedIsRecorded /\ AnswersAgree
    /\ OnItsWay /\ NamesARun /\ OnlyCreatesComplete /\ NoAnswerYet

USE RunStartConstants

\* The initial state satisfies the invariant: there are no rows, no runs and no answers.
LEMMA InitIInv == Init => IInv
BY DEF Init, IInv, TypeOK, Command, NoCommand, Places, AcceptedIsRecorded, AnswersAgree, OnItsWay,
       NamesARun, OnlyCreatesComplete, NoAnswerYet

\* The action of CompletedIsFinal.
CompletedStep == \A c \in Commands : command[c].status = "completed" => command'[c] = command[c]

\* The rows the steps write, as far as the proofs look at them.
LEMMA Rows ==
    /\ NoCommand \in Command /\ NoCommand.status = "none"
    /\ \A r \in Requests :
          /\ pendingCommand(r) \in Command /\ pendingCommand(r).status = "pending"
          /\ completedCommand(r) \in Command
          /\ completedCommand(r).status = "completed" /\ completedCommand(r).run = r
    /\ \A row \in Command :
          /\ [row EXCEPT !.aged = TRUE] \in Command
          /\ [row EXCEPT !.aged = TRUE].status = row.status
          /\ [row EXCEPT !.aged = TRUE].run = row.run
          /\ row.run \in Requests \cup {Null} /\ row.claimedAt \in Requests \cup {Null}
BY DEF NoCommand, pendingCommand, completedCommand, Command

\* Every step keeps the types.
LEMMA TypeStep == TypeOK /\ [Next]_vars => TypeOK'
<1> SUFFICES ASSUME TypeOK, [Next]_vars PROVE TypeOK'
  OBVIOUS
<1> USE Rows DEF TypeOK, RowOf, SetCommand, Goto, tables, inputs
<1> DEFINE
      CommandOK == /\ command' \in [Commands -> Command]
                   /\ \A c \in Commands : command'[c].status = "completed" =>
                                            command'[c].run \in Requests
      RestOK == /\ accepted' \subseteq Requests /\ inProgress' \subseteq accepted'
                /\ pc' \in [Requests -> Places]
                /\ target' \in [Requests -> Conversations \cup {Null}]
                /\ before' \in [Requests -> Requests \cup {Null}]
                /\ answer' \in [Requests -> Requests \cup {Null}]
<1>1. ASSUME NEW r \in Requests, NEW conversation \in Conversations \cup {Null},
             Begin(r, conversation)
      PROVE  TypeOK'
  <2>1. pc' \in [Requests -> Places]
    BY <1>1 DEF Begin, Places
  <2>2. before' \in [Requests -> Requests \cup {Null}]
    <3>1. RowOf(r).claimedAt \in Requests \cup {Null}
      OBVIOUS
    <3>2. QED
      BY <1>1, <3>1 DEF Begin
  <2>3. QED
    BY <1>1, <2>1, <2>2 DEF Begin
<1>2. ASSUME NEW r \in Requests, ClaimInserts(r) PROVE TypeOK'
  <2>1. CommandOK
    BY <1>2 DEF ClaimInserts
  <2>2. RestOK
    BY <1>2 DEF ClaimInserts, Places
  <2>3. QED
    BY <2>1, <2>2
<1>3. ASSUME NEW r \in Requests, ClaimReclaims(r) PROVE TypeOK'
  <2>1. CommandOK
    <3>1. CASE UNCHANGED command
      BY <3>1
    <3>2. CASE command' = [command EXCEPT ![CommandOf[r]] = pendingCommand(r)]
      BY <3>2
    <3>3. QED
      BY <1>3, <3>1, <3>2 DEF ClaimReclaims
  <2>2. RestOK
    BY <1>3 DEF ClaimReclaims, Places
  <2>3. QED
    BY <2>1, <2>2
<1>4. ASSUME NEW r \in Requests, ClaimReads(r) PROVE TypeOK'
  BY <1>4 DEF ClaimReads, Places
<1>5. ASSUME NEW r \in Requests, Prepare(r) PROVE TypeOK'
  BY <1>5 DEF Prepare, Places
<1>6. ASSUME NEW r \in Requests, PrepareConversationRunStart(r) PROVE TypeOK'
  <2>1. CommandOK
    BY <1>6 DEF PrepareConversationRunStart
  <2>2. RestOK
    BY <1>6 DEF PrepareConversationRunStart, Places
  <2>3. QED
    BY <2>1, <2>2
<1>7. ASSUME NEW r \in Requests, Started(r) PROVE TypeOK'
  BY <1>7 DEF Started, Places
<1>8. ASSUME NEW r \in Requests, CompleteRunStartCommand(r) PROVE TypeOK'
  <2>1. CommandOK
    BY <1>8 DEF CompleteRunStartCommand
  <2>2. RestOK
    <3>1. pc' \in [Requests -> Places]
      BY <1>8 DEF CompleteRunStartCommand, Places
    <3>2. answer' \in [Requests -> Requests \cup {Null}]
      BY <1>8 DEF CompleteRunStartCommand
    <3>3. QED
      BY <1>8, <3>1, <3>2 DEF CompleteRunStartCommand
  <2>3. QED
    BY <2>1, <2>2
<1>9. ASSUME NEW r \in Requests, ReleaseRunStartCommand(r) PROVE TypeOK'
  <2>1. CommandOK
    BY <1>9 DEF ReleaseRunStartCommand
  <2>2. RestOK
    BY <1>9 DEF ReleaseRunStartCommand, Places
  <2>3. QED
    BY <2>1, <2>2
<1>10. ASSUME NEW r \in Requests, RunEnds(r) PROVE TypeOK'
  BY <1>10 DEF RunEnds, Places
<1>11. ASSUME NEW c \in Commands, ClockTick(c) PROVE TypeOK'
  BY <1>11 DEF ClockTick
<1>12. ASSUME UNCHANGED vars PROVE TypeOK'
  BY <1>12 DEF vars
<1>13. QED
  BY <1>1, <1>2, <1>3, <1>4, <1>5, <1>6, <1>7, <1>8, <1>9, <1>10, <1>11, <1>12 DEF Next, Request

\* No step touches a completed command.
LEMMA CompletedStays == TypeOK /\ [Next]_vars => CompletedStep
<1> SUFFICES ASSUME TypeOK, [Next]_vars PROVE CompletedStep
  OBVIOUS
<1> USE DEF TypeOK, Command, RowOf, SetCommand, Goto, tables, inputs, CompletedStep
<1>1. ASSUME NEW r \in Requests, NEW conversation \in Conversations \cup {Null},
             Begin(r, conversation)
      PROVE  CompletedStep
  BY <1>1 DEF Begin
<1>2. ASSUME NEW r \in Requests, ClaimInserts(r) PROVE CompletedStep
  BY <1>2 DEF ClaimInserts, pendingCommand
<1>3. ASSUME NEW r \in Requests, ClaimReclaims(r) PROVE CompletedStep
  BY <1>3 DEF ClaimReclaims, reclaimable, pendingCommand
<1>4. ASSUME NEW r \in Requests, ClaimReads(r) PROVE CompletedStep
  BY <1>4 DEF ClaimReads
<1>5. ASSUME NEW r \in Requests, Prepare(r) PROVE CompletedStep
  BY <1>5 DEF Prepare
<1>6. ASSUME NEW r \in Requests, PrepareConversationRunStart(r) PROVE CompletedStep
  BY <1>6 DEF PrepareConversationRunStart, acceptable, claimStands, completedCommand
<1>7. ASSUME NEW r \in Requests, Started(r) PROVE CompletedStep
  BY <1>7 DEF Started
<1>8. ASSUME NEW r \in Requests, CompleteRunStartCommand(r) PROVE CompletedStep
  BY <1>8 DEF CompleteRunStartCommand, claimStands, completedCommand
<1>9. ASSUME NEW r \in Requests, ReleaseRunStartCommand(r) PROVE CompletedStep
  BY <1>9 DEF ReleaseRunStartCommand, claimStands, NoCommand
<1>10. ASSUME NEW r \in Requests, RunEnds(r) PROVE CompletedStep
  BY <1>10 DEF RunEnds
<1>11. ASSUME NEW c \in Commands, ClockTick(c) PROVE CompletedStep
  BY <1>11 DEF ClockTick
<1>12. ASSUME UNCHANGED vars PROVE CompletedStep
  BY <1>12 DEF vars
<1>13. QED
  BY <1>1, <1>2, <1>3, <1>4, <1>5, <1>6, <1>7, <1>8, <1>9, <1>10, <1>11, <1>12 DEF Next, Request

\* What a step does to the runs and to the requests past their acceptance.
AcceptStep ==
    /\ accepted \subseteq accepted'
    /\ \A r \in accepted' \ accepted : ~Create(r) => command'[CommandOf[r]] = completedCommand(r)
    /\ OnItsWay' /\ OnlyCreatesComplete'

\* A run of a start is accepted in the step that completes its command; an accepted run stays
\* accepted, and a request is past the acceptance only with its run.
LEMMA AcceptanceStep == TypeOK /\ OnItsWay /\ OnlyCreatesComplete /\ [Next]_vars => AcceptStep
<1> SUFFICES ASSUME TypeOK, OnItsWay, OnlyCreatesComplete, [Next]_vars PROVE AcceptStep
  OBVIOUS
<1> USE Rows DEF TypeOK, RowOf, SetCommand, Goto, Create, tables, inputs, AcceptStep, OnItsWay,
           OnlyCreatesComplete
<1>1. ASSUME NEW r \in Requests, NEW conversation \in Conversations \cup {Null},
             Begin(r, conversation)
      PROVE  AcceptStep
  BY <1>1 DEF Begin
<1>2. ASSUME NEW r \in Requests, ClaimInserts(r) PROVE AcceptStep
  BY <1>2 DEF ClaimInserts
<1>3. ASSUME NEW r \in Requests, ClaimReclaims(r) PROVE AcceptStep
  BY <1>3 DEF ClaimReclaims
<1>4. ASSUME NEW r \in Requests, ClaimReads(r) PROVE AcceptStep
  BY <1>4 DEF ClaimReads
<1>5. ASSUME NEW r \in Requests, Prepare(r) PROVE AcceptStep
  BY <1>5 DEF Prepare
<1>6. ASSUME NEW r \in Requests, PrepareConversationRunStart(r) PROVE AcceptStep
  BY <1>6 DEF PrepareConversationRunStart, acceptable, claimStands
<1>7. ASSUME NEW r \in Requests, Started(r) PROVE AcceptStep
  BY <1>7 DEF Started
<1>8. ASSUME NEW r \in Requests, CompleteRunStartCommand(r) PROVE AcceptStep
  BY <1>8 DEF CompleteRunStartCommand
<1>9. ASSUME NEW r \in Requests, ReleaseRunStartCommand(r) PROVE AcceptStep
  BY <1>9 DEF ReleaseRunStartCommand
<1>10. ASSUME NEW r \in Requests, RunEnds(r) PROVE AcceptStep
  BY <1>10 DEF RunEnds
<1>11. ASSUME NEW c \in Commands, ClockTick(c) PROVE AcceptStep
  BY <1>11 DEF ClockTick
<1>12. ASSUME UNCHANGED vars PROVE AcceptStep
  BY <1>12 DEF vars
<1>13. QED
  BY <1>1, <1>2, <1>3, <1>4, <1>5, <1>6, <1>7, <1>8, <1>9, <1>10, <1>11, <1>12 DEF Next, Request

\* A command is completed with a run that was accepted.
NamingStep ==
    \A c \in Commands : command'[c].status = "completed" =>
        command[c].status = "completed" \/ command'[c].run \in accepted'

\* A step completes a command with the run of a request that has been accepted.
LEMMA CompletionStep == TypeOK /\ OnItsWay /\ [Next]_vars => NamingStep
<1> SUFFICES ASSUME TypeOK, OnItsWay, [Next]_vars PROVE NamingStep
  OBVIOUS
<1> USE Rows DEF TypeOK, RowOf, SetCommand, Goto, tables, inputs, NamingStep, OnItsWay
<1>1. ASSUME NEW r \in Requests, NEW conversation \in Conversations \cup {Null},
             Begin(r, conversation)
      PROVE  NamingStep
  BY <1>1 DEF Begin
<1>2. ASSUME NEW r \in Requests, ClaimInserts(r) PROVE NamingStep
  BY <1>2 DEF ClaimInserts
<1>3. ASSUME NEW r \in Requests, ClaimReclaims(r) PROVE NamingStep
  BY <1>3 DEF ClaimReclaims
<1>4. ASSUME NEW r \in Requests, ClaimReads(r) PROVE NamingStep
  BY <1>4 DEF ClaimReads
<1>5. ASSUME NEW r \in Requests, Prepare(r) PROVE NamingStep
  BY <1>5 DEF Prepare
<1>6. ASSUME NEW r \in Requests, PrepareConversationRunStart(r) PROVE NamingStep
  BY <1>6 DEF PrepareConversationRunStart
<1>7. ASSUME NEW r \in Requests, Started(r) PROVE NamingStep
  BY <1>7 DEF Started
<1>8. ASSUME NEW r \in Requests, CompleteRunStartCommand(r) PROVE NamingStep
  BY <1>8 DEF CompleteRunStartCommand
<1>9. ASSUME NEW r \in Requests, ReleaseRunStartCommand(r) PROVE NamingStep
  BY <1>9 DEF ReleaseRunStartCommand
<1>10. ASSUME NEW r \in Requests, RunEnds(r) PROVE NamingStep
  BY <1>10 DEF RunEnds
<1>11. ASSUME NEW c \in Commands, ClockTick(c) PROVE NamingStep
  BY <1>11 DEF ClockTick
<1>12. ASSUME UNCHANGED vars PROVE NamingStep
  BY <1>12 DEF vars
<1>13. QED
  BY <1>1, <1>2, <1>3, <1>4, <1>5, <1>6, <1>7, <1>8, <1>9, <1>10, <1>11, <1>12 DEF Next, Request

\* A request answers once, with the run its command names.
AnsweringStep ==
    \A r \in Requests :
        IF pc'[r] = "answered"
        THEN \/ pc[r] = "answered" /\ answer'[r] = answer[r]
             \/ /\ command'[CommandOf[r]].status = "completed"
                /\ answer'[r] = command'[CommandOf[r]].run
        ELSE pc[r] # "answered" /\ answer'[r] = answer[r]

\* A step that answers does so with the run the command names.
LEMMA AnswerStep == TypeOK /\ AcceptedIsRecorded /\ OnItsWay /\ [Next]_vars => AnsweringStep
<1> SUFFICES ASSUME TypeOK, AcceptedIsRecorded, OnItsWay, [Next]_vars PROVE AnsweringStep
  OBVIOUS
<1> USE Rows DEF TypeOK, RowOf, SetCommand, Goto, Create, tables, inputs, AnsweringStep, OnItsWay,
           AcceptedIsRecorded
<1>1. ASSUME NEW r \in Requests, NEW conversation \in Conversations \cup {Null},
             Begin(r, conversation)
      PROVE  AnsweringStep
  BY <1>1 DEF Begin
<1>2. ASSUME NEW r \in Requests, ClaimInserts(r) PROVE AnsweringStep
  BY <1>2 DEF ClaimInserts
<1>3. ASSUME NEW r \in Requests, ClaimReclaims(r) PROVE AnsweringStep
  BY <1>3 DEF ClaimReclaims
<1>4. ASSUME NEW r \in Requests, ClaimReads(r) PROVE AnsweringStep
  BY <1>4 DEF ClaimReads
<1>5. ASSUME NEW r \in Requests, Prepare(r) PROVE AnsweringStep
  BY <1>5 DEF Prepare
<1>6. ASSUME NEW r \in Requests, PrepareConversationRunStart(r) PROVE AnsweringStep
  BY <1>6 DEF PrepareConversationRunStart
<1>7. ASSUME NEW r \in Requests, Started(r) PROVE AnsweringStep
  BY <1>7 DEF Started
<1>8. ASSUME NEW r \in Requests, CompleteRunStartCommand(r) PROVE AnsweringStep
  BY <1>8 DEF CompleteRunStartCommand
<1>9. ASSUME NEW r \in Requests, ReleaseRunStartCommand(r) PROVE AnsweringStep
  BY <1>9 DEF ReleaseRunStartCommand
<1>10. ASSUME NEW r \in Requests, RunEnds(r) PROVE AnsweringStep
  BY <1>10 DEF RunEnds
<1>11. ASSUME NEW c \in Commands, ClockTick(c) PROVE AnsweringStep
  BY <1>11 DEF ClockTick
<1>12. ASSUME UNCHANGED vars PROVE AnsweringStep
  BY <1>12 DEF vars
<1>13. QED
  BY <1>1, <1>2, <1>3, <1>4, <1>5, <1>6, <1>7, <1>8, <1>9, <1>10, <1>11, <1>12 DEF Next, Request

\* Every step preserves the invariant.
LEMMA NextIInv == IInv /\ [Next]_vars => IInv'
<1> SUFFICES ASSUME IInv, [Next]_vars PROVE IInv'
  OBVIOUS
<1>1. TypeOK' /\ CompletedStep /\ AcceptStep /\ NamingStep /\ AnsweringStep
  BY TypeStep, CompletedStays, AcceptanceStep, CompletionStep, AnswerStep DEF IInv
<1>2. AcceptedIsRecorded'
  <2> SUFFICES ASSUME NEW r \in accepted', ~Create(r)
               PROVE  command'[CommandOf[r]].status = "completed" /\ command'[CommandOf[r]].run = r
    BY DEF AcceptedIsRecorded, RowOf, Create
  <2>1. r \in Requests /\ CommandOf[r] \in Commands
    BY <1>1 DEF TypeOK
  <2>2. CASE r \in accepted
    BY <1>1, <2>1, <2>2 DEF IInv, AcceptedIsRecorded, RowOf, CompletedStep
  <2>3. CASE r \notin accepted
    BY <1>1, <2>1, <2>3, Rows DEF AcceptStep
  <2>4. QED
    BY <2>2, <2>3
<1>3. NamesARun'
  BY <1>1 DEF IInv, NamesARun, NamingStep, CompletedStep, AcceptStep
<1>4. AnswersAgree'
  <2> SUFFICES ASSUME NEW r \in Requests, pc'[r] = "answered"
               PROVE  /\ command'[CommandOf[r]].status = "completed"
                      /\ answer'[r] = command'[CommandOf[r]].run
                      /\ answer'[r] \in accepted'
    BY DEF AnswersAgree, RowOf
  <2>1. CommandOf[r] \in Commands
    OBVIOUS
  <2>2. /\ command'[CommandOf[r]].status = "completed"
        /\ answer'[r] = command'[CommandOf[r]].run
    BY <1>1, <2>1 DEF AnsweringStep, CompletedStep, IInv, AnswersAgree, RowOf
  <2>3. QED
    BY <1>3, <2>1, <2>2 DEF NamesARun
<1>5. NoAnswerYet'
  BY <1>1 DEF IInv, NoAnswerYet, AnsweringStep
<1>6. QED
  BY <1>1, <1>2, <1>3, <1>4, <1>5 DEF IInv, AcceptStep

\* The inductive invariant holds in every reachable state, for any requests, keys and failures.
THEOREM Invariance == Spec => []IInv
<1>1. QED
  BY InitIInv, NextIInv, PTL DEF Spec

\* The state of the run start stays well typed, and a completed command names a run.
THEOREM TypeCorrect == Spec => []TypeOK
<1>1. IInv => TypeOK
  BY DEF IInv
<1>2. QED
  BY <1>1, Invariance, PTL

\* A run accepted by start_conversation_run is the one its idempotency key names for ever after,
\* so that no key ever has two.
THEOREM OneRunPerKey == Spec => []AcceptedIsRecorded
<1>1. IInv => AcceptedIsRecorded
  BY DEF IInv
<1>2. QED
  BY <1>1, Invariance, PTL

\* All answers to one idempotency key name one accepted run, for both kinds of command.
THEOREM AnswersAreOne == Spec => []AnswersAgree
<1>1. IInv => AnswersAgree
  BY DEF IInv
<1>2. QED
  BY <1>1, Invariance, PTL

\* A completed command is final.
THEOREM CompletedCommandsAreFinal == Spec => CompletedIsFinal
<1>1. IInv /\ [Next]_vars => [CompletedStep]_vars
  BY CompletedStays DEF IInv
<1>2. QED
  BY <1>1, Invariance, PTL DEF Spec, CompletedIsFinal, CompletedStep

-----------------------------------------------------------------------------
\* RunStart implements IdempotentCall.

\* The step completes the command of r with its run, which is what happens under the key.
LEMMA CompletionHappens ==
    ASSUME TypeOK, NEW r \in Requests, SetCommand(r, completedCommand(r)),
           RowOf(r).status # "completed"
    PROVE  Call!Happens(CommandOf[r], r)
<1>1. CommandOf[r] \in Commands
  OBVIOUS
<1>2. result[CommandOf[r]] = Null
  BY <1>1 DEF result, RowOf
<1>3. \A c \in Commands : result'[c] = IF c = CommandOf[r] THEN r ELSE result[c]
  BY <1>1, Rows DEF result, SetCommand, TypeOK
<1>4. result' = [result EXCEPT ![CommandOf[r]] = r]
  BY <1>3 DEF result
<1>5. QED
  BY <1>2, <1>4 DEF Call!Happens

\* The step answers r with the run its completed command names.
LEMMA AnswerTells ==
    ASSUME TypeOK', NoAnswerYet, NEW r \in Requests, pc[r] # "answered",
           command'[CommandOf[r]].status = "completed",
           answer' = [answer EXCEPT ![r] = command'[CommandOf[r]].run]
    PROVE  Call!Tells(r)
<1>1. CommandOf[r] \in Commands
  OBVIOUS
<1>2. /\ result'[CommandOf[r]] = command'[CommandOf[r]].run
      /\ result'[CommandOf[r]] # Null
  BY <1>1 DEF result, TypeOK
<1>3. QED
  BY <1>1, <1>2 DEF Call!Tells, NoAnswerYet

\* A step that completes no command and answers no request is invisible to the callers.
LEMMA QuietStep ==
    ASSUME TypeOK, CompletedStep, UNCHANGED answer,
           \A c \in Commands : command'[c].status = "completed" => command[c].status = "completed"
    PROVE  UNCHANGED Call!vars
<1>1. \A c \in Commands : result'[c] = result[c]
  BY DEF result, CompletedStep
<1>2. UNCHANGED result
  BY <1>1 DEF result
<1>3. QED
  BY <1>2 DEF Call!vars

\* Every step of the run start is a step of the idempotent call or is invisible to the callers.
LEMMA CallStep == IInv /\ TypeOK' /\ [Next]_vars => [Call!Next]_(Call!vars)
<1> SUFFICES ASSUME IInv, TypeOK', [Next]_vars PROVE Call!Next \/ UNCHANGED Call!vars
  OBVIOUS
<1> DEFINE Completes == \A c \in Commands : command'[c].status = "completed" =>
                                                  command[c].status = "completed"
<1>0. TypeOK /\ CompletedStep
  BY CompletedStays DEF IInv
<1> USE Rows DEF RowOf, SetCommand, tables, inputs
<1>1. ASSUME NEW r \in Requests, NEW conversation \in Conversations \cup {Null},
             Begin(r, conversation)
      PROVE  UNCHANGED Call!vars
  BY <1>0, <1>1, QuietStep DEF Begin
<1>2. ASSUME NEW r \in Requests, ClaimInserts(r) PROVE UNCHANGED Call!vars
  <2>1. Completes /\ UNCHANGED answer
    BY <1>0, <1>2 DEF ClaimInserts, TypeOK
  <2>2. QED
    BY <1>0, <2>1, QuietStep
<1>3. ASSUME NEW r \in Requests, ClaimReclaims(r) PROVE UNCHANGED Call!vars
  <2>1. Completes /\ UNCHANGED answer
    BY <1>0, <1>3 DEF ClaimReclaims, TypeOK
  <2>2. QED
    BY <1>0, <2>1, QuietStep
<1>4. ASSUME NEW r \in Requests, ClaimReads(r) PROVE Call!Next \/ UNCHANGED Call!vars
  <2>1. UNCHANGED command /\ pc[r] = "read"
    BY <1>4 DEF ClaimReads
  <2>2. CASE UNCHANGED answer
    BY <1>0, <2>1, <2>2, QuietStep
  <2>3. CASE /\ RowOf(r).status = "completed"
             /\ answer' = [answer EXCEPT ![r] = RowOf(r).run]
    <3>1. Call!Tells(r)
      BY <2>1, <2>3, AnswerTells DEF IInv
    <3>2. UNCHANGED result
      BY <2>1 DEF result
    <3>3. QED
      BY <3>1, <3>2 DEF Call!Next
  <2>4. QED
    BY <1>4, <2>2, <2>3 DEF ClaimReads
<1>5. ASSUME NEW r \in Requests, Prepare(r) PROVE UNCHANGED Call!vars
  BY <1>0, <1>5, QuietStep DEF Prepare
<1>6. ASSUME NEW r \in Requests, PrepareConversationRunStart(r)
      PROVE  Call!Next \/ UNCHANGED Call!vars
  <2>1. UNCHANGED answer
    BY <1>6 DEF PrepareConversationRunStart
  <2>2. CASE UNCHANGED command
    BY <1>0, <2>1, <2>2, QuietStep
  <2>3. CASE acceptable(r) /\ ~Create(r) /\ SetCommand(r, completedCommand(r))
    <3>1. Call!Happens(CommandOf[r], r)
      BY <1>0, <2>3, CompletionHappens DEF acceptable, claimStands
    <3>2. QED
      BY <2>1, <3>1 DEF Call!Next
  <2>4. QED
    BY <1>6, <2>2, <2>3 DEF PrepareConversationRunStart
<1>7. ASSUME NEW r \in Requests, Started(r) PROVE Call!Next \/ UNCHANGED Call!vars
  <2>1. UNCHANGED command /\ pc[r] = "started"
    BY <1>7 DEF Started
  <2>2. CASE UNCHANGED answer
    BY <1>0, <2>1, <2>2, QuietStep
  <2>3. CASE ~Create(r) /\ answer' = [answer EXCEPT ![r] = r]
    <3>1. RowOf(r).status = "completed" /\ RowOf(r).run = r
      BY <2>1, <2>3 DEF IInv, OnItsWay, AcceptedIsRecorded
    <3>2. Call!Tells(r)
      BY <2>1, <2>3, <3>1, AnswerTells DEF IInv
    <3>3. UNCHANGED result
      BY <2>1 DEF result
    <3>4. QED
      BY <3>2, <3>3 DEF Call!Next
  <2>4. QED
    BY <1>7, <2>2, <2>3 DEF Started
<1>8. ASSUME NEW r \in Requests, CompleteRunStartCommand(r)
      PROVE  Call!Next \/ UNCHANGED Call!vars
  <2>1. pc[r] = "complete"
    BY <1>8 DEF CompleteRunStartCommand
  <2>2. CASE UNCHANGED <<command, answer>>
    BY <1>0, <2>2, QuietStep
  <2>3. CASE claimStands(r) /\ SetCommand(r, completedCommand(r))
    <3>1. Call!Happens(CommandOf[r], r)
      BY <1>0, <2>3, CompletionHappens DEF claimStands
    <3>2. CASE UNCHANGED answer
      BY <3>1, <3>2 DEF Call!Next
    <3>3. CASE answer' = [answer EXCEPT ![r] = r]
      <4>1. command'[CommandOf[r]].status = "completed" /\ command'[CommandOf[r]].run = r
        BY <1>0, <2>3 DEF TypeOK
      <4>2. Call!Tells(r)
        BY <2>1, <3>3, <4>1, AnswerTells DEF IInv
      <4>3. QED
        BY <3>1, <4>2 DEF Call!Next
    <3>4. QED
      BY <1>8, <2>3, <3>2, <3>3 DEF CompleteRunStartCommand
  <2>4. QED
    BY <1>8, <2>2, <2>3 DEF CompleteRunStartCommand
<1>9. ASSUME NEW r \in Requests, ReleaseRunStartCommand(r) PROVE UNCHANGED Call!vars
  <2>1. Completes /\ UNCHANGED answer
    BY <1>0, <1>9 DEF ReleaseRunStartCommand, TypeOK
  <2>2. QED
    BY <1>0, <2>1, QuietStep
<1>10. ASSUME NEW r \in Requests, RunEnds(r) PROVE UNCHANGED Call!vars
  BY <1>0, <1>10, QuietStep DEF RunEnds
<1>11. ASSUME NEW c \in Commands, ClockTick(c) PROVE UNCHANGED Call!vars
  <2>1. Completes /\ UNCHANGED answer
    BY <1>0, <1>11 DEF ClockTick, TypeOK
  <2>2. QED
    BY <1>0, <2>1, QuietStep
<1>12. ASSUME UNCHANGED vars PROVE UNCHANGED Call!vars
  BY <1>0, <1>12, QuietStep DEF vars
<1>13. QED
  BY <1>1, <1>2, <1>3, <1>4, <1>5, <1>6, <1>7, <1>8, <1>9, <1>10, <1>11, <1>12 DEF Next, Request

\* To its callers, whatever they retry and however long one of them hangs, a run start is one call
\* that happens once under its key and answers with what happened.
THEOREM RunStartIsIdempotent == Spec => ImplementsIdempotentCall
<1>1. Init => Call!Init
  BY DEF Init, Call!Init, result, NoCommand
<1>2. IInv /\ IInv' /\ [Next]_vars => [Call!Next]_(Call!vars)
  BY CallStep DEF IInv
<1>3. QED
  BY <1>1, <1>2, Invariance, PTL DEF Spec, ImplementsIdempotentCall, Call!Spec
=============================================================================
