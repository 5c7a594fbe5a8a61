--------------------------- MODULE SubjectDeletion ---------------------------
(***************************************************************************)
(* Deleting an account or a Shared Workspace, with the conversations, runs *)
(* and stored data that go with it: packages/chat-server/src               *)
(* subject-deletion.ts, account-deletion.ts, workspace-deletion.ts,        *)
(* user-deletion.ts, and, beside them, retention.ts and                    *)
(* conversation-cleanup.ts.  A deletion is accepted by a mark and carried  *)
(* out in passes, by the request that asked and by a job, while calls that *)
(* were let in before the mark still come through.                         *)
(***************************************************************************)
EXTENDS Naturals, FiniteSets

CONSTANTS
    Null,
    Users, Shared,      \* accounts and Shared Workspaces
    Deletable,          \* which of them are ever asked to be deleted
    Conversations,
    Calls,              \* calls of the API under way at once
    Asked               \* bound: whose request makes a pass beside those of the job

\* A user stands for their Personal Workspace too.
Places == Users \cup Shared

ASSUME SubjectDeletionConstants ==
    /\ Users \cap Shared = {}
    /\ Null \notin Places \cup {"user", "retention"} /\ {"user", "retention"} \cap Places = {}
    /\ Asked \subseteq Deletable /\ Deletable \subseteq Places

\* The request that asked makes one pass, the job makes them until the subject is gone.  Nothing
\* makes the pass of a request go on: it may stop anywhere, as when its process dies.
Passes == (Asked \X {"request"}) \cup (Deletable \X {"job"})

VARIABLES
    user,       \* product_users: active, marked for deletion, gone
    space,      \* collaboration_workspaces: open, marked, gone; of a personal one open or gone
    conv,       \* conversations, with the run in progress and whether data is stored
    call,       \* a call that was let in and has not committed
    pass,       \* where a pass is, and the conversations it has still to delete
    listed,     \* what retention has listed as expired
    late,       \* history: users a call of whom committed after their mark
    taken       \* history: conversations a move took from a user after their mark

vars == <<user, space, conv, call, pass, listed, late, taken>>

NoConversation == [status |-> "none", place |-> Null, private |-> FALSE, creator |-> Null,
                   data |-> FALSE, due |-> FALSE, run |-> Null, claim |-> Null]
ToBegin == [at |-> "list", todo |-> {}, current |-> Null, personal |-> FALSE]

With(status) == {c \in Conversations : conv[c].status = status}
In(place) == {c \in Conversations : conv[c].place = place}

Conversation ==
    [status: {"none", "active", "claimed", "removed"}, place: Places \cup {Null},
     private: BOOLEAN, creator: Users \cup {Null}, data: BOOLEAN, due: BOOLEAN,
     run: Users \cup {Null}, claim: {Null, "user", "retention"} \cup Deletable]
Call ==
    [by: Users, op: {"create", "start", "attach", "move", "delete"}, conv: Conversations,
     from: Places \cup {Null}, to: Places \cup {Null}, private: BOOLEAN]
Pass ==
    [at: {"list", "delete", "claim", "space", "runs", "left", "gone", "done"},
     todo: SUBSET Conversations, current: Conversations \cup {Null}, personal: BOOLEAN]

\* A conversation that is there is in a place that is there; what is not claimed was claimed by
\* nobody; and a run is in progress only in a conversation that has its rows.
TypeOK ==
    /\ user \in [Users -> {"active", "marked", "gone"}]
    /\ space \in [Places -> {"open", "marked", "gone"}]
    /\ \A u \in Users : space[u] # "marked"
    /\ conv \in [Conversations -> Conversation]
    /\ call \in [Calls -> Call \cup {Null}]
    /\ pass \in [Passes -> Pass]
    /\ listed \subseteq Conversations /\ late \subseteq Users /\ taken \subseteq Conversations
    /\ \A c \in Conversations :
          /\ conv[c].status = "active" => space[conv[c].place] # "gone"
          /\ conv[c].status \in {"claimed", "removed"} <=> conv[c].claim # Null
          /\ conv[c].run # Null => conv[c].status \in {"active", "claimed"}

Init ==
    /\ user = [u \in Users |-> "active"]
    /\ space = [p \in Places |-> "open"]
    /\ conv = [c \in Conversations |-> NoConversation]
    /\ call = [k \in Calls |-> Null]
    /\ pass = [p \in Passes |-> ToBegin]
    /\ listed = {}
    /\ late = {}
    /\ taken = {}

-----------------------------------------------------------------------------
\* Calls of users.  They are let in when the user is active, with access to what they name, and
\* commit at any later time.

\* requireConversationAccess: one's own personal workspace, and what is shared and not private.
Reads(u, c) ==
    /\ conv[c].status = "active"
    /\ conv[c].place = u \/ (conv[c].place \in Shared /\ space[conv[c].place] = "open"
                             /\ (conv[c].private => conv[c].creator = u))

\* requireMemberWorkspace.
MayUse(u, place) == space[place] = "open" /\ (place = u \/ place \in Shared)

LetIn(k, u, op, c, to, private) ==
    /\ call[k] = Null
    /\ user[u] = "active"
    /\ IF op = "create" THEN conv[c].status = "none" ELSE Reads(u, c)
    /\ IF op \in {"create", "move"}
       THEN /\ MayUse(u, to)
            /\ op = "move" => to # conv[c].place
            /\ private => to \in Shared /\ (op = "move" => conv[c].creator = u)
       ELSE to = Null /\ ~private
    \* assertConversationIdle.
    /\ op = "move" => conv[c].run = Null
    /\ call' = [call EXCEPT ![k] = [by |-> u, op |-> op, conv |-> c, from |-> conv[c].place,
                                    to |-> to, private |-> private]]
    /\ UNCHANGED <<user, space, conv, pass, listed, late, taken>>

\* prepareConversationRunStart: the message and its run, and a later date to expire.
started(row, u) == [row EXCEPT !.run = u, !.due = FALSE]

\* markLockedConversationDeleted.
claimed(row, by) == [row EXCEPT !.status = "claimed", !.claim = by]

\* What the statement of a call makes of the row, Null when its conditions do not hold.  A foreign
\* key keeps a conversation in a workspace that is there.
After(a) ==
    LET row == conv[a.conv]
    IN CASE a.op = "create" /\ row.status = "none" /\ space[a.to] # "gone" ->
               [NoConversation EXCEPT !.status = "active", !.place = a.to,
                                      !.private = a.private, !.creator = a.by]
         [] a.op = "start" /\ row.status = "active" /\ row.run = Null -> started(row, a.by)
         [] a.op = "attach" /\ row.status = "active" -> [row EXCEPT !.data = TRUE]
         [] a.op = "move" /\ row.status = "active" /\ row.place = a.from /\ space[a.to] # "gone" ->
               [row EXCEPT !.place = a.to, !.private = a.private]
         [] a.op = "delete" /\ row.status = "active" -> claimed(row, "user")
         [] OTHER -> Null

\* Whose a conversation is: a workspace's, or a user's when it is private or in their own.
Belongs(c, x) ==
    \/ conv[c].place = x
    \/ x \in Users /\ conv[c].private /\ conv[c].creator = x

\* It is of a user who asked to be deleted.
WasClosed(c) == \E u \in Users : user[u] # "active" /\ Belongs(c, u)

Commit(k) ==
    /\ call[k] # Null
    /\ LET a == call[k]
           done == After(a) # Null
       IN /\ conv' = IF done THEN [conv EXCEPT ![a.conv] = After(a)] ELSE conv
          /\ late' = IF done /\ user[a.by] # "active" THEN late \cup {a.by} ELSE late
          /\ taken' = IF done /\ a.op = "move" /\ WasClosed(a.conv)
                      THEN taken \cup {a.conv} ELSE taken
    /\ call' = [call EXCEPT ![k] = Null]
    /\ UNCHANGED <<user, space, pass, listed>>

-----------------------------------------------------------------------------
\* Runs.

\* requireNotInDeletion: the mark of the workspace, or of the creator of what is theirs alone.
InDeletion(c) ==
    \/ space[conv[c].place] = "marked"
    \/ (conv[c].private \/ conv[c].place \in Users) /\ user[conv[c].creator] = "marked"

\* createManagedArtifact for a run.
RunWrites(c) ==
    /\ conv[c].run # Null /\ conv[c].status = "active" /\ ~conv[c].data
    /\ ~InDeletion(c)
    /\ conv' = [conv EXCEPT ![c].data = TRUE]
    /\ UNCHANGED <<user, space, call, pass, listed, late, taken>>

\* It ends, or reads that its cancellation was requested, as AgentRun models.
RunEnds(c) ==
    /\ conv[c].run # Null
    /\ conv' = [conv EXCEPT ![c].run = Null]
    /\ UNCHANGED <<user, space, call, pass, listed, late, taken>>

-----------------------------------------------------------------------------
\* Retention.

BecomesDue(c) ==
    /\ conv[c].status = "active" /\ ~conv[c].due
    /\ conv' = [conv EXCEPT ![c].due = TRUE]
    /\ UNCHANGED <<user, space, call, pass, listed, late, taken>>

Expired(c) == conv[c].status = "active" /\ conv[c].due /\ conv[c].run = Null

ListExpired ==
    /\ listed = {} /\ listed' = {c \in Conversations : Expired(c)} /\ listed' # {}
    /\ UNCHANGED <<user, space, conv, call, pass, late, taken>>

\* Mutant: what was listed is expired.
expires_listed(c) == conv[c].status = "active"

\* expireConversation judges again under the lock of the row.
expires(c) == Expired(c)

ExpireConversation(c) ==
    /\ c \in listed
    /\ listed' = listed \ {c}
    /\ conv' = IF expires(c) THEN [conv EXCEPT ![c] = claimed(conv[c], "retention")] ELSE conv
    /\ UNCHANGED <<user, space, call, pass, late, taken>>

\* Data that is left of a claimed conversation.
Pending == {c \in With("claimed") : conv[c].data}

\* cleanUpConversationData, after a claim, and again by retention and by every pass of a deletion
\* until it succeeds.
CleanUp(c) ==
    /\ c \in Pending
    /\ conv' = [conv EXCEPT ![c].data = FALSE]
    /\ UNCHANGED <<user, space, call, pass, listed, late, taken>>

-----------------------------------------------------------------------------
\* Passes of a deletion.

\* acceptDeletion: the mark, with which the job is enqueued.  Then the request makes its pass.
Accept(x) ==
    /\ IF x \in Users
       THEN /\ user[x] = "active" /\ user' = [user EXCEPT ![x] = "marked"] /\ UNCHANGED space
       ELSE /\ space[x] = "open" /\ space' = [space EXCEPT ![x] = "marked"] /\ UNCHANGED user
    /\ UNCHANGED <<conv, call, pass, listed, late, taken>>

Marked(x) == IF x \in Users THEN user[x] = "marked" ELSE space[x] = "marked"
Gone(x) == IF x \in Users THEN user[x] = "gone" ELSE space[x] = "gone"

Goes(p, at) == pass' = [pass EXCEPT ![p].at = at]
\* What a pass throws ends it; the job tries again.
Ends(p) == pass' = [pass EXCEPT ![p] = [ToBegin EXCEPT !.at = IF p[2] = "job" THEN @ ELSE "done"]]

\* Mutant: the personal workspace is taken for there, though an earlier pass deleted it.
hasPersonal_always(x) == x \in Users

\* getPersonalWorkspace, of which an earlier pass may have left nothing.
hasPersonal(x) == x \in Users /\ space[x] # "gone"

\* cleanupProductUserData and completeWorkspaceDeletion list what there is to delete.
List(p) ==
    /\ pass[p].at = "list" /\ Marked(p[1])
    /\ LET x == p[1]
       IN pass' = [pass EXCEPT ![p] = [ToBegin EXCEPT !.at = "delete",
                       !.todo = {c \in With("active") : Belongs(c, x)},
                       !.personal = hasPersonal(x)]]
    /\ UNCHANGED <<user, space, conv, call, listed, late, taken>>

\* The next one.  A workspace reads again where it is and that nothing works in it.
Look(p) ==
    /\ pass[p].at = "delete"
    /\ IF pass[p].todo = {} THEN Goes(p, "space")
       ELSE \E c \in pass[p].todo :
               CASE p[1] \in Shared /\ (conv[c].status # "active" \/ conv[c].place # p[1]) ->
                       pass' = [pass EXCEPT ![p].todo = @ \ {c}]
                 [] p[1] \in Shared /\ conv[c].status = "active" /\ conv[c].place = p[1]
                        /\ conv[c].run # Null -> Ends(p)
                 [] OTHER -> pass' = [pass EXCEPT ![p].at = "claim", ![p].current = c,
                                                  ![p].todo = @ \ {c}]
    /\ UNCHANGED <<user, space, conv, call, listed, late, taken>>

\* Mutant: a workspace deletes what was in it when it looked.
deletes_looked(p, c) == conv[c].status = "active"

\* deleteConversation under the lock of the row; for a workspace, only while it is in it.
deletes(p, c) == conv[c].status = "active" /\ (p[1] \in Shared => conv[c].place = p[1])

DeleteConversation(p) ==
    /\ pass[p].at = "claim"
    /\ LET c == pass[p].current
       IN IF deletes(p, c)
          THEN conv' = [conv EXCEPT ![c] = claimed(conv[c], p[1])] /\ Goes(p, "delete")
          ELSE (IF p[1] \in Shared THEN Goes(p, "delete") ELSE Ends(p)) /\ UNCHANGED conv
    /\ UNCHANGED <<user, space, call, listed, late, taken>>

\* Mutant: conversations are removed although data of them is still stored.
removable_anyway(x) == space[x] # "gone" /\ In(x) \cap With("active") = {}

\* deleteWorkspace and deletePersonalWorkspaceForUser, under the lock of the workspace.
removable(x) == space[x] # "gone" /\ In(x) \cap With("active") = {} /\ In(x) \cap Pending = {}

\* The rows go, and with them those that lead to what is stored.
DeleteSpace(p) ==
    /\ pass[p].at = "space"
    /\ LET x == p[1]
       IN IF x \in Users /\ ~pass[p].personal
          THEN Goes(p, "runs") /\ UNCHANGED <<space, conv>>
          ELSE IF removable(x)
          THEN /\ space' = [space EXCEPT ![x] = "gone"]
               /\ conv' = [c \in Conversations |->
                              IF c \in In(x) \cap With("claimed")
                              THEN [conv[c] EXCEPT !.status = "removed", !.run = Null]
                              ELSE conv[c]]
               /\ IF x \in Users THEN Goes(p, "runs") ELSE Ends(p)
          ELSE Ends(p) /\ UNCHANGED <<space, conv>>
    /\ UNCHANGED <<user, call, listed, late, taken>>

\* Mutant: only the runs of the personal workspace are asked for.
runsEnded_ownOnly(u) == \A c \in In(u) : conv[c].run # u

\* requireRunsEnded.
runsEnded(u) == \A c \in Conversations : conv[c].run # u

RequireRunsEnded(p) ==
    /\ pass[p].at = "runs"
    /\ IF runsEnded(p[1]) THEN Goes(p, "left") ELSE Ends(p)
    /\ UNCHANGED <<user, space, conv, call, listed, late, taken>>

CountPendingCleanup(p) ==
    /\ pass[p].at = "left"
    /\ IF \A c \in Pending : conv[c].creator # p[1] THEN Goes(p, "gone") ELSE Ends(p)
    /\ UNCHANGED <<user, space, conv, call, listed, late, taken>>

DeleteUser(p) ==
    /\ pass[p].at = "gone"
    /\ user' = [user EXCEPT ![p[1]] = "gone"]
    /\ Ends(p)
    /\ UNCHANGED <<space, conv, call, listed, late, taken>>

PassSteps(p) ==
    \/ List(p) \/ Look(p) \/ DeleteConversation(p) \/ DeleteSpace(p)
    \/ RequireRunsEnded(p) \/ CountPendingCleanup(p) \/ DeleteUser(p)

-----------------------------------------------------------------------------
UserCall(k) ==
    \E u \in Users, c \in Conversations, private \in BOOLEAN :
        \/ \E to \in Places, op \in {"create", "move"} : LetIn(k, u, op, c, to, private)
        \/ \E op \in {"start", "attach", "delete"} : LetIn(k, u, op, c, Null, private)

Next ==
    \/ \E k \in Calls : UserCall(k) \/ Commit(k)
    \/ \E c \in Conversations :
          RunWrites(c) \/ RunEnds(c) \/ BecomesDue(c) \/ ExpireConversation(c) \/ CleanUp(c)
    \/ ListExpired
    \/ \E x \in Deletable : Accept(x)
    \/ \E p \in Passes : PassSteps(p)

Spec == Init /\ [][Next]_vars

\* A call that was let in answers; a run ends (AgentRun); retention, a scheduled job, retries what
\* it could not clean up; and the job of a deletion is tried again until the subject is gone.
Fairness ==
    /\ \A k \in Calls : WF_vars(Commit(k))
    /\ \A c \in Conversations : WF_vars(RunEnds(c)) /\ WF_vars(CleanUp(c))
    /\ \A x \in Deletable : WF_vars(PassSteps(<<x, "job">>))

FairSpec == Spec /\ Fairness

-----------------------------------------------------------------------------
\* The records that lead to stored data are removed only after the data: nothing stored is left
\* that nobody finds (requireNoPendingConversationCleanup).
RemovedHoldsNoData == TypeOK /\ \A c \in With("removed") : ~conv[c].data

\* What a deletion removed was its subject's when it was removed, wherever it was moved meanwhile,
\* unless a move took it from the account after the mark (deleteConversation).
ClaimedWasTheirs ==
    \A c \in Conversations : conv[c].claim \in Deletable =>
        Belongs(c, conv[c].claim) \/ c \in taken

\* Retention takes no conversation that a message kept, or that a run works in
\* (expireConversation).
ExpiredWasDue ==
    \A c \in Conversations : conv[c].claim = "retention" => conv[c].due /\ conv[c].run = Null

\* Nothing of a user outlives them: no personal workspace, no conversation only they could read,
\* nothing stored of one, no run; unless a call of theirs came through after the mark
\* (completeAccountDeletion).
GoneUserLeavesNothing ==
    \A u \in Users : user[u] = "gone" /\ u \notin late =>
        /\ space[u] = "gone"
        /\ \A c \in Conversations :
              /\ conv[c].run # u
              /\ Belongs(c, u) => conv[c].status # "active" /\ ~conv[c].data

\* What was accepted is finished, whatever passes die, runs work and data is slow to go
\* (acceptDeletion).
MarkedIsDeleted == \A x \in Deletable : Marked(x) ~> Gone(x)
=============================================================================
