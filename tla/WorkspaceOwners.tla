--------------------------- MODULE WorkspaceOwners ---------------------------
(***************************************************************************)
(* The owners of one Shared Workspace: role changes, removals and leaves   *)
(* (packages/chat-server/src/collaboration-workspace-workflow.ts) beside   *)
(* requests to delete an account (account-deletion.ts, user-deletion.ts).  *)
(* What can take the last active owner from the workspace takes the lock   *)
(* on its row first.                                                       *)
(***************************************************************************)
CONSTANTS
    Null,
    Users,
    First,      \* who created the workspace
    Requests    \* requests under way at once

Roles == {"none", "member", "admin", "owner"}

VARIABLES
    role,       \* collaboration_workspace_memberships.role
    user,       \* active, or marked for deletion
    lock,       \* the request whose transaction holds the row of the workspace
    req

vars == <<role, user, lock, req>>

Free == [at |-> "free", op |-> Null, who |-> Null, to |-> Null, lists |-> {}]

Init ==
    /\ role = [u \in Users |-> IF u = First THEN "owner" ELSE "none"]
    /\ user = [u \in Users |-> "active"]
    /\ lock = Null
    /\ req = [r \in Requests |-> Free]

Goes(r, at) == req' = [req EXCEPT ![r].at = at]
\* The end of the transaction, by its commit or by what it throws.
Ends(r) == req' = [req EXCEPT ![r] = Free] /\ lock' = IF lock = r THEN Null ELSE lock

-----------------------------------------------------------------------------
\* addMember, and approveAccessRequest: nobody becomes an owner by it, and it takes no lock.
AddMember(u) ==
    /\ role[u] = "none" /\ user[u] = "active"
    /\ \E a \in Users : role[a] \in {"owner", "admin"} /\ user[a] = "active"
    /\ role' = [role EXCEPT ![u] = "member"]
    /\ UNCHANGED <<user, lock, req>>

\* What an actor may do to a target (changeMemberRole, removeMember, leaveWorkspace): the checks
\* before the lock.  `to` is the new role, "none" when the membership is to end.
Permitted(a, u, to) ==
    /\ user[a] = "active" /\ role[u] # "none" /\ role[u] # to
    /\ \/ role[a] = "owner"
       \/ role[a] = "admin" /\ role[u] = "member" /\ to = "none"
       \/ a = u /\ to = "none"

ChangeBegins(r, a, u, to) ==
    /\ req[r] = Free
    /\ Permitted(a, u, to)
    /\ req' = [req EXCEPT ![r] = [Free EXCEPT !.at = "locking", !.op = "change",
                                              !.who = u, !.to = to]]
    /\ UNCHANGED <<role, user, lock>>

DeletionBegins(r, u) ==
    /\ req[r] = Free /\ user[u] = "active"
    /\ req' = [req EXCEPT ![r] = [Free EXCEPT !.at = "locking", !.op = "delete", !.who = u]]
    /\ UNCHANGED <<role, user, lock>>

\* lockWorkspacesForOwnerChange: the workspace that is named, or the one that the user owns when
\* this statement reads their memberships.
Lock(r) ==
    /\ req[r].at = "locking"
    /\ IF req[r].op = "delete" /\ role[req[r].who] # "owner"
       THEN UNCHANGED lock
       ELSE lock = Null /\ lock' = r
    /\ Goes(r, IF req[r].op = "delete" THEN "listing" ELSE "judging")
    /\ UNCHANGED <<role, user>>

ActiveUsers == {u \in Users : user[u] = "active"}
Owners == {u \in Users : role[u] = "owner"}

\* underOwnerLock: of the last active owner nothing is taken.
Judge(r) ==
    /\ req[r].at = "judging"
    /\ LET u == req[r].who
       IN IF role[u] = "owner" /\ (Owners \ {u}) \cap ActiveUsers = {}
          THEN Ends(r)
          ELSE Goes(r, "writing") /\ UNCHANGED lock
    /\ UNCHANGED <<role, user>>

\* updateMembershipRole, removeMembership; a membership that is gone is refused.
Change(r) ==
    /\ req[r].at = "writing" /\ req[r].op = "change"
    /\ role' = [role EXCEPT ![req[r].who] = IF @ = "none" THEN @ ELSE req[r].to]
    /\ Ends(r)
    /\ UNCHANGED user

-----------------------------------------------------------------------------
\* requireNoSoleOwnedSharedWorkspace, statement by statement: where the user is an owner now.
ListOwned(r) ==
    /\ req[r].at = "listing"
    /\ Goes(r, IF role[req[r].who] = "owner" THEN "users" ELSE "writing")
    /\ UNCHANGED <<role, user, lock>>

ListUsers(r) ==
    /\ req[r].at = "users"
    /\ req' = [req EXCEPT ![r].at = "owners", ![r].lists = ActiveUsers]
    /\ UNCHANGED <<role, user, lock>>

ListOwners(r) ==
    /\ req[r].at = "owners"
    /\ IF (Owners \ {req[r].who}) \cap req[r].lists = {}
       THEN Ends(r)
       ELSE Goes(r, "writing") /\ UNCHANGED lock
    /\ UNCHANGED <<role, user>>

\* markUserDeletionRequested and the commit.
Mark(r) ==
    /\ req[r].at = "writing" /\ req[r].op = "delete"
    /\ user' = [user EXCEPT ![req[r].who] = "marked"]
    /\ Ends(r)
    /\ UNCHANGED role

\* removeMembershipsForUser, in a pass of the deletion.
RemoveMemberships(u) ==
    /\ user[u] = "marked" /\ role[u] # "none"
    /\ role' = [role EXCEPT ![u] = "none"]
    /\ UNCHANGED <<user, lock, req>>

Next ==
    \/ \E u \in Users : AddMember(u) \/ RemoveMemberships(u)
    \/ \E r \in Requests :
          \/ \E a, u \in Users, to \in Roles : ChangeBegins(r, a, u, to)
          \/ \E u \in Users : DeletionBegins(r, u)
          \/ Lock(r) \/ Judge(r) \/ Change(r)
          \/ ListOwned(r) \/ ListUsers(r) \/ ListOwners(r) \/ Mark(r)

Spec == Init /\ [][Next]_vars

\* A Shared Workspace always has an active owner: whatever can take the last one decides under the
\* lock, so that two of them are judged one after the other (lockWorkspacesForOwnerChange).
HasActiveOwner == Owners \cap ActiveUsers # {}
=============================================================================
