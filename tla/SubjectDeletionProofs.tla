----------------------- MODULE SubjectDeletionProofs -----------------------
(***************************************************************************)
(* Proofs about SubjectDeletion, for every number of accounts, Shared      *)
(* Workspaces, conversations, calls and passes.                            *)
(***************************************************************************)
EXTENDS SubjectDeletion, TLAPS

Closed(x) == user[x] # "active"

-----------------------------------------------------------------------------
(* The inductive invariant. *)

\* What is said of a conversation whoever works on it: an id is free or names somebody's
\* conversation in a place; a place that is gone has none left but the removed; and the claims are
\* as the properties want them.
ConversationsOK ==
    \A c \in Conversations :
        /\ conv[c].status = "none" => conv[c] = NoConversation
        /\ conv[c].status # "none" => conv[c].place \in Places /\ conv[c].creator \in Users
        /\ \A x \in Places : space[x] = "gone" /\ conv[c].place = x => conv[c].status = "removed"
        /\ conv[c].status = "removed" => ~conv[c].data
        /\ conv[c].claim = "retention" => conv[c].due /\ conv[c].run = Null

\* A call was let in where its user may write: what it creates or moves is theirs or shared, and
\* what it makes private was created by them.
CallsOK ==
    \A k \in Calls : call[k] # Null =>
        /\ call[k].op \in {"create", "move"} =>
              call[k].to \in Places /\ (call[k].to = call[k].by \/ call[k].to \in Shared)
        /\ call[k].op = "move" =>
              /\ conv[call[k].conv].status # "none"
              /\ call[k].private => conv[call[k].conv].creator = call[k].by

\* The conversations a pass still has before it.
Ahead(p) == pass[p].todo \cup (IF pass[p].at = "claim" THEN {pass[p].current} ELSE {})

\* A pass works on a subject that is marked; what it has before it was its subject's and still is,
\* unless a move took it.
PassOK(p) ==
    /\ pass[p].at \notin {"list", "done"} /\ p[1] \in Users => Closed(p[1])
    /\ pass[p].at \in {"runs", "left", "gone"} => p[1] \in Users
    /\ pass[p].at \in {"delete", "claim"} =>
          \A c \in Ahead(p) : c \in Conversations /\ conv[c].status # "none"
    /\ pass[p].at \in {"delete", "claim"} /\ p[1] \in Users =>
          \A c \in Ahead(p) :
              conv[c].status = "active" => Belongs(c, p[1]) \/ c \in taken

PassesOK == \A p \in Passes : PassOK(p)

\* The further a pass of an account came, the less of the user there is, as long as no call of
\* theirs comes through.
NothingAhead(p) ==
    /\ pass[p].at \in {"delete", "claim"} =>
          \A c \in Conversations :
              conv[c].status = "active" /\ Belongs(c, p[1]) => c \in Ahead(p)
    /\ pass[p].at \in {"space", "runs", "left", "gone"} =>
          \A c \in Conversations : Belongs(c, p[1]) => conv[c].status # "active"
    /\ pass[p].at \in {"delete", "claim", "space"} /\ ~pass[p].personal => space[p[1]] = "gone"
    /\ pass[p].at \in {"runs", "left", "gone"} => space[p[1]] = "gone"
    /\ pass[p].at \in {"left", "gone"} => \A c \in Conversations : conv[c].run # p[1]
    /\ pass[p].at = "gone" =>
          \A c \in Conversations : Belongs(c, p[1]) => ~conv[c].data

PassesEmpty == \A p \in Passes : p[1] \in Users \ late => NothingAhead(p)

IInv ==
    /\ TypeOK /\ ConversationsOK /\ CallsOK /\ PassesOK /\ PassesEmpty
    /\ ClaimedWasTheirs /\ GoneUserLeavesNothing

-----------------------------------------------------------------------------
(* What a step has to show to keep it. *)

\* Whose a row is.
Of(row, x) == row.place = x \/ (x \in Users /\ row.private /\ row.creator = x)

\* The part of the invariant that speaks of one row.
RowFits(row) ==
    /\ row \in Conversation
    /\ row.status = "active" => space[row.place] # "gone"
    /\ row.status \in {"claimed", "removed"} <=> row.claim # Null
    /\ row.run # Null => row.status \in {"active", "claimed"}
    /\ row.status = "none" => row = NoConversation
    /\ row.status # "none" => row.place \in Places /\ row.creator \in Users
    /\ \A x \in Places : space[x] = "gone" /\ row.place = x => row.status = "removed"
    /\ row.status = "removed" => ~row.data
    /\ row.claim = "retention" => row.due /\ row.run = Null

\* What a step may make of the row of a conversation: it goes on from free to active to claimed to
\* removed, data comes only to an active one, nothing comes to a user who is closed but by a call
\* of theirs, and what goes from them is taken.
RowSteady(c, row) ==
    /\ conv[c].status # "none" => row.status # "none" /\ row.creator = conv[c].creator
    /\ row.status = "active" => conv[c].status \in {"none", "active"}
    /\ row.data => conv[c].data \/ conv[c].status = "active"
    /\ \A x \in Users : Closed(x) /\ x \notin late' =>
          (Of(row, x) => Of(conv[c], x)) /\ (row.run = x => conv[c].run = x)
    /\ \A x \in Users : Closed(x) /\ conv[c].status = "active" /\ Of(conv[c], x)
                        /\ c \notin taken' => Of(row, x)
    /\ row.claim \in Deletable => Of(row, row.claim) \/ c \in taken'

\* What GoneUserLeavesNothing promises of a user.
Outlived(u) ==
    /\ space[u] = "gone"
    /\ \A c \in Conversations :
          /\ conv[c].run # u
          /\ Belongs(c, u) => conv[c].status # "active" /\ ~conv[c].data

\* What a step does to the rest of what passes rely on.
Steady ==
    /\ late \subseteq late' /\ taken \subseteq taken'
    /\ \A x \in Users : Closed(x) => user'[x] # "active"
    /\ \A x \in Places : space[x] = "gone" => space'[x] = "gone"
    /\ \A u \in Users : user'[u] = "gone" /\ u \notin late => Closed(u) /\ Outlived(u)
    /\ \A c \in Conversations : RowSteady(c, conv'[c])

\* Whose a conversation is, in its row.
LEMMA BelongsOf == ASSUME NEW c, NEW x PROVE Belongs(c, x) <=> Of(conv[c], x)
BY DEF Belongs, Of

\* The invariant says of every row that it fits.
LEMMA RowsFit ==
    ASSUME TypeOK, ConversationsOK, NEW c \in Conversations
    PROVE  RowFits(conv[c])
BY DEF TypeOK, ConversationsOK, RowFits

\* A free id belongs to nobody.
LEMMA FreeIsNobodys ==
    ASSUME NEW x \in Users
    PROVE  ~Of(NoConversation, x)
BY SubjectDeletionConstants DEF Of, NoConversation, Places

\* A row that stays as it is does nothing to a pass.
LEMMA SameRowSteady ==
    ASSUME IInv, NEW c \in Conversations, taken \subseteq taken'
    PROVE  RowSteady(c, conv[c])
<1>1. conv[c].claim \in Deletable => Of(conv[c], conv[c].claim) \/ c \in taken
  BY BelongsOf DEF IInv, ClaimedWasTheirs
<1> QED
  BY <1>1 DEF RowSteady

\* What follows for one conversation and one user who is closed and whom no call served since.
LEMMA SteadyRow ==
    ASSUME IInv, Steady, NEW c \in Conversations, NEW x \in Users, Closed(x), x \notin late'
    PROVE  /\ Of(conv'[c], x) => Of(conv[c], x) /\ conv[c].status # "none"
           /\ Of(conv'[c], x) /\ conv'[c].status = "active" => conv[c].status = "active"
           /\ Of(conv'[c], x) /\ conv'[c].data => conv[c].data \/ conv[c].status = "active"
           /\ conv'[c].run = x => conv[c].run = x
           /\ Closed(x)'
<1>1. RowSteady(c, conv'[c])
  BY DEF Steady
<1>2. conv[c].status = "none" => ~Of(conv[c], x)
  BY FreeIsNobodys DEF IInv, ConversationsOK
<1>3. Closed(x)'
  BY DEF Steady, Closed
<1> QED
  BY <1>1, <1>2, <1>3 DEF RowSteady

\* Who is gone left nothing, and nothing of theirs comes back.
LEMMA SteadyGone ==
    ASSUME IInv, Steady
    PROVE  GoneUserLeavesNothing'
<1> SUFFICES ASSUME NEW u \in Users, user'[u] = "gone", u \notin late'
             PROVE  Outlived(u)'
  BY DEF GoneUserLeavesNothing, Outlived
<1>1. Closed(u) /\ Outlived(u)
  BY DEF Steady
<1>2. u \in Places
  BY DEF Places
<1>3. space'[u] = "gone"
  BY <1>1, <1>2 DEF Steady, Outlived
<1>4. ASSUME NEW c \in Conversations
      PROVE  /\ conv'[c].run # u
             /\ Belongs(c, u)' => conv'[c].status # "active" /\ ~conv'[c].data
  <2>1. Belongs(c, u)' <=> Of(conv'[c], u)
    BY DEF Belongs, Of
  <2> QED
    BY <1>1, <2>1, SteadyRow, BelongsOf DEF Outlived
<1> QED
  BY <1>3, <1>4 DEF Outlived

\* What was claimed was its subject's.
LEMMA SteadyTheirs == ASSUME Steady PROVE ClaimedWasTheirs'
BY DEF Steady, RowSteady, ClaimedWasTheirs, Belongs, Of

\* A pass that does not move loses nothing of what it relies on.
LEMMA SteadyPass ==
    ASSUME IInv, Steady, NEW p \in Passes, pass'[p] = pass[p]
    PROVE  PassOK(p)' /\ (p[1] \in Users \ late' => NothingAhead(p)')
<1>1. Ahead(p)' = Ahead(p) /\ PassOK(p)
  BY DEF Ahead, IInv, PassesOK
<1>2. p[1] \in Users => p[1] \in Places
  BY DEF Places
<1>3. \A c \in Conversations : RowSteady(c, conv'[c])
  BY DEF Steady
<1>4. PassOK(p)'
  <2>1. pass'[p].at \notin {"list", "done"} /\ p[1] \in Users => Closed(p[1])'
    BY <1>1 DEF PassOK, Steady, Closed
  <2>2. pass'[p].at \in {"runs", "left", "gone"} => p[1] \in Users
    BY <1>1 DEF PassOK
  <2>3. ASSUME pass'[p].at \in {"delete", "claim"}, NEW c \in Ahead(p)'
        PROVE  /\ c \in Conversations /\ conv'[c].status # "none"
               /\ p[1] \in Users /\ conv'[c].status = "active" => Belongs(c, p[1])' \/ c \in taken'
    <3>1. /\ c \in Conversations /\ conv[c].status # "none"
          /\ p[1] \in Users /\ conv[c].status = "active" => Of(conv[c], p[1]) \/ c \in taken
          /\ p[1] \in Users => Closed(p[1])
      BY <1>1, <2>3, BelongsOf DEF PassOK
    <3>2. RowSteady(c, conv'[c]) /\ taken \subseteq taken'
      BY <3>1, <1>3 DEF Steady
    <3>3. Belongs(c, p[1])' <=> Of(conv'[c], p[1])
      BY DEF Belongs, Of
    <3> QED
      BY <3>1, <3>2, <3>3 DEF RowSteady
  <2> QED
    BY <2>1, <2>2, <2>3 DEF PassOK
<1>5. ASSUME p[1] \in Users \ late' PROVE NothingAhead(p)'
  <2>1. p[1] \in Users \ late /\ NothingAhead(p)
    BY <1>5 DEF Steady, IInv, PassesEmpty
  <2>2. CASE pass[p].at \in {"list", "done"}
    BY <2>2 DEF NothingAhead
  <2>3. CASE pass[p].at \notin {"list", "done"}
    <3>1. Closed(p[1])
      BY <1>1, <2>1, <2>3 DEF PassOK
    <3>2. \A c \in Conversations :
            /\ Belongs(c, p[1])' => Belongs(c, p[1])
            /\ Belongs(c, p[1])' /\ conv'[c].status = "active" => conv[c].status = "active"
            /\ Belongs(c, p[1])' /\ conv'[c].data => conv[c].data \/ conv[c].status = "active"
            /\ conv'[c].run = p[1] => conv[c].run = p[1]
      <4> SUFFICES ASSUME NEW c \in Conversations
                   PROVE  /\ Belongs(c, p[1])' => Belongs(c, p[1])
                          /\ Belongs(c, p[1])' /\ conv'[c].status = "active" =>
                                conv[c].status = "active"
                          /\ Belongs(c, p[1])' /\ conv'[c].data =>
                                conv[c].data \/ conv[c].status = "active"
                          /\ conv'[c].run = p[1] => conv[c].run = p[1]
        OBVIOUS
      <4>1. Belongs(c, p[1])' <=> Of(conv'[c], p[1])
        BY DEF Belongs, Of
      <4> QED
        BY <1>5, <2>1, <3>1, <4>1, SteadyRow, BelongsOf
    <3>3. space[p[1]] = "gone" => space'[p[1]] = "gone"
      BY <1>2, <2>1 DEF Steady
    <3> QED
      BY <1>1, <2>1, <3>2, <3>3 DEF NothingAhead
  <2> QED
    BY <2>2, <2>3
<1> QED
  BY <1>4, <1>5

\* A step keeps the invariant when it is steady, its rows fit, and the pass that moved, if one did,
\* is in order where it came to.
LEMMA Preservation ==
    ASSUME IInv, Steady, TypeOK', ConversationsOK', CallsOK',
           \A p \in Passes : pass'[p] = pass[p] \/
               (PassOK(p)' /\ (p[1] \in Users \ late' => NothingAhead(p)'))
    PROVE  IInv'
BY SteadyGone, SteadyTheirs, SteadyPass DEF IInv, PassesOK, PassesEmpty

-----------------------------------------------------------------------------
(* The pieces most actions share. *)

\* The rest of the state has the types of TypeOK.
RestOK ==
    /\ user' \in [Users -> {"active", "marked", "gone"}]
    /\ space' \in [Places -> {"open", "marked", "gone"}]
    /\ \A u \in Users : space'[u] # "marked"
    /\ call' \in [Calls -> Call \cup {Null}]
    /\ pass' \in [Passes -> Pass]
    /\ listed' \subseteq Conversations /\ late' \subseteq Users /\ taken' \subseteq Conversations

\* Rows that fit are all there is to say of conversations.
LEMMA RowsAfter ==
    ASSUME RestOK, conv' \in [Conversations -> Conversation],
           \A c \in Conversations : RowFits(conv[c])'
    PROVE  TypeOK' /\ ConversationsOK'
BY DEF RestOK, TypeOK, ConversationsOK, RowFits

\* Calls that were let in stay in order while conversations keep their creators.
LEMMA CallsStay ==
    ASSUME IInv, Steady, \A k \in Calls : call'[k] \in {call[k], Null}
    PROVE  CallsOK'
<1> SUFFICES ASSUME NEW k \in Calls, call'[k] = call[k], call[k] # Null
             PROVE  /\ call[k].op \in {"create", "move"} =>
                          /\ call[k].to \in Places
                          /\ call[k].to = call[k].by \/ call[k].to \in Shared
                    /\ call[k].op = "move" =>
                          /\ conv'[call[k].conv].status # "none"
                          /\ call[k].private => conv'[call[k].conv].creator = call[k].by
  BY DEF CallsOK
<1>1. call[k] \in Call
  BY DEF IInv, TypeOK
<1>2. call[k].conv \in Conversations
  BY <1>1 DEF Call
<1> QED
  BY <1>2 DEF IInv, CallsOK, Steady, RowSteady

\* A step that changes the row of one conversation, the users, places, calls and passes staying.
LEMMA OneRow ==
    ASSUME IInv, NEW c \in Conversations, NEW row, RowFits(row), RowSteady(c, row),
           conv' = [conv EXCEPT ![c] = row], UNCHANGED <<user, space, pass>>, RestOK,
           \A k \in Calls : call'[k] \in {call[k], Null},
           late \subseteq late', taken \subseteq taken'
    PROVE  IInv'
<1>1. conv \in [Conversations -> Conversation] /\ row \in Conversation
  BY DEF IInv, TypeOK, RowFits
<1>2. /\ conv' \in [Conversations -> Conversation] /\ conv'[c] = row
      /\ \A d \in Conversations : d # c => conv'[d] = conv[d]
  BY <1>1
<1>3. \A d \in Conversations : RowSteady(d, conv'[d])
  BY <1>2, SameRowSteady
<1>4. \A d \in Conversations : RowFits(conv'[d])
  BY <1>2, RowsFit DEF IInv
<1>5. \A d \in Conversations : RowFits(conv[d])'
  BY <1>4 DEF RowFits
<1>6. Steady
  BY <1>3 DEF Steady, IInv, GoneUserLeavesNothing, Outlived, Closed
<1> QED
  BY <1>2, <1>5, <1>6, RowsAfter, CallsStay, Preservation

\* A step of one pass over rows that stay.
LEMMA OnePass ==
    ASSUME IInv, NEW p \in Passes, NEW x \in Pass, pass' = [pass EXCEPT ![p] = x],
           UNCHANGED <<user, space, conv, call, listed, late, taken>>,
           PassOK(p)', p[1] \in Users \ late => NothingAhead(p)'
    PROVE  IInv'
<1>1. RestOK /\ conv' \in [Conversations -> Conversation]
  BY DEF IInv, TypeOK, RestOK
<1>2. \A c \in Conversations : RowFits(conv[c])'
  BY RowsFit DEF IInv, RowFits
<1>3. Steady
  BY SameRowSteady DEF Steady, IInv, GoneUserLeavesNothing, Outlived, Closed
<1>4. \A q \in Passes : q # p => pass'[q] = pass[q]
  BY DEF IInv, TypeOK
<1> QED
  BY <1>1, <1>2, <1>3, <1>4, RowsAfter, CallsStay, Preservation

-----------------------------------------------------------------------------
(* Runs and retention. *)

\* A run writes, a conversation becomes due, data goes: none changes whose it is.
LEMMA DataSteps ==
    ASSUME IInv, NEW c \in Conversations,
           RunWrites(c) \/ RunEnds(c) \/ BecomesDue(c) \/ CleanUp(c)
    PROVE  IInv'
<1>1. /\ RowFits(conv[c]) /\ conv[c] \in Conversation
      /\ \A x \in Deletable : conv[c].claim = x => Of(conv[c], x) \/ c \in taken
  BY RowsFit, BelongsOf DEF IInv, RowFits, ClaimedWasTheirs
<1>2. RestOK /\ late' = late /\ taken' = taken /\ UNCHANGED <<user, space, pass, call>>
  BY DEF IInv, TypeOK, RestOK, RunWrites, RunEnds, BecomesDue, CleanUp
<1>3. conv[c].status # "none"
  BY <1>1, SubjectDeletionConstants
     DEF RunWrites, RunEnds, BecomesDue, CleanUp, Pending, With, RowFits
<1>4. ASSUME NEW row, conv' = [conv EXCEPT ![c] = row], row \in Conversation,
             row.status = conv[c].status, row.place = conv[c].place,
             row.private = conv[c].private, row.creator = conv[c].creator,
             row.claim = conv[c].claim, row.run \in {conv[c].run, Null},
             row.data => conv[c].data \/ conv[c].status = "active",
             conv[c].due => row.due
      PROVE  IInv'
  <2>1. RowFits(row)
    BY <1>1, <1>3, <1>4 DEF RowFits
  <2>2. \A x : Of(row, x) <=> Of(conv[c], x)
    BY <1>4 DEF Of
  <2>3. Null \notin Users
    BY SubjectDeletionConstants DEF Places
  <2>4. RowSteady(c, row)
    BY <1>1, <1>2, <1>4, <2>2, <2>3 DEF RowSteady
  <2> QED
    BY <1>2, <1>4, <2>1, <2>4, OneRow
<1>5. CASE RunWrites(c)
  <2> DEFINE row == [conv[c] EXCEPT !.data = TRUE]
  <2>1. conv' = [conv EXCEPT ![c] = row] /\ conv[c].status = "active"
    BY <1>5 DEF RunWrites, IInv, TypeOK, Conversation
  <2>2. row \in Conversation /\ row.data = TRUE /\ row.status = conv[c].status
        /\ row.place = conv[c].place /\ row.private = conv[c].private
        /\ row.creator = conv[c].creator /\ row.claim = conv[c].claim
        /\ row.run = conv[c].run /\ row.due = conv[c].due
    BY <1>1 DEF Conversation
  <2> HIDE DEF row
  <2> QED
    BY <1>4, <2>1, <2>2
<1>6. CASE RunEnds(c)
  <2> DEFINE row == [conv[c] EXCEPT !.run = Null]
  <2>1. conv' = [conv EXCEPT ![c] = row]
    BY <1>6 DEF RunEnds, IInv, TypeOK, Conversation
  <2>2. row \in Conversation /\ row.data = conv[c].data /\ row.status = conv[c].status
        /\ row.place = conv[c].place /\ row.private = conv[c].private
        /\ row.creator = conv[c].creator /\ row.claim = conv[c].claim
        /\ row.run = Null /\ row.due = conv[c].due
    BY <1>1 DEF Conversation
  <2> HIDE DEF row
  <2> QED
    BY <1>4, <2>1, <2>2
<1>7. CASE BecomesDue(c)
  <2> DEFINE row == [conv[c] EXCEPT !.due = TRUE]
  <2>1. conv' = [conv EXCEPT ![c] = row]
    BY <1>7 DEF BecomesDue, IInv, TypeOK, Conversation
  <2>2. row \in Conversation /\ row.data = conv[c].data /\ row.status = conv[c].status
        /\ row.place = conv[c].place /\ row.private = conv[c].private
        /\ row.creator = conv[c].creator /\ row.claim = conv[c].claim
        /\ row.run = conv[c].run /\ row.due = TRUE
    BY <1>1 DEF Conversation
  <2> HIDE DEF row
  <2> QED
    BY <1>4, <2>1, <2>2
<1>8. CASE CleanUp(c)
  <2> DEFINE row == [conv[c] EXCEPT !.data = FALSE]
  <2>1. conv' = [conv EXCEPT ![c] = row]
    BY <1>8 DEF CleanUp, IInv, TypeOK, Conversation
  <2>2. row \in Conversation /\ row.data = FALSE /\ row.status = conv[c].status
        /\ row.place = conv[c].place /\ row.private = conv[c].private
        /\ row.creator = conv[c].creator /\ row.claim = conv[c].claim
        /\ row.run = conv[c].run /\ row.due = conv[c].due
    BY <1>1 DEF Conversation
  <2> HIDE DEF row
  <2> QED
    BY <1>4, <2>1, <2>2
<1> QED
  BY <1>5, <1>6, <1>7, <1>8

\* What a claim makes of an active conversation.
LEMMA ClaimedRow ==
    ASSUME IInv, NEW c \in Conversations, conv[c].status = "active",
           NEW by \in {"user", "retention"} \cup Deletable,
           by = "retention" => conv[c].due /\ conv[c].run = Null,
           by \in Deletable => Of(conv[c], by) \/ c \in taken,
           taken \subseteq taken'
    PROVE  RowFits(claimed(conv[c], by)) /\ RowSteady(c, claimed(conv[c], by))
<1> DEFINE row == claimed(conv[c], by)
<1>1. RowFits(conv[c]) /\ conv[c] \in Conversation
  BY RowsFit DEF IInv, RowFits
<1>2. by # Null
  BY SubjectDeletionConstants
<1>3. /\ row \in Conversation /\ row.data = conv[c].data /\ row.status = "claimed"
      /\ row.place = conv[c].place /\ row.private = conv[c].private
      /\ row.creator = conv[c].creator /\ row.claim = by
      /\ row.run = conv[c].run /\ row.due = conv[c].due
  BY <1>1 DEF claimed, Conversation
<1> HIDE DEF row
<1>4. RowFits(row)
  BY <1>1, <1>2, <1>3 DEF RowFits
<1>5. \A x : Of(row, x) <=> Of(conv[c], x)
  BY <1>3 DEF Of
<1>6. RowSteady(c, row)
  BY <1>1, <1>3, <1>5 DEF RowSteady
<1> QED
  BY <1>4, <1>6 DEF row

\* Retention judges a conversation again under the lock of its row.
LEMMA ExpireStep ==
    ASSUME IInv, NEW c \in Conversations, ExpireConversation(c)
    PROVE  IInv'
<1>1. RestOK /\ late' = late /\ taken' = taken /\ UNCHANGED <<user, space, pass, call>>
  BY DEF IInv, TypeOK, RestOK, ExpireConversation
<1>2. CASE expires(c)
  <2>1. conv' = [conv EXCEPT ![c] = claimed(conv[c], "retention")]
    BY <1>2 DEF ExpireConversation
  <2>2. "retention" \notin Deletable
    BY SubjectDeletionConstants
  <2>3. RowFits(claimed(conv[c], "retention")) /\ RowSteady(c, claimed(conv[c], "retention"))
    BY <1>1, <1>2, <2>2, ClaimedRow DEF expires, Expired
  <2> QED
    BY <1>1, <2>1, <2>3, OneRow
<1>3. CASE ~expires(c)
  <2>1. conv' = [conv EXCEPT ![c] = conv[c]]
    BY <1>3 DEF ExpireConversation, IInv, TypeOK
  <2>2. RowFits(conv[c]) /\ RowSteady(c, conv[c])
    BY <1>1, RowsFit, SameRowSteady DEF IInv
  <2> QED
    BY <1>1, <2>1, <2>2, OneRow
<1> QED
  BY <1>2, <1>3

\* A step that leaves conversations, users, places and passes alone.
LEMMA QuietStep ==
    ASSUME IInv, UNCHANGED <<user, space, conv, pass, late, taken>>, RestOK, CallsOK'
    PROVE  IInv'
<1>1. \A c \in Conversations : RowFits(conv[c])'
  BY RowsFit DEF IInv, RowFits
<1>2. conv' \in [Conversations -> Conversation]
  BY DEF IInv, TypeOK
<1>3. Steady
  BY SameRowSteady DEF Steady, IInv, GoneUserLeavesNothing, Outlived, Closed
<1> QED
  BY <1>1, <1>2, <1>3, RowsAfter, Preservation

\* The list of retention.
LEMMA ListExpiredStep == ASSUME IInv, ListExpired PROVE IInv'
<1>1. RestOK /\ UNCHANGED <<user, space, conv, call, pass, late, taken>>
  BY DEF IInv, TypeOK, RestOK, ListExpired
<1>2. CallsOK'
  BY <1>1 DEF IInv, CallsOK
<1> QED
  BY <1>1, <1>2, QuietStep

\* A deletion is accepted.
LEMMA AcceptStep == ASSUME IInv, NEW x \in Deletable, Accept(x) PROVE IInv'
<1>1. /\ conv' = conv /\ call' = call /\ pass' = pass /\ listed' = listed
      /\ late' = late /\ taken' = taken
  BY DEF Accept
<1>2. x \in Places
  BY SubjectDeletionConstants
<1>3. /\ user' \in [Users -> {"active", "marked", "gone"}]
      /\ \A u \in Users : user'[u] = user[u] \/ (user[u] = "active" /\ user'[u] = "marked")
  BY DEF Accept, IInv, TypeOK
<1>4. /\ space' \in [Places -> {"open", "marked", "gone"}]
      /\ \A p \in Places : space'[p] = space[p] \/
            (p \notin Users /\ space[p] = "open" /\ space'[p] = "marked")
  BY <1>2 DEF Accept, IInv, TypeOK, Places
<1>5. \A u \in Users : space'[u] # "marked"
  BY <1>4 DEF IInv, TypeOK, Places
<1>6. RestOK
  BY <1>1, <1>3, <1>4, <1>5 DEF RestOK, IInv, TypeOK
<1>7. \A c \in Conversations : RowFits(conv[c])'
  <2> SUFFICES ASSUME NEW c \in Conversations PROVE RowFits(conv[c])'
    OBVIOUS
  <2>1. RowFits(conv[c])
    BY RowsFit DEF IInv
  <2>2. \A p \in Places : space'[p] = "gone" <=> space[p] = "gone"
    BY <1>4
  <2> QED
    BY <1>1, <2>1, <2>2 DEF RowFits
<1>8. Steady
  BY <1>1, <1>3, <1>4, SameRowSteady DEF Steady, IInv, GoneUserLeavesNothing, Outlived, Closed
<1>9. conv' \in [Conversations -> Conversation]
  BY <1>1 DEF IInv, TypeOK
<1> QED
  BY <1>1, <1>6, <1>7, <1>8, <1>9, RowsAfter, CallsStay, Preservation

-----------------------------------------------------------------------------
(* Calls. *)

\* A call is let in.
LEMMA LetInStep ==
    ASSUME IInv, NEW k \in Calls, UserCall(k)
    PROVE  IInv'
<1>1. PICK u \in Users, c \in Conversations, private \in BOOLEAN, to \in Places \cup {Null},
           op \in {"create", "start", "attach", "move", "delete"} :
        /\ LetIn(k, u, op, c, to, private)
        /\ op \in {"create", "move"} => to \in Places
  BY DEF UserCall
<1> DEFINE a == [by |-> u, op |-> op, conv |-> c, from |-> conv[c].place, to |-> to,
                 private |-> private]
<1>2. call' = [call EXCEPT ![k] = a] /\ UNCHANGED <<user, space, conv, pass, listed, late, taken>>
  BY <1>1 DEF LetIn
<1>3. a \in Call
  BY DEF IInv, TypeOK, Conversation, Call
<1>4. RestOK
  BY <1>2, <1>3 DEF IInv, TypeOK, RestOK
<1>5. /\ op \in {"create", "move"} => to \in Places /\ (to = u \/ to \in Shared)
      /\ op = "move" => conv[c].status # "none" /\ (private => conv[c].creator = u)
  BY <1>1 DEF LetIn, MayUse, Reads
<1>6. CallsOK'
  <2> SUFFICES ASSUME NEW i \in Calls, call'[i] # Null
               PROVE  /\ call'[i].op \in {"create", "move"} =>
                            /\ call'[i].to \in Places
                            /\ call'[i].to = call'[i].by \/ call'[i].to \in Shared
                      /\ call'[i].op = "move" =>
                            /\ conv[call'[i].conv].status # "none"
                            /\ call'[i].private => conv[call'[i].conv].creator = call'[i].by
    BY <1>2 DEF CallsOK
  <2>1. CASE i = k
    <3>1. call'[i] = a
      BY <1>2, <2>1 DEF IInv, TypeOK
    <3> QED
      BY <1>5, <3>1
  <2>2. CASE i # k
    <3>1. call'[i] = call[i]
      BY <1>2, <2>2 DEF IInv, TypeOK
    <3> QED
      BY <3>1 DEF IInv, CallsOK
  <2> QED
    BY <2>1, <2>2
<1> QED
  BY <1>2, <1>4, <1>6, QuietStep

\* What the statement of a call makes of the row it names.  A call of a user who is closed makes
\* them late, and a move of what is theirs takes it.
LEMMA CommitRow ==
    ASSUME IInv, NEW a \in Call, After(a) # Null,
           a.op \in {"create", "move"} => a.to \in Places /\ (a.to = a.by \/ a.to \in Shared),
           a.op = "move" => (a.private => conv[a.conv].creator = a.by),
           Closed(a.by) => a.by \in late', taken \subseteq taken',
           a.op = "move" /\ WasClosed(a.conv) => a.conv \in taken'
    PROVE  RowFits(After(a)) /\ RowSteady(a.conv, After(a))
<1> DEFINE c == a.conv
           old == conv[c]
           row == After(a)
<1>1. /\ c \in Conversations /\ a.by \in Users /\ a.private \in BOOLEAN
      /\ a.op \in {"create", "start", "attach", "move", "delete"}
  BY DEF Call
<1>2. RowFits(old) /\ old \in Conversation
  BY <1>1, RowsFit DEF IInv, RowFits
<1>3. /\ Null \notin Users /\ Null \notin Deletable /\ Null \notin Places
      /\ Users \cap Shared = {} /\ Users \subseteq Places
  BY SubjectDeletionConstants DEF Places
<1>4. old.claim \in Deletable => Of(old, old.claim) \/ c \in taken'
  BY <1>1, BelongsOf DEF IInv, ClaimedWasTheirs
<1>5. CASE a.op = "create"
  <2>1. /\ old.status = "none" /\ space[a.to] # "gone"
        /\ row = [NoConversation EXCEPT !.status = "active", !.place = a.to,
                                        !.private = a.private, !.creator = a.by]
    BY <1>5 DEF After
  <2>2. /\ row \in Conversation /\ row.status = "active" /\ row.place = a.to
        /\ row.private = a.private /\ row.creator = a.by /\ row.data = FALSE
        /\ row.due = FALSE /\ row.run = Null /\ row.claim = Null
    BY <1>1, <1>5, <2>1 DEF NoConversation, Conversation
  <2> HIDE DEF row
  <2>3. RowFits(row)
    BY <1>1, <1>3, <1>5, <2>1, <2>2, SubjectDeletionConstants DEF RowFits
  <2>4. \A x \in Users : Of(row, x) => x = a.by
    BY <1>3, <1>5, <2>2 DEF Of
  <2>5. RowSteady(c, row)
    BY <1>3, <2>1, <2>2, <2>4 DEF RowSteady
  <2> QED
    BY <2>3, <2>5 DEF row
<1>6. ASSUME old.status = "active", row \in Conversation, row.status = "active",
             row.place = old.place, row.private = old.private, row.creator = old.creator,
             row.claim = old.claim, row.run \in {old.run, a.by}
      PROVE  RowFits(row) /\ RowSteady(c, row)
  <2> HIDE DEF row, old, c
  <2>1. RowFits(row)
    <3>1. old.claim = Null
      BY <1>2, <1>6 DEF RowFits
    <3> QED
      BY <1>2, <1>6, <3>1, SubjectDeletionConstants DEF RowFits
  <2>2. \A x : Of(row, x) <=> Of(old, x)
    BY <1>6 DEF Of
  <2>3. RowSteady(c, row)
    BY <1>1, <1>4, <1>6, <2>2 DEF RowSteady, old
  <2> QED
    BY <2>1, <2>3
<1>7. CASE a.op = "start"
  <2>1. old.status = "active" /\ row = started(old, a.by)
    BY <1>7 DEF After
  <2>2. /\ row \in Conversation /\ row.status = old.status /\ row.place = old.place
        /\ row.private = old.private /\ row.creator = old.creator /\ row.claim = old.claim
        /\ row.run = a.by
    BY <1>1, <1>2, <2>1 DEF started, Conversation
  <2> QED
    BY <1>6, <2>1, <2>2
<1>8. CASE a.op = "attach"
  <2>1. old.status = "active" /\ row = [old EXCEPT !.data = TRUE]
    BY <1>8 DEF After
  <2>2. /\ row \in Conversation /\ row.status = old.status /\ row.place = old.place
        /\ row.private = old.private /\ row.creator = old.creator /\ row.claim = old.claim
        /\ row.run = old.run
    BY <1>1, <1>2, <2>1 DEF Conversation
  <2> QED
    BY <1>6, <2>1, <2>2
<1>9. CASE a.op = "move"
  <2>1. /\ old.status = "active" /\ space[a.to] # "gone"
        /\ row = [old EXCEPT !.place = a.to, !.private = a.private]
    BY <1>9 DEF After
  <2>2. /\ row \in Conversation /\ row.status = "active" /\ row.place = a.to
        /\ row.private = a.private /\ row.creator = old.creator /\ row.claim = old.claim
        /\ row.data = old.data /\ row.run = old.run /\ row.due = old.due
    BY <1>1, <1>2, <1>9, <2>1 DEF Conversation
  <2> HIDE DEF row
  <2>3. old.claim = Null /\ old.creator \in Users
    BY <1>2, <2>1 DEF RowFits
  <2>4. RowFits(row)
    <3> HIDE DEF old
    <3> QED BY <1>2, <1>9, <2>1, <2>2, <2>3, SubjectDeletionConstants DEF RowFits
  <2>5. \A x \in Users : Of(row, x) => x = a.by
    BY <1>3, <1>9, <2>2 DEF Of
  <2>6. \A x \in Users : Closed(x) /\ Of(old, x) => c \in taken'
    BY <1>9, BelongsOf DEF WasClosed, Closed
  <2>7. RowSteady(c, row)
    BY <1>3, <2>1, <2>2, <2>3, <2>5, <2>6 DEF RowSteady
  <2> QED
    BY <2>4, <2>7 DEF row
<1>10. CASE a.op = "delete"
  <2>1. old.status = "active" /\ row = claimed(old, "user")
    BY <1>10 DEF After
  <2>2. "user" \notin Deletable /\ "user" # "retention"
    BY SubjectDeletionConstants
  <2> QED
    BY <1>1, <2>1, <2>2, ClaimedRow
<1> QED
  BY <1>1, <1>5, <1>7, <1>8, <1>9, <1>10

\* A call commits, or finds that its conditions no longer hold.
LEMMA CommitStep ==
    ASSUME IInv, NEW k \in Calls, Commit(k)
    PROVE  IInv'
<1> DEFINE a == call[k]
<1>1. a \in Call
  BY DEF Commit, IInv, TypeOK
<1>2. a.conv \in Conversations /\ a.by \in Users
  BY <1>1 DEF Call
<1>3. /\ UNCHANGED <<user, space, pass, listed>> /\ call' = [call EXCEPT ![k] = Null]
      /\ conv' = IF After(a) # Null THEN [conv EXCEPT ![a.conv] = After(a)] ELSE conv
      /\ late' = IF After(a) # Null /\ user[a.by] # "active" THEN late \cup {a.by} ELSE late
      /\ taken' = IF After(a) # Null /\ a.op = "move" /\ WasClosed(a.conv)
                  THEN taken \cup {a.conv} ELSE taken
  BY DEF Commit
<1>4. late \subseteq late' /\ taken \subseteq taken' /\ RestOK
  BY <1>2, <1>3 DEF IInv, TypeOK, RestOK
<1>5. \A i \in Calls : call'[i] \in {call[i], Null}
  BY <1>3 DEF IInv, TypeOK
<1>6. CASE After(a) = Null
  <2>1. conv' = [conv EXCEPT ![a.conv] = conv[a.conv]]
    BY <1>2, <1>3, <1>6 DEF IInv, TypeOK
  <2>2. RowFits(conv[a.conv]) /\ RowSteady(a.conv, conv[a.conv])
    BY <1>2, <1>4, RowsFit, SameRowSteady DEF IInv
  <2> QED
    BY <1>2, <1>3, <1>4, <1>5, <2>1, <2>2, OneRow
<1>7. CASE After(a) # Null
  <2>1. /\ a.op \in {"create", "move"} => a.to \in Places /\ (a.to = a.by \/ a.to \in Shared)
        /\ a.op = "move" => (a.private => conv[a.conv].creator = a.by)
    BY DEF Commit, IInv, CallsOK
  <2>2. /\ Closed(a.by) => a.by \in late'
        /\ a.op = "move" /\ WasClosed(a.conv) => a.conv \in taken'
    BY <1>3, <1>7 DEF Closed
  <2> HIDE DEF a
  <2>3. RowFits(After(a)) /\ RowSteady(a.conv, After(a))
    BY <1>1, <1>4, <1>7, <2>1, <2>2, CommitRow
  <2>4. conv' = [conv EXCEPT ![a.conv] = After(a)]
    BY <1>3, <1>7
  <2> QED
    BY <1>2, <1>3, <1>4, <1>5, <2>3, <2>4, OneRow
<1> QED
  BY <1>6, <1>7

-----------------------------------------------------------------------------
(* The passes of a deletion. *)

\* Whose deletion a pass carries out.
LEMMA PassSubject ==
    ASSUME NEW p \in Passes
    PROVE  p[1] \in Deletable /\ p[1] \in Places
BY SubjectDeletionConstants DEF Passes

\* What a pass throws ends it, and nothing is ahead of it any more.
LEMMA EndsOK ==
    ASSUME IInv, NEW p \in Passes, Ends(p)
    PROVE  /\ pass' \in [Passes -> Pass] /\ PassOK(p)' /\ NothingAhead(p)'
           /\ \A q \in Passes : q # p => pass'[q] = pass[q]
<1> DEFINE x == [ToBegin EXCEPT !.at = IF p[2] = "job" THEN @ ELSE "done"]
<1>1. x \in Pass /\ x.at \in {"list", "done"}
  BY DEF ToBegin, Pass
<1>2. pass' = [pass EXCEPT ![p] = x]
  BY DEF Ends
<1> HIDE DEF x
<1>3. /\ pass' \in [Passes -> Pass] /\ pass'[p] = x
      /\ \A q \in Passes : q # p => pass'[q] = pass[q]
  BY <1>1, <1>2 DEF IInv, TypeOK
<1> QED
  BY <1>1, <1>3 DEF PassOK, NothingAhead

\* A pass that goes on keeps what it has listed.
LEMMA GoesOn ==
    ASSUME IInv, NEW p \in Passes, NEW at \in {"delete", "space", "runs", "left", "gone"},
           Goes(p, at)
    PROVE  /\ pass' \in [Passes -> Pass] /\ pass'[p].at = at /\ pass'[p].todo = pass[p].todo
           /\ pass'[p].personal = pass[p].personal
           /\ \A q \in Passes : q # p => pass'[q] = pass[q]
<1>1. pass \in [Passes -> Pass]
  BY DEF IInv, TypeOK
<1> DEFINE x == [pass[p] EXCEPT !.at = at]
<1>2. /\ x \in Pass /\ x.at = at /\ x.todo = pass[p].todo /\ x.personal = pass[p].personal
  BY <1>1 DEF Pass
<1>3. pass' = [pass EXCEPT ![p] = x]
  BY <1>1 DEF Goes, Pass
<1> HIDE DEF x
<1> QED
  BY <1>1, <1>2, <1>3

\* A pass moves while nothing else changes.
LEMMA PassMoves ==
    ASSUME IInv, NEW p \in Passes, pass' \in [Passes -> Pass],
           UNCHANGED <<user, space, conv, call, listed, late, taken>>,
           \A q \in Passes : q # p => pass'[q] = pass[q],
           PassOK(p)', p[1] \in Users \ late => NothingAhead(p)'
    PROVE  IInv'
<1>1. pass' = [pass EXCEPT ![p] = pass'[p]] /\ pass'[p] \in Pass
  BY DEF IInv, TypeOK
<1> QED
  BY <1>1, OnePass

\* What the invariant says of a pass.
LEMMA PassOfIInv ==
    ASSUME IInv, NEW p \in Passes
    PROVE  /\ pass[p] \in Pass /\ PassOK(p)
           /\ p[1] \in Users \ late => NothingAhead(p)
BY DEF IInv, TypeOK, PassesOK, PassesEmpty

\* A pass lists what its subject has.
LEMMA ListStep == ASSUME IInv, NEW p \in Passes, List(p) PROVE IInv'
<1> DEFINE todo == {c \in With("active") : Belongs(c, p[1])}
           x == [ToBegin EXCEPT !.at = "delete", !.todo = todo, !.personal = hasPersonal(p[1])]
<1>1. pass' = [pass EXCEPT ![p] = x] /\ UNCHANGED <<user, space, conv, call, listed, late, taken>>
  BY DEF List
<1>2. todo \subseteq Conversations
  BY DEF With
<1>3. hasPersonal(p[1]) \in BOOLEAN
  BY DEF hasPersonal
<1>4. /\ x \in Pass /\ x.at = "delete" /\ x.todo = todo /\ x.personal = hasPersonal(p[1])
  <2> HIDE DEF todo
  <2> QED BY <1>2, <1>3 DEF ToBegin, Pass
<1> HIDE DEF x
<1>5. /\ pass' \in [Passes -> Pass] /\ pass'[p] = x
      /\ \A q \in Passes : q # p => pass'[q] = pass[q]
  BY <1>1, <1>4 DEF IInv, TypeOK
<1>6. Ahead(p)' = todo
  BY <1>4, <1>5 DEF Ahead
<1>7. /\ \A c \in Conversations : Belongs(c, p[1])' <=> Belongs(c, p[1])
      /\ p[1] \in Users => Closed(p[1])'
  BY <1>1 DEF Belongs, List, Marked, Closed
<1>8. \A c \in todo : c \in Conversations /\ conv[c].status = "active" /\ Belongs(c, p[1])
  BY DEF With
<1>9. \A c \in Conversations : conv[c].status = "active" /\ Belongs(c, p[1]) => c \in todo
  BY DEF With
<1> HIDE DEF todo
<1>10. PassOK(p)'
  BY <1>1, <1>4, <1>5, <1>6, <1>7, <1>8 DEF PassOK
<1>11. p[1] \in Users => NothingAhead(p)'
  BY <1>1, <1>4, <1>5, <1>6, <1>7, <1>9 DEF NothingAhead, hasPersonal
<1> QED
  BY <1>1, <1>5, <1>10, <1>11, PassMoves

\* It looks at the next one, and goes on when there is none.
LEMMA LookStep == ASSUME IInv, NEW p \in Passes, Look(p) PROVE IInv'
<1>1. /\ pass[p].at = "delete" /\ pass \in [Passes -> Pass] /\ pass[p] \in Pass
      /\ UNCHANGED <<user, space, conv, call, listed, late, taken>>
  BY DEF Look, IInv, TypeOK
<1>2. PassOK(p) /\ (p[1] \in Users \ late => NothingAhead(p)) /\ Ahead(p) = pass[p].todo
  BY <1>1, PassOfIInv DEF Ahead
<1>3. /\ \A c \in Conversations : Belongs(c, p[1])' <=> Belongs(c, p[1])
      /\ Closed(p[1])' <=> Closed(p[1])
  BY <1>1 DEF Belongs, Closed
<1>4. CASE pass[p].todo = {}
  <2>1. Goes(p, "space")
    BY <1>4 DEF Look
  <2>2. /\ pass' \in [Passes -> Pass] /\ pass'[p].at = "space"
        /\ pass'[p].personal = pass[p].personal
        /\ \A q \in Passes : q # p => pass'[q] = pass[q]
    BY <2>1, GoesOn
  <2>3. PassOK(p)'
    BY <1>1, <1>2, <1>3, <2>2 DEF PassOK
  <2>4. p[1] \in Users \ late => NothingAhead(p)'
    BY <1>1, <1>2, <1>3, <1>4, <2>2 DEF NothingAhead
  <2> QED
    BY <1>1, <2>2, <2>3, <2>4, PassMoves
<1>5. ASSUME NEW c \in pass[p].todo, Ends(p) PROVE IInv'
  BY <1>1, <1>5, EndsOK, PassMoves
<1>6. ASSUME NEW c \in pass[p].todo, p[1] \in Shared,
             pass' = [pass EXCEPT ![p].todo = @ \ {c}]
      PROVE  IInv'
  <2> DEFINE x == [pass[p] EXCEPT !.todo = @ \ {c}]
  <2>1. /\ x \in Pass /\ x.at = "delete" /\ x.todo = pass[p].todo \ {c}
    BY <1>1 DEF Pass
  <2>2. pass' = [pass EXCEPT ![p] = x]
    BY <1>1, <1>6 DEF Pass
  <2> HIDE DEF x
  <2>3. /\ pass' \in [Passes -> Pass] /\ pass'[p] = x
        /\ \A q \in Passes : q # p => pass'[q] = pass[q]
    BY <1>1, <2>1, <2>2
  <2>4. Ahead(p)' = pass[p].todo \ {c}
    BY <2>1, <2>3 DEF Ahead
  <2>5. p[1] \notin Users
    BY <1>6, SubjectDeletionConstants
  <2>6. PassOK(p)'
    BY <1>1, <1>2, <2>1, <2>3, <2>4, <2>5 DEF PassOK
  <2> QED
    BY <1>1, <2>3, <2>5, <2>6, PassMoves
<1>7. ASSUME NEW c \in pass[p].todo,
             pass' = [pass EXCEPT ![p].at = "claim", ![p].current = c, ![p].todo = @ \ {c}]
      PROVE  IInv'
  <2> DEFINE x == [pass[p] EXCEPT !.at = "claim", !.current = c, !.todo = @ \ {c}]
  <2>1. pass[p].todo \subseteq Conversations /\ c \in Conversations
    BY <1>1 DEF Pass
  <2>2. /\ x \in Pass /\ x.at = "claim" /\ x.todo = pass[p].todo \ {c} /\ x.current = c
        /\ x.personal = pass[p].personal
    BY <1>1, <2>1 DEF Pass
  <2>3. pass' = [pass EXCEPT ![p] = x]
    BY <1>1, <1>7 DEF Pass
  <2> HIDE DEF x
  <2>4. /\ pass' \in [Passes -> Pass] /\ pass'[p] = x
        /\ \A q \in Passes : q # p => pass'[q] = pass[q]
    BY <1>1, <2>2, <2>3
  <2>5. Ahead(p)' = Ahead(p)
    BY <1>2, <2>2, <2>4 DEF Ahead
  <2>6. PassOK(p)'
    BY <1>1, <1>2, <1>3, <2>2, <2>4, <2>5 DEF PassOK
  <2>7. p[1] \in Users \ late => NothingAhead(p)'
    BY <1>1, <1>2, <1>3, <2>2, <2>4, <2>5 DEF NothingAhead
  <2> QED
    BY <1>1, <2>4, <2>6, <2>7, PassMoves
<1> QED
  BY <1>4, <1>5, <1>6, <1>7 DEF Look

\* The claim of a conversation under the lock of its row.
LEMMA DeleteConversationStep ==
    ASSUME IInv, NEW p \in Passes, DeleteConversation(p)
    PROVE  IInv'
<1> DEFINE c == pass[p].current
<1>1. /\ pass[p].at = "claim" /\ UNCHANGED <<user, space, call, listed, late, taken>>
      /\ pass \in [Passes -> Pass] /\ pass[p] \in Pass
  BY DEF DeleteConversation, IInv, TypeOK
<1>2. /\ PassOK(p) /\ (p[1] \in Users \ late => NothingAhead(p))
      /\ Ahead(p) = pass[p].todo \cup {c} /\ c \in Conversations
      /\ pass[p].todo \subseteq Conversations
  <2>1. PassOK(p) /\ (p[1] \in Users \ late => NothingAhead(p))
    BY PassOfIInv
  <2>2. Ahead(p) = pass[p].todo \cup {c}
    BY <1>1 DEF Ahead
  <2> QED
    BY <1>1, <2>1, <2>2 DEF PassOK, Pass
<1>3. p[1] \in Deletable /\ (p[1] \in Users \/ p[1] \in Shared)
  BY PassSubject DEF Places
<1> HIDE DEF c
<1>4. CASE ~deletes(p, c)
  <2>1. CASE p[1] \in Shared
    <3>1. Goes(p, "delete") /\ conv' = conv /\ p[1] \notin Users
      BY <1>4, <2>1, SubjectDeletionConstants DEF DeleteConversation, c
    <3>2. /\ pass' \in [Passes -> Pass] /\ pass'[p].at = "delete"
          /\ pass'[p].todo = pass[p].todo
          /\ \A q \in Passes : q # p => pass'[q] = pass[q]
      BY <3>1, GoesOn
    <3>3. PassOK(p)'
      BY <1>1, <1>2, <3>1, <3>2 DEF PassOK, Ahead
    <3> QED
      BY <1>1, <3>1, <3>2, <3>3, PassMoves
  <2>2. CASE p[1] \notin Shared
    <3>1. Ends(p) /\ conv' = conv
      BY <1>4, <2>2 DEF DeleteConversation, c
    <3> QED
      BY <1>1, <3>1, EndsOK, PassMoves
  <2> QED
    BY <2>1, <2>2
<1>5. CASE deletes(p, c)
  <2> DEFINE row == claimed(conv[c], p[1])
  <2>1. conv' = [conv EXCEPT ![c] = row] /\ Goes(p, "delete") /\ conv[c].status = "active"
    BY <1>5 DEF DeleteConversation, deletes, c
  <2>2. /\ pass' \in [Passes -> Pass] /\ pass'[p].at = "delete"
        /\ pass'[p].todo = pass[p].todo /\ pass'[p].personal = pass[p].personal
        /\ \A q \in Passes : q # p => pass'[q] = pass[q]
    BY <2>1, GoesOn
  <2>3. Of(conv[c], p[1]) \/ c \in taken
    <3>1. CASE p[1] \in Shared
      BY <1>5, <3>1 DEF deletes, Of
    <3>2. CASE p[1] \in Users
      BY <1>1, <1>2, <2>1, <3>2, BelongsOf DEF PassOK
    <3> QED
      BY <1>3, <3>1, <3>2
  <2>4. p[1] # "retention"
    BY <1>3, SubjectDeletionConstants
  <2>5. RowFits(row) /\ RowSteady(c, row)
    BY <1>1, <1>2, <1>3, <2>1, <2>3, <2>4, ClaimedRow
  <2>6. row.status = "claimed"
    BY <1>2, RowsFit DEF claimed, IInv, RowFits, Conversation
  <2> HIDE DEF row
  <2>7. /\ conv' \in [Conversations -> Conversation] /\ conv'[c] = row
        /\ \A d \in Conversations : d # c => conv'[d] = conv[d]
    BY <1>2, <2>1, <2>5 DEF IInv, TypeOK, RowFits
  <2>8. \A d \in Conversations : RowSteady(d, conv'[d]) /\ RowFits(conv'[d])
    BY <1>1, <2>5, <2>7, SameRowSteady, RowsFit DEF IInv
  <2>9. \A d \in Conversations : RowFits(conv[d])'
    BY <1>1, <2>8 DEF RowFits
  <2>10. Steady
    BY <1>1, <2>8 DEF Steady, IInv, GoneUserLeavesNothing, Outlived, Closed
  <2>11. RestOK
    BY <1>1, <2>2 DEF RestOK, IInv, TypeOK
  <2>12. /\ Ahead(p)' = pass[p].todo
         /\ \A d \in Conversations : conv'[d].status = "active" =>
              d # c /\ conv'[d] = conv[d]
         /\ \A d \in Conversations : conv[d].status # "none" => conv'[d].status # "none"
    BY <2>2, <2>6, <2>7 DEF Ahead
  <2>13. \A d \in Conversations : conv'[d].status = "active" =>
            (Belongs(d, p[1])' <=> Belongs(d, p[1]))
    BY <2>12 DEF Belongs
  <2>14. PassOK(p)'
    <3>1. p[1] \in Users => Closed(p[1])'
      BY <1>1, <1>2 DEF PassOK, Closed
    <3>2. \A d \in pass[p].todo :
             /\ d \in Conversations /\ conv'[d].status # "none"
             /\ p[1] \in Users /\ conv'[d].status = "active" => Belongs(d, p[1])' \/ d \in taken'
      <4> SUFFICES ASSUME NEW d \in pass[p].todo
                   PROVE  /\ d \in Conversations /\ conv'[d].status # "none"
                          /\ p[1] \in Users /\ conv'[d].status = "active" =>
                                Belongs(d, p[1])' \/ d \in taken'
        OBVIOUS
      <4>1. /\ d \in Conversations /\ conv[d].status # "none"
            /\ p[1] \in Users /\ conv[d].status = "active" => Belongs(d, p[1]) \/ d \in taken
        BY <1>1, <1>2 DEF PassOK
      <4> QED
        BY <1>1, <2>12, <2>13, <4>1
    <3> QED
      BY <2>2, <2>12, <3>1, <3>2 DEF PassOK
  <2>15. p[1] \in Users \ late => NothingAhead(p)'
    <3> SUFFICES ASSUME p[1] \in Users \ late PROVE NothingAhead(p)'
      OBVIOUS
    <3>1. \A d \in Conversations : conv'[d].status = "active" /\ Belongs(d, p[1])' =>
             d \in Ahead(p)'
      BY <1>1, <1>2, <2>12, <2>13 DEF NothingAhead
    <3>2. ~pass'[p].personal => space'[p[1]] = "gone"
      BY <1>1, <1>2, <2>2 DEF NothingAhead
    <3> QED
      BY <2>2, <3>1, <3>2 DEF NothingAhead
  <2>16. TypeOK' /\ ConversationsOK' /\ CallsOK'
    BY <1>1, <2>7, <2>9, <2>10, <2>11, RowsAfter, CallsStay
  <2> QED
    BY <1>1, <2>2, <2>10, <2>14, <2>15, <2>16, Preservation
<1> QED
  BY <1>4, <1>5

\* The steps of an account that only look.
LEMMA CountSteps ==
    ASSUME IInv, NEW p \in Passes, RequireRunsEnded(p) \/ CountPendingCleanup(p)
    PROVE  IInv'
<1>1. /\ pass[p].at \in {"runs", "left"} /\ pass \in [Passes -> Pass] /\ pass[p] \in Pass
      /\ UNCHANGED <<user, space, conv, call, listed, late, taken>>
  BY DEF RequireRunsEnded, CountPendingCleanup, IInv, TypeOK
<1>2. PassOK(p) /\ (p[1] \in Users \ late => NothingAhead(p)) /\ p[1] \in Users
  BY <1>1, PassOfIInv DEF PassOK
<1>3. /\ \A c \in Conversations : Belongs(c, p[1])' <=> Belongs(c, p[1])
      /\ Closed(p[1])' /\ p[1] \in Places
  BY <1>1, <1>2 DEF Belongs, Closed, PassOK, Places
<1>4. CASE Ends(p)
  BY <1>1, <1>4, EndsOK, PassMoves
<1>5. CASE RequireRunsEnded(p) /\ ~Ends(p)
  <2>1. Goes(p, "left") /\ runsEnded(p[1]) /\ pass[p].at = "runs"
    BY <1>5 DEF RequireRunsEnded
  <2>2. /\ pass' \in [Passes -> Pass] /\ pass'[p].at = "left"
        /\ \A q \in Passes : q # p => pass'[q] = pass[q]
    BY <2>1, GoesOn
  <2>3. PassOK(p)'
    BY <1>2, <1>3, <2>2 DEF PassOK
  <2>4. p[1] \in Users \ late => NothingAhead(p)'
    BY <1>1, <1>2, <1>3, <2>1, <2>2 DEF NothingAhead, runsEnded
  <2> QED
    BY <1>1, <2>2, <2>3, <2>4, PassMoves
<1>6. CASE CountPendingCleanup(p) /\ ~Ends(p)
  <2>1. Goes(p, "gone") /\ (\A c \in Pending : conv[c].creator # p[1]) /\ pass[p].at = "left"
    BY <1>6 DEF CountPendingCleanup
  <2>2. /\ pass' \in [Passes -> Pass] /\ pass'[p].at = "gone"
        /\ \A q \in Passes : q # p => pass'[q] = pass[q]
    BY <2>1, GoesOn
  <2>3. PassOK(p)'
    BY <1>2, <1>3, <2>2 DEF PassOK
  <2>4. ASSUME p[1] \in Users \ late, NEW c \in Conversations, Belongs(c, p[1])
        PROVE  ~conv[c].data
    <3>1. RowFits(conv[c]) /\ Of(conv[c], p[1]) /\ conv[c].status # "active"
          /\ space[p[1]] = "gone"
      BY <1>2, <2>1, <2>4, RowsFit, BelongsOf DEF IInv, NothingAhead
    <3>2. conv[c].status # "none"
      BY <1>2, <3>1, FreeIsNobodys DEF RowFits
    <3>3. conv[c].status = "removed" => ~conv[c].data
      BY <3>1 DEF RowFits
    <3>4. conv[c].status = "claimed" /\ conv[c].data => conv[c].creator # p[1]
      BY <2>1 DEF Pending, With
    <3>5. conv[c].status = "claimed" => conv[c].place # p[1]
      BY <1>3, <3>1 DEF RowFits
    <3>6. conv[c].status \in {"none", "active", "claimed", "removed"}
      BY <3>1 DEF RowFits, Conversation
    <3> QED
      BY <3>1, <3>2, <3>3, <3>4, <3>5, <3>6 DEF Of
  <2>5. p[1] \in Users \ late => NothingAhead(p)'
    BY <1>1, <1>2, <1>3, <2>1, <2>2, <2>4 DEF NothingAhead
  <2> QED
    BY <1>1, <2>2, <2>3, <2>5, PassMoves
<1> QED
  BY <1>4, <1>5, <1>6

-----------------------------------------------------------------------------
(* The end of a deletion. *)

\* A workspace goes with the rows of what was claimed in it.
LEMMA SpaceGone ==
    ASSUME IInv, NEW p \in Passes, pass[p].at = "space", removable(p[1]),
           space' = [space EXCEPT ![p[1]] = "gone"],
           conv' = [c \in Conversations |->
                      IF c \in In(p[1]) \cap With("claimed")
                      THEN [conv[c] EXCEPT !.status = "removed", !.run = Null]
                      ELSE conv[c]],
           UNCHANGED <<user, call, listed, late, taken>>, pass' \in [Passes -> Pass],
           \A q \in Passes : q # p => pass'[q] = pass[q],
           PassOK(p)', p[1] \in Users \ late => NothingAhead(p)'
    PROVE  IInv'
<1>1. p[1] \in Places /\ p[1] # Null
  BY PassSubject, SubjectDeletionConstants
<1>2. /\ space' \in [Places -> {"open", "marked", "gone"}] /\ space'[p[1]] = "gone"
      /\ \A x \in Places : x # p[1] => space'[x] = space[x]
  BY <1>1 DEF IInv, TypeOK
<1>3. ASSUME NEW c \in Conversations
      PROVE  RowFits(conv[c])' /\ RowSteady(c, conv'[c]) /\ conv'[c] \in Conversation
  <2>1. /\ RowFits(conv[c]) /\ conv[c] \in Conversation
        /\ RowSteady(c, conv[c]) /\ taken' = taken
        /\ late' = late /\ user' = user
    BY RowsFit, SameRowSteady DEF IInv, TypeOK
  <2>2. CASE conv[c].place = p[1] /\ conv[c].status = "claimed"
    <3> DEFINE row == [conv[c] EXCEPT !.status = "removed", !.run = Null]
    <3>1. conv'[c] = row
      BY <2>2 DEF In, With
    <3>2. /\ row \in Conversation /\ row.status = "removed" /\ row.run = Null
          /\ row.place = conv[c].place /\ row.private = conv[c].private
          /\ row.creator = conv[c].creator /\ row.data = conv[c].data
          /\ row.due = conv[c].due /\ row.claim = conv[c].claim
      BY <2>1 DEF Conversation
    <3> HIDE DEF row
    <3>3. ~row.data
      BY <2>2, <3>2 DEF removable, Pending, In, With
    <3>4. RowFits(conv[c])'
      BY <2>1, <2>2, <3>1, <3>2, <3>3 DEF RowFits
    <3>5. \A x : Of(row, x) <=> Of(conv[c], x)
      BY <3>2 DEF Of
    <3>6. \A x \in Users : row.run # x
      BY <3>2, SubjectDeletionConstants DEF Places
    <3>7. RowSteady(c, row)
      BY <2>1, <2>2, <3>2, <3>3, <3>5, <3>6 DEF RowSteady
    <3> QED
      BY <3>1, <3>2, <3>4, <3>7
  <2>3. CASE ~(conv[c].place = p[1] /\ conv[c].status = "claimed")
    <3>1. conv'[c] = conv[c]
      BY <2>3 DEF In, With
    <3>2. conv[c].place = p[1] => conv[c].status = "removed"
      <4> SUFFICES ASSUME conv[c].place = p[1] PROVE conv[c].status = "removed"
        OBVIOUS
      <4>1. conv[c].status # "active"
        BY DEF removable, In, With
      <4>2. conv[c].status # "none"
        <5>1. NoConversation.place = Null
          BY DEF NoConversation
        <5>2. conv[c].status = "none" => conv[c] = NoConversation
          BY <2>1 DEF RowFits
        <5> QED
          BY <1>1, <5>1, <5>2
      <4> QED
        BY <2>1, <2>3, <4>1, <4>2 DEF Conversation
    <3>3. conv[c].status = "active" => space'[conv[c].place] # "gone"
      BY <1>2, <2>1, <3>2 DEF RowFits
    <3>4. \A x \in Places : space'[x] = "gone" /\ conv[c].place = x => conv[c].status = "removed"
      BY <1>2, <2>1, <3>2 DEF RowFits
    <3>5. RowFits(conv[c])'
      BY <2>1, <3>1, <3>3, <3>4 DEF RowFits
    <3> QED
      BY <2>1, <3>1, <3>5
  <2> QED
    BY <2>2, <2>3
<1>4. conv' \in [Conversations -> Conversation]
  BY <1>3
<1>5. \A u \in Users : space'[u] # "marked"
  BY <1>1, <1>2 DEF IInv, TypeOK, Places
<1>6. RestOK
  BY <1>2, <1>5 DEF RestOK, IInv, TypeOK
<1>7. Steady
  BY <1>2, <1>3 DEF Steady, IInv, GoneUserLeavesNothing, Outlived, Closed
<1>8. TypeOK' /\ ConversationsOK' /\ CallsOK'
  BY <1>3, <1>4, <1>6, <1>7, RowsAfter, CallsStay
<1> QED
  BY <1>7, <1>8, Preservation

\* The removal of a workspace.
LEMMA DeleteSpaceStep == ASSUME IInv, NEW p \in Passes, DeleteSpace(p) PROVE IInv'
<1>1. /\ pass[p].at = "space" /\ UNCHANGED <<user, call, listed, late, taken>>
      /\ PassOK(p) /\ (p[1] \in Users \ late => NothingAhead(p))
  BY PassOfIInv DEF DeleteSpace
<1>2. p[1] \in Users => Closed(p[1])' /\ p[1] \in Places
  BY <1>1 DEF PassOK, Closed, Places
<1>3. CASE p[1] \in Users /\ ~pass[p].personal
  <2>1. Goes(p, "runs") /\ UNCHANGED <<user, space, conv, call, listed, late, taken>>
    BY <1>3 DEF DeleteSpace
  <2>2. /\ pass' \in [Passes -> Pass] /\ pass'[p].at = "runs"
        /\ \A q \in Passes : q # p => pass'[q] = pass[q]
    BY <2>1, GoesOn
  <2>3. PassOK(p)'
    BY <1>2, <1>3, <2>2 DEF PassOK
  <2>4. \A c \in Conversations : Belongs(c, p[1])' <=> Belongs(c, p[1])
    BY <2>1 DEF Belongs
  <2>5. p[1] \in Users \ late => NothingAhead(p)'
    BY <1>1, <1>3, <2>1, <2>2, <2>4 DEF NothingAhead
  <2> QED
    BY <2>1, <2>2, <2>3, <2>5, PassMoves
<1>4. CASE ~(p[1] \in Users /\ ~pass[p].personal) /\ ~removable(p[1])
  <2>1. Ends(p) /\ UNCHANGED <<user, space, conv, call, listed, late, taken>>
    BY <1>4 DEF DeleteSpace
  <2> QED
    BY <2>1, EndsOK, PassMoves
<1>5. CASE ~(p[1] \in Users /\ ~pass[p].personal) /\ removable(p[1])
  <2>1. /\ space' = [space EXCEPT ![p[1]] = "gone"]
        /\ conv' = [c \in Conversations |->
                      IF c \in In(p[1]) \cap With("claimed")
                      THEN [conv[c] EXCEPT !.status = "removed", !.run = Null]
                      ELSE conv[c]]
        /\ IF p[1] \in Users THEN Goes(p, "runs") ELSE Ends(p)
    BY <1>5 DEF DeleteSpace
  <2>2. CASE p[1] \notin Users
    BY <1>1, <1>5, <2>1, <2>2, EndsOK, SpaceGone
  <2>3. CASE p[1] \in Users
    <3>1. /\ pass' \in [Passes -> Pass] /\ pass'[p].at = "runs"
          /\ \A q \in Passes : q # p => pass'[q] = pass[q]
      BY <2>1, <2>3, GoesOn
    <3>2. PassOK(p)'
      BY <1>2, <2>3, <3>1 DEF PassOK
    <3>3. ASSUME p[1] \in Users \ late, NEW c \in Conversations, Belongs(c, p[1])'
          PROVE  conv'[c].status # "active"
      <4>1. /\ conv'[c].place = conv[c].place /\ conv'[c].private = conv[c].private
            /\ conv'[c].creator = conv[c].creator
            /\ conv'[c].status = "active" => conv[c].status = "active"
        <5>1. conv[c] \in Conversation
          BY DEF IInv, TypeOK
        <5> QED
          BY <2>1, <5>1 DEF Conversation
      <4>2. Belongs(c, p[1])
        BY <3>3, <4>1 DEF Belongs
      <4> QED
        BY <1>1, <3>3, <4>1, <4>2 DEF NothingAhead
    <3>4. space'[p[1]] = "gone"
      BY <1>2, <2>1, <2>3 DEF IInv, TypeOK
    <3>5. p[1] \in Users \ late => NothingAhead(p)'
      <4> SUFFICES ASSUME p[1] \in Users \ late PROVE NothingAhead(p)'
        OBVIOUS
      <4>1. \A c \in Conversations : Belongs(c, p[1])' => conv'[c].status # "active"
        BY <3>3
      <4> QED
        BY <3>1, <3>4, <4>1 DEF NothingAhead
    <3> QED
      BY <1>1, <1>5, <2>1, <3>1, <3>2, <3>5, SpaceGone
  <2> QED
    BY <2>2, <2>3
<1> QED
  BY <1>3, <1>4, <1>5

\* The account goes last.
LEMMA DeleteUserStep == ASSUME IInv, NEW p \in Passes, DeleteUser(p) PROVE IInv'
<1>1. /\ pass[p].at = "gone" /\ Ends(p) /\ user' = [user EXCEPT ![p[1]] = "gone"]
      /\ UNCHANGED <<space, conv, call, listed, late, taken>>
      /\ PassOK(p) /\ (p[1] \in Users \ late => NothingAhead(p))
  BY PassOfIInv DEF DeleteUser
<1>2. p[1] \in Users /\ Closed(p[1])
  BY <1>1 DEF PassOK
<1>3. /\ user' \in [Users -> {"active", "marked", "gone"}] /\ user'[p[1]] = "gone"
      /\ \A u \in Users : u # p[1] => user'[u] = user[u]
  BY <1>1, <1>2 DEF IInv, TypeOK
<1>4. /\ pass' \in [Passes -> Pass] /\ PassOK(p)' /\ NothingAhead(p)'
      /\ \A q \in Passes : q # p => pass'[q] = pass[q]
  BY <1>1, EndsOK
<1>5. p[1] \notin late => Outlived(p[1])
  BY <1>1, <1>2 DEF NothingAhead, Outlived
<1>6. ASSUME NEW u \in Users, user'[u] = "gone", u \notin late PROVE Closed(u) /\ Outlived(u)
  <2>1. CASE u = p[1]
    BY <1>2, <1>5, <1>6, <2>1
  <2>2. CASE u # p[1]
    BY <1>3, <1>6, <2>2 DEF IInv, GoneUserLeavesNothing, Outlived, Closed
  <2> QED
    BY <2>1, <2>2
<1>7. \A c \in Conversations : RowSteady(c, conv'[c]) /\ RowFits(conv[c])'
  BY <1>1, SameRowSteady, RowsFit DEF IInv, RowFits
<1>8. \A u \in Users : Closed(u) => user'[u] # "active"
  BY <1>3 DEF Closed
<1>9. Steady
  BY <1>1, <1>6, <1>7, <1>8 DEF Steady
<1>10. RestOK /\ conv' \in [Conversations -> Conversation]
  BY <1>1, <1>3, <1>4 DEF RestOK, IInv, TypeOK
<1> QED
  BY <1>1, <1>4, <1>7, <1>9, <1>10, RowsAfter, CallsStay, Preservation

-----------------------------------------------------------------------------
(* The theorems. *)

\* Nothing is there yet, and nothing is asked.
LEMMA InitOK == Init => IInv
<1> SUFFICES ASSUME Init PROVE IInv
  OBVIOUS
<1>1. NoConversation \in Conversation /\ ToBegin \in Pass
  BY DEF NoConversation, Conversation, ToBegin, Pass
<1>2. \A c \in Conversations : conv[c] = NoConversation
  BY DEF Init
<1>3. \A p \in Passes : pass[p].at = "list"
  BY DEF Init, ToBegin
<1>4. /\ user \in [Users -> {"active", "marked", "gone"}]
      /\ space \in [Places -> {"open", "marked", "gone"}]
      /\ \A u \in Users : space[u] # "marked"
      /\ listed \subseteq Conversations /\ late \subseteq Users /\ taken \subseteq Conversations
  BY DEF Init, Places
<1>5. /\ conv \in [Conversations -> Conversation] /\ call \in [Calls -> Call \cup {Null}]
      /\ pass \in [Passes -> Pass]
  BY <1>1 DEF Init
<1>6. /\ NoConversation.status = "none" /\ NoConversation.claim = Null
      /\ NoConversation.run = Null /\ ~NoConversation.data /\ NoConversation.place = Null
  BY DEF NoConversation
<1>7. TypeOK
  BY <1>2, <1>4, <1>5, <1>6 DEF TypeOK
<1>8. ConversationsOK
  BY <1>2, <1>6, SubjectDeletionConstants DEF ConversationsOK
<1>9. CallsOK /\ GoneUserLeavesNothing
  BY DEF Init, CallsOK, GoneUserLeavesNothing
<1>10. PassesOK /\ PassesEmpty
  BY <1>3 DEF PassesOK, PassOK, PassesEmpty, NothingAhead
<1>11. ClaimedWasTheirs
  BY <1>2, <1>6, SubjectDeletionConstants DEF ClaimedWasTheirs
<1> QED
  BY <1>7, <1>8, <1>9, <1>10, <1>11 DEF IInv

\* Every step keeps the invariant.
LEMMA StepOK == IInv /\ [Next]_vars => IInv'
<1> SUFFICES ASSUME IInv, [Next]_vars PROVE IInv'
  OBVIOUS
<1>1. CASE UNCHANGED vars
  <2>1. UNCHANGED <<user, space, conv, pass, late, taken>> /\ RestOK
    BY <1>1 DEF vars, RestOK, IInv, TypeOK
  <2>2. CallsOK'
    BY <1>1 DEF vars, IInv, CallsOK
  <2> QED
    BY <2>1, <2>2, QuietStep
<1>2. CASE \E k \in Calls : UserCall(k) \/ Commit(k)
  BY <1>2, LetInStep, CommitStep
<1>3. CASE \E c \in Conversations :
              RunWrites(c) \/ RunEnds(c) \/ BecomesDue(c) \/ ExpireConversation(c) \/ CleanUp(c)
  BY <1>3, DataSteps, ExpireStep
<1>4. CASE ListExpired
  BY <1>4, ListExpiredStep
<1>5. CASE \E x \in Deletable : Accept(x)
  BY <1>5, AcceptStep
<1>6. CASE \E p \in Passes : PassSteps(p)
  BY <1>6, ListStep, LookStep, DeleteConversationStep, DeleteSpaceStep, CountSteps,
     DeleteUserStep DEF PassSteps
<1> QED
  BY <1>1, <1>2, <1>3, <1>4, <1>5, <1>6 DEF Next

\* Whatever calls come through late, wherever passes stop.
THEOREM Invariance == Spec => []IInv
BY InitOK, StepOK, PTL DEF Spec

\* The state keeps the types of the tables: what is not claimed was claimed by nobody, and no
\* active conversation is in a place that is gone.
THEOREM TypeCorrect == Spec => []TypeOK
<1>1. IInv => TypeOK
  BY DEF IInv
<1> QED
  BY <1>1, Invariance, PTL

\* The rows that lead to what is stored go only after what is stored
\* (requireNoPendingConversationCleanup, deleteWorkspace).
THEOREM NothingStoredIsLost == Spec => []RemovedHoldsNoData
<1>1. IInv => RemovedHoldsNoData
  BY DEF IInv, ConversationsOK, RemovedHoldsNoData, With
<1> QED
  BY <1>1, Invariance, PTL

\* A deletion removes what is its subject's when it is removed, and nothing else but what a move
\* took from the account after the mark (deleteConversation).
THEOREM NothingOfOthersIsClaimed == Spec => []ClaimedWasTheirs
<1>1. IInv => ClaimedWasTheirs
  BY DEF IInv
<1> QED
  BY <1>1, Invariance, PTL

\* Retention takes nothing a message kept or a run works in, whatever it had listed
\* (expireConversation).
THEOREM NothingKeptExpires == Spec => []ExpiredWasDue
<1>1. IInv => ExpiredWasDue
  BY DEF IInv, ConversationsOK, ExpiredWasDue
<1> QED
  BY <1>1, Invariance, PTL

\* Nothing of an account outlives it, unless a call of theirs came through after the mark
\* (completeAccountDeletion).
THEOREM NothingOutlivesTheUser == Spec => []GoneUserLeavesNothing
<1>1. IInv => GoneUserLeavesNothing
  BY DEF IInv
<1> QED
  BY <1>1, Invariance, PTL
=============================================================================
