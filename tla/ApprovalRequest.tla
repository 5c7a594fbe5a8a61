--------------------------- MODULE ApprovalRequest ---------------------------
(***************************************************************************)
(* Approval requests for changes of skills: the workflow of                *)
(* packages/chat-server/src/approval-request-workflow.ts, its handler      *)
(* skill-change-approval-handler.ts, and the people who edit the same      *)
(* assets through packages/chat-server/src/asset-workflow.ts.              *)
(* A decision holds the row of its request locked while the handler works. *)
(* The handler writes assets in transactions of its own, on other          *)
(* connections: they are not undone when the decision fails.               *)
(***************************************************************************)
EXTENDS ConfigAssets

CONSTANTS
    Requests,
    Changes,        \* what a request may ask for: [type, skill, agent, old, new]
    Deciders,       \* calls that decide, withdraw or revert
    Editors,        \* calls that write assets
    Edits,          \* what editors write: sets of names they write together, contents by name
    Initially,      \* the assets there are at first
    MaxVersion      \* bound: how many batches are written

\* "refused" stands for rejected, changes_requested and withdrawn: their paths are the same.
Statuses == {"none", "pending", "approved", "refused", "superseded", "reverted"}

\* The history of an asset is one of definitions of its name, by these requests or by none, and the
\* store's record of its state agrees with it.
WellFormed(asset, n, requests) ==
    /\ asset.status \in {"none", "active", "deleted"}
    /\ asset.history \in Seq([operation: Operations, config: {Null} \cup ConfigOf(n),
                              origin: {Null} \cup requests])
    /\ asset.status = "none" <=> asset.history = <<>>
    /\ asset.status = "active" => Last(asset.history).config # Null
    /\ asset.status = "deleted" => Last(asset.history).config = Null

ASSUME ApprovalRequestConstants ==
    /\ Null \notin Requests /\ Null \notin Deciders /\ MaxVersion \in Nat
    /\ Edits.together \subseteq SUBSET Names /\ \A n \in Names : Edits.contents[n] \subseteq ConfigOf(n)
    /\ Changes \subseteq [type: {"create", "replace", "append"}, skill: Skills, agent: Agents,
                          old: Texts \cup {Null}, new: Texts]
    /\ Initially.version \in Nat /\ Initially.default \in Agents \cup {Null} /\ Valid(Initially)
    /\ \A n \in Names : WellFormed(Initially.assets[n], n, {})

VARIABLES
    store,      \* config_asset_state, config_assets and config_asset_revisions
    status,     \* approval_requests: the state of a request ...
    change,     \* ... and the change it asks for
    lock,       \* which decision holds the row of a request locked
    work,       \* where each decision is
    edit,       \* what each editor has checked and not yet written
    lost        \* history: requests a decision of which lost its connection and went on

vars == <<store, status, change, lock, work, edit, lost>>

Idle == [at |-> "idle", request |-> Null, decision |-> Null, version |-> 0, batch |-> Null,
         outcome |-> Null]

\* A decision under way is of a request, whose lock it holds unless its connection was lost.
TypeOK ==
    /\ store.version \in Nat /\ store.default \in Agents \cup {Null}
    /\ \A n \in Names : WellFormed(store.assets[n], n, Requests)
    /\ status \in [Requests -> Statuses]
    /\ \A q \in Requests : IF status[q] = "none" THEN change[q] = Null ELSE change[q] \in Changes
    /\ lock \in [Requests -> Deciders \cup {Null}]
    /\ \A d \in Deciders :
          /\ work[d].at \in {"idle", "version", "read", "write", "record"}
          /\ work[d].at # "idle" => lock[work[d].request] = d \/ work[d].request \in lost
    /\ lost \subseteq Requests

Init ==
    /\ store = Initially
    /\ status = [q \in Requests |-> "none"]
    /\ change = [q \in Requests |-> Null]
    /\ lock = [q \in Requests |-> Null]
    /\ work = [d \in Deciders |-> Idle]
    /\ edit = [e \in Editors |-> Null]
    /\ lost = {}

-----------------------------------------------------------------------------
\* The skill a request changes, and the revisions the request made of it.

History(s, q) == IF status[q] = "none" THEN <<>> ELSE s.assets[change[q].skill].history

\* findRequestRevision, of all there are: its own change, not the undoing of it.
ProducedIn(history, q) ==
    {i \in DOMAIN history : history[i].origin = q /\ history[i].operation \notin {"revert", "delete"}}
Produced(s, q) == ProducedIn(History(s, q), q)

\* The content of the skill a request changes, or Null while there is none.
Content(s, q) == IF Active(s, change[q].skill) THEN Config(s, change[q].skill) ELSE Null

\* applySkillChange refuses unless the change fits: what it creates is not there, what it changes is.
Fits(q, config) ==
    LET c == change[q]
    IN CASE c.type = "create" -> config = Null
         [] c.type = "append" -> config # Null
         [] c.type = "replace" -> config # Null /\ c.old \in config

Applicable(s, q) == Fits(q, Content(s, q))

\* The content a change makes of one it fits.
Changed(q, config) ==
    LET c == change[q]
    IN CASE c.type = "create" -> {c.new}
         [] c.type = "append" -> config \cup {c.new}
         [] c.type = "replace" -> (config \ {c.old}) \cup {c.new}

\* The agent that asked is there and has the skill, unless it asked for a new one.
InScope(s, q) ==
    /\ Active(s, change[q].agent)
    /\ change[q].type = "create" \/ change[q].skill \in Config(s, change[q].agent)

isStale(s, q) == Produced(s, q) = {} /\ ~(InScope(s, q) /\ Applicable(s, q))

\* Mutant: whether the change is live already is not asked.
isApplied_never(s, q) == FALSE

isApplied(s, q) == Produced(s, q) # {}

\* What apply writes.
ApplyBatch(s, q) ==
    LET c == change[q]
    IN Batch([n \in {c.skill} \cup (IF c.type = "create" THEN {c.agent} ELSE {}) |->
                 IF n = c.skill THEN Upsert(Changed(q, Content(s, q)), Null)
                 ELSE Upsert(Config(s, c.agent) \cup {c.skill}, Null)], "keep", q)

\* Where in the history the revision is that revert undoes.
applied(s, q) == CHOOSE i \in Produced(s, q) : \A j \in Produced(s, q) : i <= j

\* A revert of this request that committed before its decision did.
revertedAlready(s, q) ==
    LET last == Last(History(s, q)) IN last.origin = q /\ last.operation \in {"revert", "delete"}

revertible(s, q) ==
    /\ Produced(s, q) # {}
    /\ applied(s, q) = Len(History(s, q))
    /\ change[q].type # "create" => applied(s, q) > 1 /\ History(s, q)[applied(s, q) - 1].config # Null

RevertBatch(s, q) ==
    LET c == change[q]
        uncreates == c.type = "create"
    IN Batch([n \in {c.skill} \cup (IF uncreates /\ Active(s, c.agent) THEN {c.agent} ELSE {}) |->
                 IF n = c.agent THEN Upsert(Config(s, c.agent) \ {c.skill}, "revert")
                 ELSE IF uncreates THEN Delete
                 ELSE Upsert(History(s, q)[applied(s, q) - 1].config, "revert")], "keep", q)

-----------------------------------------------------------------------------
\* createApprovalRequest.
CreateRequest(q, c) ==
    /\ status[q] = "none"
    /\ change' = [change EXCEPT ![q] = c]
    /\ status' = [status EXCEPT ![q] = "pending"]
    /\ UNCHANGED <<store, lock, work, edit, lost>>

Ends(d) == work' = [work EXCEPT ![d] = Idle]
Unlocks(d) == lock' = [q \in Requests |-> IF lock[q] = d THEN Null ELSE lock[q]]

\* What a decision throws rolls its transaction back.
Fails(d) == Ends(d) /\ Unlocks(d)

decidable(q, decision) == status[q] = IF decision = "revert" THEN "approved" ELSE "pending"

Outcome(decision) == IF decision = "approve" THEN "approved" ELSE "reverted"

\* transition locks the row and requires its status, or answers a conflict; then decideRequest and
\* withdrawRequest look at the assets up to the handler's apply, and revertRequest up to its revert.
\* What depends on the row does so from its lock on, so both are one step.
Begin(d, q, decision) ==
    LET decides(outcome) == /\ lock' = [lock EXCEPT ![q] = d]
                            /\ work' = [work EXCEPT ![d] = [Idle EXCEPT !.at = "record",
                                            !.request = q, !.decision = decision, !.outcome = outcome]]
        goesOn == /\ lock' = [lock EXCEPT ![q] = d]
                  /\ work' = [work EXCEPT ![d] = [Idle EXCEPT !.at = "version", !.request = q,
                                                              !.decision = decision]]
    IN /\ work[d] = Idle
       /\ lock[q] = Null
       /\ decidable(q, decision)
       /\ \/ decision = "refuse" /\ ~isApplied(store, q) /\ decides("refused")
          \/ decision = "approve" /\ isStale(store, q) /\ decides("superseded")
          \/ decision = "approve" /\ ~isStale(store, q) /\ goesOn
          \/ decision = "revert" /\ goesOn
       /\ UNCHANGED <<store, status, change, edit, lost>>

Decides(d, outcome) == work' = [work EXCEPT ![d].outcome = outcome, ![d].at = "record"]

\* loadMutationSnapshot: the version first ...
ReadVersion(d) ==
    /\ work[d].at = "version"
    /\ work' = [work EXCEPT ![d].version = store.version, ![d].at = "read"]
    /\ UNCHANGED <<store, status, change, lock, edit, lost>>

\* Mutant: only what the skill is now is looked at.
appliedAlready_now(s, q) == isApplied(s, q) /\ Last(History(s, q)).origin = q

\* findProducedRevision.
appliedAlready(s, q) == isApplied(s, q)

\* ... then the assets and the history.  A change that is live already is only recorded.
ReadAssets(d) ==
    /\ work[d].at = "read"
    /\ LET q == work[d].request
           plan(b) == work' = [work EXCEPT ![d].batch = b, ![d].at = "write"] /\ UNCHANGED lock
           recorded == Decides(d, Outcome(work[d].decision)) /\ UNCHANGED lock
       IN IF work[d].decision = "approve"
          THEN \/ appliedAlready(store, q) /\ recorded
               \/ /\ ~appliedAlready(store, q)
                  /\ IF InScope(store, q) /\ Applicable(store, q) THEN plan(ApplyBatch(store, q))
                     ELSE Fails(d)
          ELSE \/ revertedAlready(store, q) /\ recorded
               \/ /\ ~revertedAlready(store, q)
                  /\ IF revertible(store, q) THEN plan(RevertBatch(store, q)) ELSE Fails(d)
    /\ UNCHANGED <<store, status, change, edit, lost>>

\* Mutant: the batch is made against what is there when it is written.
baseVersion_atWrite(d) == store.version

\* The version of the snapshot the batch was made from.
baseVersion(d) == work[d].version

\* applyValidatedConfigAssetMutations: a conflict or an invalid set is thrown.
WriteAssets(d) ==
    /\ work[d].at = "write"
    /\ store.version < MaxVersion
    /\ LET next == Applied(store, work[d].batch)
       IN IF VersionHolds(store, baseVersion(d)) /\ Valid(next) /\ DefaultHolds(next)
          THEN store' = next /\ Decides(d, Outcome(work[d].decision)) /\ UNCHANGED lock
          ELSE Fails(d) /\ UNCHANGED store
    /\ UNCHANGED <<status, change, edit, lost>>

\* Mutant: the outcome is not part of the transaction that locked the row.
holdsRow_unasked(d) == TRUE

holdsRow(d) == lock[work[d].request] = d

\* The rest of transition, and its commit.  Without its connection it is nothing.
Record(d) ==
    /\ work[d].at = "record"
    /\ status' = IF holdsRow(d) THEN [status EXCEPT ![work[d].request] = work[d].outcome] ELSE status
    /\ Fails(d)
    /\ UNCHANGED <<store, change, edit, lost>>

\* The process dies, or the database refuses a statement.
Die(d) ==
    /\ work[d] # Idle
    /\ Fails(d)
    /\ UNCHANGED <<store, status, change, edit, lost>>

\* The connection that holds the lock is lost while the handler works.
LoseConnection(d) ==
    /\ work[d].at \notin {"idle", "record"}
    /\ lock[work[d].request] = d
    /\ Unlocks(d)
    /\ lost' = lost \cup {work[d].request}
    /\ UNCHANGED <<store, status, change, work, edit>>

-----------------------------------------------------------------------------
\* put, delete and revert of AssetWorkflow and the batches of syncAssets, up to the write: each item
\* is made against the revision its caller read, and the set it would leave is checked.

Items(n) ==
    [type: {"upsert"}, config: Edits.contents[n], operation: {Null}]
        \cup (IF Active(store, n) THEN {Delete} ELSE {})
        \cup {Upsert(store.assets[n].history[i].config, "revert") :
                 i \in {j \in DOMAIN store.assets[n].history : store.assets[n].history[j].config # Null}}

\* setsInitialDefault and clearsLastDefault.
DefaultOf(mutations) ==
    LET agents == DOMAIN mutations \cap Agents
        left == ActiveOf([store EXCEPT !.assets = Applied(store, Batch(mutations, "keep", Null)).assets],
                         Agents)
    IN IF ActiveOf(store, Agents) = {} /\ store.default = Null /\ agents # {}
       THEN CHOOSE a \in agents : TRUE
       ELSE IF left = {} /\ store.default # Null THEN Null ELSE "keep"

EditorReads(e, names) ==
    /\ edit[e] = Null
    /\ \E mutations \in {f \in [names -> UNION {Items(n) : n \in names}] :
                            \A n \in names : f[n] \in Items(n)} :
          LET b == Batch(mutations, DefaultOf(mutations), Null)
          IN /\ Valid(Applied(store, b))
             /\ edit' = [edit EXCEPT ![e] =
                    [batch |-> b, baseDefault |-> store.default,
                     baseRevisions |-> [n \in names |->
                         IF Active(store, n) \/ (mutations[n].type = "upsert" /\ mutations[n].operation = "revert")
                         THEN Revision(store, n) ELSE Null]]]
    /\ UNCHANGED <<store, status, change, lock, work, lost>>

\* The write itself, which checks the revisions once more under the lock of the store.
EditorWrites(e) ==
    /\ edit[e] # Null
    /\ store.version < MaxVersion
    /\ LET next == Applied(store, edit[e].batch)
       IN store' = IF /\ RevisionsHold(store, edit[e].batch, edit[e].baseRevisions,
                                       edit[e].baseDefault)
                      /\ DefaultHolds(next)
                   THEN next ELSE store
    /\ edit' = [edit EXCEPT ![e] = Null]
    /\ UNCHANGED <<status, change, lock, work, lost>>

-----------------------------------------------------------------------------
Decision(d) ==
    \/ \E q \in Requests, decision \in {"approve", "refuse", "revert"} : Begin(d, q, decision)
    \/ ReadVersion(d) \/ ReadAssets(d) \/ WriteAssets(d) \/ Record(d)
    \/ Die(d) \/ LoseConnection(d)

Next ==
    \/ \E q \in Requests, c \in Changes : CreateRequest(q, c)
    \/ \E d \in Deciders : Decision(d)
    \/ \E e \in Editors :
          EditorWrites(e) \/ \E names \in Edits.together : EditorReads(e, names)

Spec == Init /\ [][Next]_vars

-----------------------------------------------------------------------------
\* A request changes its skill at most once, although its change may commit and its decision fail,
\* be made again, or be made twice at once after a lost connection (apply, findProducedRevision).
AppliedOnce == \A q \in Requests : Cardinality(Produced(store, q)) <= 1

\* A decided request and the assets agree: what was approved is in the history, what was refused or
\* superseded is not, unless a decision went on without its connection (assertNotApplied).
DecisionMatchesAssets ==
    /\ TypeOK
    /\ \A q \in Requests :
        /\ status[q] \in {"approved", "reverted"} => Produced(store, q) # {}
        /\ status[q] \in {"refused", "superseded"} /\ q \notin lost
               => Produced(store, q) = {}

\* What stood before a revision: no skill, before the first one and after one that deletes.
Before(history, i) == IF i = 1 THEN Null ELSE history[i - 1].config

\* What a request made is its change of the very content it replaced, it created its skill where
\* there was none, and what undoes a request undoes nothing else: a write of somebody else between
\* reading and writing is never lost (applyConfigAssetMutations).
NothingOverwritten ==
    \A q \in Requests :
        LET h == History(store, q)
        IN \A i \in DOMAIN h :
              h[i].origin = q =>
                  IF h[i].operation \in {"revert", "delete"} THEN i - 1 \in Produced(store, q)
                  ELSE Fits(q, Before(h, i)) /\ h[i].config = Changed(q, Before(h, i))

\* A decision is final: only an approved request changes again, when it is reverted (transition).
DecidedIsFinal ==
    [][\A q \in Requests : status[q] \notin {"none", "pending"} =>
          \/ status'[q] = status[q]
          \/ status[q] = "approved" /\ status'[q] = "reverted"]_vars
=============================================================================
