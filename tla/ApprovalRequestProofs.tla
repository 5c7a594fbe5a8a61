------------------------ MODULE ApprovalRequestProofs ------------------------
(***************************************************************************)
(* Proofs about ApprovalRequest, for any number of requests, changes,      *)
(* people who decide and people who edit, and any assets at first.         *)
(***************************************************************************)
EXTENDS ApprovalRequest, SequenceTheorems, FiniteSetTheorems, TLAPS

-----------------------------------------------------------------------------
(* The inductive invariant. *)

Undoing == {"revert", "delete"}

\* A request that was not made has no revision.
NobodysYet ==
    \A q \in Requests : status[q] = "none" =>
        \A n \in Names : \A i \in DOMAIN store.assets[n].history :
            store.assets[n].history[i].origin # q

OneChange == \A q \in Requests : \A i, j \in Produced(store, q) : i = j

\* What was decided and the assets agree.
DecidedOK ==
    \A q \in Requests :
        /\ status[q] \in {"approved", "reverted"} => Produced(store, q) # {}
        /\ status[q] \in {"refused", "superseded"} /\ q \notin lost => Produced(store, q) = {}

\* The fields of a decision; of a batch nothing is said here.
WorkTyped ==
    /\ DOMAIN work = Deciders
    /\ \A d \in Deciders :
          work[d] \in [at: {"idle", "version", "read", "write", "record"},
                       request: Requests \cup {Null},
                       decision: {"approve", "refuse", "revert", Null}, version: Nat,
                       batch: {work[d].batch}, outcome: Statuses \cup {Null}]

\* What is planned to be written is right if nobody writes in between.
PlanOK(d, q) ==
    /\ work[d].decision = "approve" =>
          /\ Produced(store, q) = {} /\ InScope(store, q) /\ Applicable(store, q)
          /\ work[d].batch = ApplyBatch(store, q)
    /\ work[d].decision = "revert" =>
          revertible(store, q) /\ work[d].batch = RevertBatch(store, q)

\* A decision that holds the lock finds the request as it was; what it is about to record it has
\* found or made of the assets.
DecisionOK(d, q) ==
    /\ q \in Requests /\ status[q] # "none"
    /\ lock[q] = d => decidable(q, work[d].decision)
    /\ work[d].decision \in {"approve", "refuse", "revert"}
    /\ work[d].decision = "revert" => Produced(store, q) # {}
    /\ work[d].at # "record" => work[d].decision # "refuse"
    /\ work[d].version <= store.version
    /\ work[d].at = "write" /\ work[d].version = store.version => PlanOK(d, q)
    /\ work[d].at = "record" =>
          /\ work[d].outcome \in {"approved", "refused", "superseded", "reverted"}
          /\ work[d].outcome = "reverted" <=> work[d].decision = "revert"
          /\ work[d].outcome = "approved" => Produced(store, q) # {}
          /\ work[d].outcome \in {"refused", "superseded"} /\ q \notin lost =>
                Produced(store, q) = {}

DecisionsOK == \A d \in Deciders : work[d].at # "idle" => DecisionOK(d, work[d].request)

\* A mutation says of an asset what an asset of its name may say.
MutationOK(n, m) ==
    m = Delete \/ \E config \in ConfigOf(n), operation \in {Null, "revert"} :
                     m = Upsert(config, operation)

BatchOK(b) ==
    /\ \A n \in DOMAIN b.mutations : n \in Names /\ MutationOK(n, b.mutations[n])
    /\ b.default \in Agents \cup {Null, "keep"}

\* Editors write for no request.
EditsOK ==
    /\ DOMAIN edit = Editors
    /\ \A e \in Editors : edit[e] # Null => BatchOK(edit[e].batch) /\ edit[e].batch.origin = Null

IInv ==
    /\ TypeOK /\ WorkTyped /\ DOMAIN change = Requests /\ NobodysYet /\ OneChange /\ NothingOverwritten
    /\ DecidedOK /\ DecisionsOK /\ EditsOK

-----------------------------------------------------------------------------
(* Assets. *)

USE ConfigAssetsConstants, ApprovalRequestConstants

\* The revisions the asset of a name may have.
RevisionOf(n) ==
    [operation: Operations, config: {Null} \cup ConfigOf(n), origin: {Null} \cup Requests]

\* The parts of a well-formed asset, with the set of its revisions named.
LEMMA WellFormedAssets ==
    ASSUME NEW n \in Names, NEW asset
    PROVE  WellFormed(asset, n, Requests) <=>
              /\ asset.status \in {"none", "active", "deleted"}
              /\ asset.history \in Seq(RevisionOf(n))
              /\ asset.status = "none" <=> asset.history = <<>>
              /\ asset.status = "active" => Last(asset.history).config # Null
              /\ asset.status = "deleted" => Last(asset.history).config = Null
BY DEF WellFormed, RevisionOf

\* A revision is added at the end and the state of the asset is what it says.
LEMMA RevisedAsset ==
    ASSUME NEW n \in Names, NEW asset, WellFormed(asset, n, Requests),
           NEW standing \in {"active", "deleted"}, NEW operation \in Operations,
           NEW config \in {Null} \cup ConfigOf(n), NEW origin \in {Null} \cup Requests,
           standing = "deleted" <=> config = Null
    PROVE  LET revised == WithRevision(asset, standing, operation, config, origin)
               r == [operation |-> operation, config |-> config, origin |-> origin]
           IN  /\ WellFormed(revised, n, Requests)
               /\ r \in RevisionOf(n) /\ revised.history = Append(asset.history, r)
               /\ r.operation = operation /\ r.config = config /\ r.origin = origin
<1> DEFINE r == [operation |-> operation, config |-> config, origin |-> origin]
           revised == WithRevision(asset, standing, operation, config, origin)
<1>1. r \in RevisionOf(n) /\ r.operation = operation /\ r.config = config /\ r.origin = origin
  BY DEF RevisionOf
<1>2. revised.status = standing /\ revised.history = Append(asset.history, r)
  BY DEF WithRevision
<1> HIDE DEF r, revised
<1>3. asset.history \in Seq(RevisionOf(n))
  BY WellFormedAssets
<1>4. /\ Append(asset.history, r) \in Seq(RevisionOf(n)) /\ Append(asset.history, r) # <<>>
      /\ Last(Append(asset.history, r)) = r
  BY <1>1, <1>3 DEF Last
<1>5. WellFormed(revised, n, Requests)
  BY <1>1, <1>2, <1>4, WellFormedAssets
<1>6. QED
  BY <1>1, <1>2, <1>5 DEF r, revised

\* The two kinds of mutation are told apart by their type.
LEMMA MutationTypes ==
    /\ Delete.type = "delete"
    /\ \A config, operation :
          /\ Upsert(config, operation).type = "upsert"
          /\ Upsert(config, operation).config = config
          /\ Upsert(config, operation).operation = operation
BY DEF Delete, Upsert

\* A mutation leaves a history as it is or adds one revision of its origin.
MutatedBy(m, origin, h, k) ==
    \/ m = Delete /\ k = h
    \/ \E r : /\ k = Append(h, r)
              /\ r.origin = origin
              /\ m = Delete => r.operation = "delete"
              /\ m.type = "upsert" /\ m.operation = "revert" => r.operation = "revert"
              /\ m.type = "upsert" /\ m.operation = Null =>
                    r.operation \notin Undoing /\ r.config = m.config

\* What a mutation makes of an asset is one again.
LEMMA MutatedAsset ==
    ASSUME NEW n \in Names, NEW asset, WellFormed(asset, n, Requests),
           NEW m, MutationOK(n, m), NEW origin \in {Null} \cup Requests
    PROVE  /\ WellFormed(Mutated(asset, m, origin), n, Requests)
           /\ MutatedBy(m, origin, asset.history, Mutated(asset, m, origin).history)
<1>1. CASE m = Delete
  <2>1. m.type = "delete"
    BY <1>1, MutationTypes
  <2>2. CASE asset.status # "active"
    <3>1. Mutated(asset, m, origin) = asset
      BY <2>1, <2>2 DEF Mutated
    <3>2. QED
      BY <1>1, <3>1 DEF MutatedBy
  <2>3. CASE asset.status = "active"
    <3>1. Mutated(asset, m, origin) = WithRevision(asset, "deleted", "delete", Null, origin)
      BY <2>1, <2>3 DEF Mutated
    <3> DEFINE r == [operation |-> "delete", config |-> Null, origin |-> origin]
    <3>2. /\ WellFormed(Mutated(asset, m, origin), n, Requests)
          /\ r \in RevisionOf(n) /\ Mutated(asset, m, origin).history = Append(asset.history, r)
          /\ r.operation = "delete" /\ r.origin = origin
      BY <3>1, RevisedAsset DEF Operations
    <3> HIDE DEF r
    <3>3. QED
      BY <1>1, <2>1, <3>2 DEF MutatedBy
  <2>4. QED
    BY <2>2, <2>3
<1>2. ASSUME NEW config \in ConfigOf(n), NEW operation \in {Null, "revert"},
             m = Upsert(config, operation)
      PROVE  /\ WellFormed(Mutated(asset, m, origin), n, Requests)
             /\ MutatedBy(m, origin, asset.history, Mutated(asset, m, origin).history)
  <2>1. m.type = "upsert" /\ m.config = config /\ m.operation = operation /\ m # Delete
    BY <1>2, MutationTypes
  <2> DEFINE done == IF m.operation # Null THEN m.operation
                     ELSE IF asset.status = "active" THEN "update" ELSE "create"
  <2>2. Mutated(asset, m, origin) = WithRevision(asset, "active", done, config, origin)
    BY <2>1 DEF Mutated
  <2>3. /\ done \in Operations
        /\ operation = "revert" => done = "revert"
        /\ operation = Null => done \notin Undoing
    BY <2>1 DEF Operations, Undoing
  <2> HIDE DEF done
  <2>4. config # Null
    OBVIOUS
  <2> DEFINE r == [operation |-> done, config |-> config, origin |-> origin]
  <2>5. /\ WellFormed(Mutated(asset, m, origin), n, Requests)
        /\ r \in RevisionOf(n) /\ Mutated(asset, m, origin).history = Append(asset.history, r)
        /\ r.operation = done /\ r.config = config /\ r.origin = origin
    BY <2>2, <2>3, <2>4, RevisedAsset
  <2> HIDE DEF r
  <2>6. QED
    BY <2>1, <2>3, <2>5 DEF MutatedBy
<1>3. QED
  BY <1>1, <1>2 DEF MutationOK

-----------------------------------------------------------------------------
(* The history of the skill a request changes. *)

Prior(h) == IF h = <<>> THEN Null ELSE Last(h).config

\* What a request may have made of one content.
Follows(q, before, config) == Fits(q, before) /\ config = Changed(q, before)

\* What a request made is its change of what was there, and what undoes a request undoes its change.
Faithful(q, h) ==
    \A i \in DOMAIN h :
        h[i].origin = q =>
            IF h[i].operation \in Undoing THEN i - 1 \in ProducedIn(h, q)
            ELSE Follows(q, Before(h, i), h[i].config)

\* A write of someone else, the undoing of the request's own last change, or nothing.
Passes(q, h, k) ==
    \/ k = h
    \/ \E r : /\ k = Append(h, r)
              /\ \/ r.origin # q
                 \/ r.operation \in Undoing /\ Len(h) \in ProducedIn(h, q)

\* The change of the request.
Applies(q, h, k) ==
    \E r : /\ k = Append(h, r)
           /\ r.origin = q /\ r.operation \notin Undoing /\ ProducedIn(h, q) = {}
           /\ Follows(q, Prior(h), r.config)

\* The places of a history that one more revision is added to.
LEMMA AppendedRevisions ==
    ASSUME NEW S, NEW h \in Seq(S), NEW r
    PROVE  /\ Len(Append(h, r)) = Len(h) + 1 /\ Len(h) \in Nat
           /\ DOMAIN Append(h, r) = 1..(Len(h) + 1) /\ DOMAIN h = 1..Len(h)
           /\ \A i \in 1..Len(h) : Append(h, r)[i] = h[i]
           /\ Append(h, r)[Len(h) + 1] = r
OBVIOUS

\* What a history has of a request, when it grows.
LEMMA ProducedGrows ==
    ASSUME NEW S, NEW h \in Seq(S), NEW r, NEW q
    PROVE  /\ ProducedIn(h, q) \subseteq ProducedIn(Append(h, r), q)
           /\ r.origin # q \/ r.operation \in Undoing =>
                 ProducedIn(Append(h, r), q) = ProducedIn(h, q)
           /\ r.origin = q /\ r.operation \notin Undoing =>
                 ProducedIn(Append(h, r), q) = ProducedIn(h, q) \cup {Len(h) + 1}
<1> DEFINE k == Append(h, r)
<1>1. /\ DOMAIN k = 1..(Len(h) + 1) /\ DOMAIN h = 1..Len(h) /\ Len(h) \in Nat
      /\ \A i \in 1..Len(h) : k[i] = h[i]
      /\ k[Len(h) + 1] = r
  BY AppendedRevisions
<1> HIDE DEF k
<1>2. \A i : i \in 1..(Len(h) + 1) <=> i \in 1..Len(h) \/ i = Len(h) + 1
  BY <1>1
<1>3. ASSUME NEW i \in 1..Len(h)
      PROVE  i \in ProducedIn(k, q) <=> i \in ProducedIn(h, q)
  BY <1>1, <1>2 DEF ProducedIn
<1>4. Len(h) + 1 \in ProducedIn(k, q) <=> r.origin = q /\ r.operation \notin Undoing
  BY <1>1, <1>2 DEF ProducedIn, Undoing
<1>5. /\ \A i \in ProducedIn(h, q) : i \in 1..Len(h)
      /\ \A i \in ProducedIn(k, q) : i \in 1..Len(h) \/ i = Len(h) + 1
  BY <1>1, <1>2 DEF ProducedIn
<1>6. QED
  BY <1>3, <1>4, <1>5 DEF k

\* A revision that is added leaves those before it and what stood before them.
LEMMA SameBefore ==
    ASSUME NEW S, NEW h \in Seq(S), NEW r, NEW i \in DOMAIN h
    PROVE  Append(h, r)[i] = h[i] /\ Before(Append(h, r), i) = Before(h, i)
<1>1. i \in 1..Len(h) /\ (i # 1 => i - 1 \in 1..Len(h))
  BY AppendedRevisions
<1>2. Append(h, r)[i] = h[i] /\ (i # 1 => Append(h, r)[i-1] = h[i-1])
  BY <1>1, AppendedRevisions
<1>3. QED
  BY <1>2 DEF Before

\* A write that is not the request's own change leaves what it changed.
LEMMA PassedHistory ==
    ASSUME NEW S, NEW h \in Seq(S), NEW k, NEW q, Passes(q, h, k)
    PROVE  /\ ProducedIn(k, q) = ProducedIn(h, q)
           /\ Faithful(q, h) => Faithful(q, k)
<1>1. CASE k = h
  BY <1>1
<1>2. ASSUME NEW r, k = Append(h, r),
             r.origin # q \/ (r.operation \in Undoing /\ Len(h) \in ProducedIn(h, q))
      PROVE  /\ ProducedIn(k, q) = ProducedIn(h, q)
             /\ Faithful(q, h) => Faithful(q, k)
  <2>1. ProducedIn(k, q) = ProducedIn(h, q)
    BY <1>2, ProducedGrows
  <2>2. ASSUME Faithful(q, h), NEW i \in DOMAIN k, k[i].origin = q
        PROVE  IF k[i].operation \in Undoing THEN i - 1 \in ProducedIn(k, q)
               ELSE Follows(q, Before(k, i), k[i].config)
    <3>1. /\ DOMAIN k = 1..(Len(h) + 1) /\ DOMAIN h = 1..Len(h) /\ Len(h) \in Nat
          /\ k[Len(h) + 1] = r
      BY <1>2, AppendedRevisions
    <3>2. CASE i \in DOMAIN h
      <4>1. k[i] = h[i] /\ Before(k, i) = Before(h, i)
        BY <1>2, <3>2, SameBefore
      <4>2. QED
        BY <2>1, <2>2, <3>2, <4>1 DEF Faithful
    <3>3. CASE i = Len(h) + 1
      <4>1. k[i] = r /\ i - 1 = Len(h)
        BY <3>1, <3>3
      <4>2. QED
        BY <1>2, <2>1, <2>2, <4>1
    <3>4. QED
      BY <3>1, <3>2, <3>3
  <2>3. QED
    BY <2>1, <2>2 DEF Faithful
<1>3. QED
  BY <1>1, <1>2 DEF Passes

\* The change of the request is its first and says what it should.
LEMMA AppliedHistory ==
    ASSUME NEW S, NEW h \in Seq(S), NEW k, NEW q, Applies(q, h, k)
    PROVE  /\ ProducedIn(h, q) = {} /\ ProducedIn(k, q) = {Len(h) + 1}
           /\ Faithful(q, h) => Faithful(q, k)
<1>1. PICK r : /\ k = Append(h, r)
               /\ r.origin = q /\ r.operation \notin Undoing /\ ProducedIn(h, q) = {}
               /\ Follows(q, Prior(h), r.config)
  BY DEF Applies
<1>2. ProducedIn(k, q) = {Len(h) + 1}
  BY <1>1, ProducedGrows
<1>3. ASSUME Faithful(q, h), NEW i \in DOMAIN k, k[i].origin = q
      PROVE  IF k[i].operation \in Undoing THEN i - 1 \in ProducedIn(k, q)
             ELSE Follows(q, Before(k, i), k[i].config)
  <2>1. /\ DOMAIN k = 1..(Len(h) + 1) /\ DOMAIN h = 1..Len(h) /\ Len(h) \in Nat
        /\ \A j \in 1..Len(h) : k[j] = h[j]
        /\ k[Len(h) + 1] = r
    BY <1>1, AppendedRevisions
  <2>2. CASE i \in DOMAIN h
    <3>1. k[i] = h[i] /\ Before(k, i) = Before(h, i)
      BY <1>1, <2>2, SameBefore
    <3>2. ProducedIn(h, q) \subseteq ProducedIn(k, q)
      BY <1>1, ProducedGrows
    <3>3. QED
      BY <1>3, <2>2, <3>1, <3>2 DEF Faithful
  <2>3. CASE i = Len(h) + 1
    <3>1. k[i] = r
      BY <2>1, <2>3
    <3>2. Before(k, i) = Prior(h)
      <4>1. CASE h = <<>>
        BY <2>3, <4>1 DEF Before, Prior
      <4>2. CASE h # <<>>
        <5>1. Len(h) # 0
          BY <4>2
        <5>2. i # 1 /\ i - 1 = Len(h) /\ Len(h) \in 1..Len(h)
          BY <2>1, <2>3, <5>1
        <5>3. k[i - 1] = Last(h)
          BY <2>1, <5>2 DEF Last
        <5>4. QED
          BY <4>2, <5>2, <5>3 DEF Before, Prior
      <4>3. QED
        BY <4>1, <4>2
    <3>3. QED
      BY <1>1, <3>1, <3>2
  <2>4. QED
    BY <2>1, <2>2, <2>3
<1>4. QED
  BY <1>1, <1>2, <1>3 DEF Faithful

-----------------------------------------------------------------------------
(* What a decision writes. *)

WellFormedStore(s) ==
    /\ s.version \in Nat /\ s.default \in Agents \cup {Null}
    /\ \A n \in Names : WellFormed(s.assets[n], n, Requests)

\* The fields of the change a request asks for.
LEMMA RequestedChange ==
    ASSUME TypeOK, NEW q \in Requests, status[q] # "none"
    PROVE  /\ change[q].type \in {"create", "replace", "append"}
           /\ change[q].skill \in Skills /\ change[q].skill \in Names
           /\ change[q].agent \in Agents /\ change[q].agent \in Names
           /\ change[q].agent # change[q].skill
           /\ change[q].new \in Texts
           /\ ConfigOf(change[q].skill) = SUBSET Texts /\ ConfigOf(change[q].agent) = SUBSET Skills
<1>1. change[q] \in [type: {"create", "replace", "append"}, skill: Skills, agent: Agents,
                     old: Texts \cup {Null}, new: Texts]
  BY DEF TypeOK
<1>2. /\ change[q].type \in {"create", "replace", "append"}
      /\ change[q].skill \in Skills /\ change[q].agent \in Agents /\ change[q].new \in Texts
  BY <1>1
<1>3. change[q].skill \notin Agents /\ change[q].agent \notin Skills
  BY <1>2
<1>4. QED
  BY <1>2, <1>3 DEF Names, ConfigOf

\* An active asset has a definition.
LEMMA ActiveAsset ==
    ASSUME NEW s, NEW n \in Names, WellFormed(s.assets[n], n, Requests)
    PROVE  /\ Active(s, n) => Config(s, n) \in ConfigOf(n) /\ Config(s, n) # Null
           /\ ~Active(s, n) /\ s.assets[n].history # <<>> => Config(s, n) = Null
<1> DEFINE h == s.assets[n].history
<1>1. /\ s.assets[n].status \in {"none", "active", "deleted"}
      /\ h \in Seq(RevisionOf(n))
      /\ s.assets[n].status = "none" <=> h = <<>>
      /\ s.assets[n].status = "active" => Last(h).config # Null
      /\ s.assets[n].status = "deleted" => Last(h).config = Null
  BY WellFormedAssets
<1>2. h # <<>> => Last(h) \in RevisionOf(n)
  <2>1. h # <<>> => Len(h) \in 1..Len(h)
    BY <1>1
  <2>2. QED
    BY <1>1, <2>1 DEF Last
<1>3. h # <<>> => Last(h).config \in {Null} \cup ConfigOf(n)
  BY <1>2 DEF RevisionOf
<1>4. QED
  BY <1>1, <1>3 DEF Active, Config

\* The content of the skill is what its last revision says, and the change makes one of it that a
\* skill may have.
LEMMA ChangedContent ==
    ASSUME TypeOK, NEW q \in Requests, status[q] # "none"
    PROVE  /\ Content(store, q) = Prior(History(store, q))
           /\ Applicable(store, q) => Changed(q, Content(store, q)) \in SUBSET Texts
<1> DEFINE c == change[q]
           h == History(store, q)
           config == Content(store, q)
<1>1. /\ c.type \in {"create", "replace", "append"} /\ c.new \in Texts /\ c.skill \in Names
      /\ ConfigOf(c.skill) = SUBSET Texts
  BY RequestedChange
<1>2. WellFormed(store.assets[c.skill], c.skill, Requests)
  BY <1>1 DEF TypeOK
<1>3. h = store.assets[c.skill].history
  BY DEF History
<1>4. /\ Active(store, c.skill) => Config(store, c.skill) \in SUBSET Texts
      /\ ~Active(store, c.skill) /\ h # <<>> => Config(store, c.skill) = Null
  BY <1>1, <1>2, <1>3, ActiveAsset
<1>5. h = <<>> => ~Active(store, c.skill)
  BY <1>2, <1>3 DEF WellFormed, Active
<1>6. config = Prior(h)
  BY <1>3, <1>4, <1>5 DEF Content, Prior, Config
<1>7. config # Null => config \in SUBSET Texts
  BY <1>4 DEF Content
<1> HIDE DEF config
<1>8. CASE c.type = "create"
  BY <1>1, <1>6, <1>8 DEF Changed, config
<1>9. CASE c.type = "append"
  BY <1>1, <1>6, <1>7, <1>9 DEF Changed, Applicable, Fits, config
<1>10. CASE c.type = "replace"
  BY <1>1, <1>6, <1>7, <1>10 DEF Changed, Applicable, Fits, config
<1>11. QED
  BY <1>1, <1>8, <1>9, <1>10

\* What apply writes: of the skill, the change of what it is.
LEMMA ApplyBatchOK ==
    ASSUME TypeOK, NEW q \in Requests, status[q] # "none", InScope(store, q), Applicable(store, q)
    PROVE  LET b == ApplyBatch(store, q)
               skill == change[q].skill
               h == History(store, q)
           IN  /\ BatchOK(b) /\ b.origin = q /\ skill \in DOMAIN b.mutations
               /\ b.mutations[skill].type = "upsert" /\ b.mutations[skill].operation = Null
               /\ Follows(q, Prior(h), b.mutations[skill].config)
<1> DEFINE c == change[q]
           config == Content(store, q)
           names == {c.skill} \cup (IF c.type = "create" THEN {c.agent} ELSE {})
           mutation(n) == IF n = c.skill THEN Upsert(Changed(q, config), Null)
                          ELSE Upsert(Config(store, c.agent) \cup {c.skill}, Null)
           b == ApplyBatch(store, q)
<1>1. /\ c.skill \in Skills /\ c.skill \in Names /\ c.agent \in Agents /\ c.agent \in Names
      /\ c.agent # c.skill
      /\ ConfigOf(c.skill) = SUBSET Texts /\ ConfigOf(c.agent) = SUBSET Skills
  BY RequestedChange
<1>2. WellFormed(store.assets[c.skill], c.skill, Requests)
      /\ WellFormed(store.assets[c.agent], c.agent, Requests)
  BY <1>1 DEF TypeOK
<1>3. config = Prior(History(store, q)) /\ Changed(q, config) \in ConfigOf(c.skill)
  BY <1>1, ChangedContent
<1>4. Config(store, c.agent) \cup {c.skill} \in ConfigOf(c.agent)
  BY <1>1, <1>2, ActiveAsset DEF InScope
<1>5. Fits(q, config)
  BY DEF Applicable
<1>6. /\ b.mutations = [n \in names |-> mutation(n)] /\ b.default = "keep" /\ b.origin = q
  BY DEF ApplyBatch, Batch
<1>7. /\ DOMAIN b.mutations = names /\ \A n \in names : b.mutations[n] = mutation(n)
  BY <1>6
<1>8. c.skill \in names /\ \A n \in names : n = c.skill \/ n = c.agent
  OBVIOUS
<1>9. mutation(c.skill) = Upsert(Changed(q, config), Null)
      /\ mutation(c.agent) = Upsert(Config(store, c.agent) \cup {c.skill}, Null)
  BY <1>1
<1>10. Follows(q, Prior(History(store, q)), Changed(q, config))
  BY <1>3, <1>5 DEF Follows
<1>11. BatchOK(b)
  <2>1. MutationOK(c.skill, mutation(c.skill))
    BY <1>3, <1>9 DEF MutationOK
  <2>2. MutationOK(c.agent, mutation(c.agent))
    BY <1>4, <1>9 DEF MutationOK
  <2> HIDE DEF mutation, names, b
  <2>3. QED
    BY <1>1, <1>6, <1>7, <1>8, <2>1, <2>2 DEF BatchOK
<1>12. /\ b.mutations[c.skill].type = "upsert" /\ b.mutations[c.skill].operation = Null
       /\ b.mutations[c.skill].config = Changed(q, config)
  <2>1. b.mutations[c.skill] = Upsert(Changed(q, config), Null)
    BY <1>7, <1>8, <1>9
  <2>2. QED
    BY <2>1, MutationTypes
<1>13. c.skill \in DOMAIN b.mutations
  BY <1>7, <1>8
<1> HIDE DEF b, config
<1>14. QED
  BY <1>6, <1>10, <1>11, <1>12, <1>13 DEF b

\* Only one revision can be the one that a revert undoes.
LEMMA AppliedIsProduced ==
    ASSUME NEW q \in Requests, OneChange, Produced(store, q) # {},
           \A i \in Produced(store, q) : i \in Nat
    PROVE  applied(store, q) \in Produced(store, q)
<1>1. PICK i : i \in Produced(store, q)
  OBVIOUS
<1>2. \A j \in Produced(store, q) : j = i
  BY <1>1 DEF OneChange
<1>3. i \in Produced(store, q) /\ \A j \in Produced(store, q) : i <= j
  BY <1>1, <1>2
<1>4. QED
  BY <1>3 DEF applied

\* What a request changes is a history of revisions of its skill.
LEMMA HistoryTyped ==
    ASSUME TypeOK, NEW q \in Requests, status[q] # "none"
    PROVE  LET skill == change[q].skill
               h == History(store, q)
           IN  /\ h = store.assets[skill].history /\ h \in Seq(RevisionOf(skill))
               /\ \A i \in Produced(store, q) : i \in 1..Len(h)
               /\ \A i \in 1..Len(h) : h[i].config \in {Null} \cup ConfigOf(skill)
<1> DEFINE skill == change[q].skill
           h == History(store, q)
<1>1. skill \in Names
  BY RequestedChange
<1>2. h = store.assets[skill].history
  BY DEF History
<1>3. h \in Seq(RevisionOf(skill))
  BY <1>1, <1>2, WellFormedAssets DEF TypeOK
<1> HIDE DEF h, skill
<1>4. DOMAIN h = 1..Len(h) /\ \A i \in 1..Len(h) : h[i] \in RevisionOf(skill)
  BY <1>3
<1>5. \A i \in 1..Len(h) : h[i].config \in {Null} \cup ConfigOf(skill)
  BY <1>4 DEF RevisionOf
<1>6. \A i \in Produced(store, q) : i \in 1..Len(h)
  BY <1>4 DEF Produced, ProducedIn, h
<1>7. QED
  BY <1>2, <1>3, <1>5, <1>6 DEF h, skill

\* What revert writes: of the skill, the undoing of the last revision, which is the request's own.
LEMMA RevertBatchOK ==
    ASSUME TypeOK, OneChange, NEW q \in Requests, status[q] # "none", revertible(store, q)
    PROVE  LET b == RevertBatch(store, q)
               skill == change[q].skill
           IN  /\ BatchOK(b) /\ b.origin = q /\ skill \in DOMAIN b.mutations
               /\ \/ b.mutations[skill] = Delete
                  \/ b.mutations[skill].type = "upsert" /\ b.mutations[skill].operation = "revert"
               /\ Len(History(store, q)) \in Produced(store, q)
<1> DEFINE c == change[q]
           h == History(store, q)
           uncreates == c.type = "create"
           names == {c.skill} \cup (IF uncreates /\ Active(store, c.agent) THEN {c.agent} ELSE {})
           earlier == h[applied(store, q) - 1].config
           mutation(n) == IF n = c.agent THEN Upsert(Config(store, c.agent) \ {c.skill}, "revert")
                          ELSE IF uncreates THEN Delete ELSE Upsert(earlier, "revert")
           b == RevertBatch(store, q)
<1>1. /\ c.skill \in Skills /\ c.skill \in Names /\ c.agent \in Agents /\ c.agent \in Names
      /\ c.agent # c.skill
      /\ ConfigOf(c.skill) = SUBSET Texts /\ ConfigOf(c.agent) = SUBSET Skills
  BY RequestedChange
<1>2. WellFormed(store.assets[c.agent], c.agent, Requests)
  BY <1>1 DEF TypeOK
<1>3. /\ h \in Seq(RevisionOf(c.skill))
      /\ \A i \in Produced(store, q) : i \in 1..Len(h)
      /\ \A i \in 1..Len(h) : h[i].config \in {Null} \cup ConfigOf(c.skill)
  BY HistoryTyped
<1>4. applied(store, q) \in Produced(store, q)
  BY <1>3, AppliedIsProduced DEF revertible
<1>5. Len(h) \in Produced(store, q) /\ applied(store, q) = Len(h)
  BY <1>4 DEF revertible
<1>6. ~uncreates => earlier \in ConfigOf(c.skill)
  <2>1. ~uncreates => applied(store, q) > 1 /\ earlier # Null
    BY DEF revertible
  <2>2. ~uncreates => applied(store, q) - 1 \in 1..Len(h)
    BY <1>3, <1>4, <2>1
  <2>3. QED
    BY <1>3, <2>1, <2>2
<1>7. /\ b.mutations = [n \in names |-> mutation(n)] /\ b.default = "keep" /\ b.origin = q
  BY DEF RevertBatch, Batch
<1>8. /\ DOMAIN b.mutations = names /\ \A n \in names : b.mutations[n] = mutation(n)
  BY <1>7
<1>9. c.skill \in names /\ \A n \in names : n = c.skill \/ (n = c.agent /\ Active(store, c.agent))
  OBVIOUS
<1>10. /\ mutation(c.skill) = IF uncreates THEN Delete ELSE Upsert(earlier, "revert")
       /\ mutation(c.agent) = Upsert(Config(store, c.agent) \ {c.skill}, "revert")
  BY <1>1
<1>11. BatchOK(b)
  <2>1. MutationOK(c.skill, mutation(c.skill))
    BY <1>6, <1>10 DEF MutationOK
  <2>2. Active(store, c.agent) => MutationOK(c.agent, mutation(c.agent))
    <3>1. Active(store, c.agent) => Config(store, c.agent) \ {c.skill} \in ConfigOf(c.agent)
      BY <1>1, <1>2, ActiveAsset
    <3>2. QED
      BY <3>1, <1>10 DEF MutationOK
  <2> HIDE DEF mutation, names, b
  <2>3. QED
    BY <1>1, <1>7, <1>8, <1>9, <2>1, <2>2 DEF BatchOK
<1>12. \/ b.mutations[c.skill] = Delete
       \/ b.mutations[c.skill].type = "upsert" /\ b.mutations[c.skill].operation = "revert"
  <2>1. b.mutations[c.skill] = IF uncreates THEN Delete ELSE Upsert(earlier, "revert")
    BY <1>8, <1>9, <1>10
  <2>2. QED
    BY <2>1, MutationTypes
<1>13. c.skill \in DOMAIN b.mutations
  BY <1>8, <1>9
<1> HIDE DEF b
<1>14. QED
  BY <1>5, <1>7, <1>11, <1>12, <1>13 DEF b

\* What an editor writes: it is no request's.
LEMMA EditBatchOK ==
    ASSUME TypeOK, NEW names \in Edits.together, NEW mutations,
           mutations \in [names -> UNION {Items(n) : n \in names}],
           \A n \in names : mutations[n] \in Items(n)
    PROVE  LET b == Batch(mutations, DefaultOf(mutations), Null)
           IN BatchOK(b) /\ b.origin = Null
<1> DEFINE b == Batch(mutations, DefaultOf(mutations), Null)
<1>1. b.mutations = mutations /\ b.default = DefaultOf(mutations) /\ b.origin = Null
  BY DEF Batch
<1>2. DOMAIN mutations = names /\ names \subseteq Names
  OBVIOUS
<1>3. ASSUME NEW n \in names, NEW m \in Items(n)
      PROVE  MutationOK(n, m)
  <2>1. n \in Names /\ Edits.contents[n] \subseteq ConfigOf(n)
    BY <1>2
  <2>2. CASE m \in [type: {"upsert"}, config: Edits.contents[n], operation: {Null}]
    <3>1. m = Upsert(m.config, Null) /\ m.config \in ConfigOf(n)
      BY <2>1, <2>2 DEF Upsert
    <3>2. QED
      BY <3>1 DEF MutationOK
  <2>3. CASE m = Delete
    BY <2>3 DEF MutationOK
  <2>4. CASE m \in {Upsert(store.assets[n].history[i].config, "revert") :
                 i \in {j \in DOMAIN store.assets[n].history : store.assets[n].history[j].config # Null}}
    <3>1. PICK i \in DOMAIN store.assets[n].history :
               /\ store.assets[n].history[i].config # Null
               /\ m = Upsert(store.assets[n].history[i].config, "revert")
      BY <2>4
    <3>2. store.assets[n].history \in Seq(RevisionOf(n))
      BY <2>1, WellFormedAssets DEF TypeOK
    <3>3. store.assets[n].history[i] \in RevisionOf(n)
      BY <3>1, <3>2
    <3>4. store.assets[n].history[i].config \in ConfigOf(n)
      BY <3>1, <3>3 DEF RevisionOf
    <3>5. QED
      BY <3>1, <3>4 DEF MutationOK
  <2>5. QED
    BY <2>2, <2>3, <2>4 DEF Items
<1>4. DefaultOf(mutations) \in Agents \cup {Null, "keep"}
  <2> DEFINE agents == DOMAIN mutations \cap Agents
  <2>1. agents # {} => (CHOOSE a \in agents : TRUE) \in agents
    OBVIOUS
  <2>2. QED
    BY <2>1 DEF DefaultOf
<1> HIDE DEF b
<1>5. QED
  BY <1>1, <1>2, <1>3, <1>4 DEF BatchOK, b

-----------------------------------------------------------------------------
(* A batch is written. *)

\* The store stays what it was made to be, and its version counts the batch.
LEMMA AppliedBatch ==
    ASSUME NEW s, WellFormedStore(s), NEW b, BatchOK(b), b.origin \in {Null} \cup Requests
    PROVE  LET t == Applied(s, b)
           IN  /\ WellFormedStore(t) /\ t.version = s.version + 1
               /\ \A n \in Names :
                     t.assets[n] = IF n \in DOMAIN b.mutations
                                   THEN Mutated(s.assets[n], b.mutations[n], b.origin)
                                   ELSE s.assets[n]
<1> DEFINE t == Applied(s, b)
<1>1. /\ t.version = s.version + 1
      /\ t.default = IF b.default = "keep" THEN s.default ELSE b.default
      /\ \A n \in Names : t.assets[n] = IF n \in DOMAIN b.mutations
                                        THEN Mutated(s.assets[n], b.mutations[n], b.origin)
                                        ELSE s.assets[n]
  BY DEF Applied
<1> HIDE DEF t
<1>2. ASSUME NEW n \in Names
      PROVE  WellFormed(t.assets[n], n, Requests)
  <2>1. WellFormed(s.assets[n], n, Requests)
    BY DEF WellFormedStore
  <2>2. CASE n \in DOMAIN b.mutations
    <3>1. MutationOK(n, b.mutations[n])
      BY <2>2 DEF BatchOK
    <3>2. WellFormed(Mutated(s.assets[n], b.mutations[n], b.origin), n, Requests)
      BY <2>1, <3>1, MutatedAsset
    <3>3. QED
      BY <1>1, <2>2, <3>2
  <2>3. CASE n \notin DOMAIN b.mutations
    BY <1>1, <2>1, <2>3
  <2>4. QED
    BY <2>2, <2>3
<1>3. t.version \in Nat /\ t.default \in Agents \cup {Null}
  BY <1>1 DEF WellFormedStore, BatchOK
<1>4. QED
  BY <1>1, <1>2, <1>3 DEF WellFormedStore, t

\* It leaves a history as it is or adds one revision of its origin.
LEMMA AppliedTo ==
    ASSUME NEW s, WellFormedStore(s), NEW b, BatchOK(b), b.origin \in {Null} \cup Requests,
           NEW n \in Names
    PROVE  LET k == Applied(s, b).assets[n].history
           IN  IF n \in DOMAIN b.mutations
               THEN MutatedBy(b.mutations[n], b.origin, s.assets[n].history, k)
               ELSE k = s.assets[n].history
<1>1. Applied(s, b).assets[n] = IF n \in DOMAIN b.mutations
                                THEN Mutated(s.assets[n], b.mutations[n], b.origin) ELSE s.assets[n]
  BY AppliedBatch
<1>2. WellFormed(s.assets[n], n, Requests)
  BY DEF WellFormedStore
<1>3. n \in DOMAIN b.mutations => MutationOK(n, b.mutations[n])
  BY DEF BatchOK
<1>4. n \in DOMAIN b.mutations =>
         MutatedBy(b.mutations[n], b.origin, s.assets[n].history,
                   Mutated(s.assets[n], b.mutations[n], b.origin).history)
  BY <1>2, <1>3, MutatedAsset
<1>5. QED
  BY <1>1, <1>4

\* To another request it is a write of someone else.
LEMMA WrittenByOthers ==
    ASSUME TypeOK, NEW b, BatchOK(b), b.origin \in {Null} \cup Requests,
           NEW q \in Requests, status[q] # "none", b.origin # q
    PROVE  Passes(q, History(store, q), Applied(store, b).assets[change[q].skill].history)
<1> DEFINE n == change[q].skill
           k == Applied(store, b).assets[n].history
<1>1. n \in Names /\ WellFormedStore(store)
  BY RequestedChange DEF TypeOK, WellFormedStore
<1>2. History(store, q) = store.assets[n].history
  BY DEF History
<1> HIDE DEF n
<1>3. IF n \in DOMAIN b.mutations THEN MutatedBy(b.mutations[n], b.origin, store.assets[n].history, k)
      ELSE k = store.assets[n].history
  BY <1>1, AppliedTo
<1> HIDE DEF k
<1>4. QED
  BY <1>2, <1>3 DEF Passes, MutatedBy, k, n

\* What apply writes is the change of its request.
LEMMA WrittenByApply ==
    ASSUME TypeOK, NEW q \in Requests, status[q] # "none", InScope(store, q),
           Applicable(store, q), Produced(store, q) = {}
    PROVE  LET b == ApplyBatch(store, q)
           IN  Applies(q, History(store, q), Applied(store, b).assets[change[q].skill].history)
<1> DEFINE b == ApplyBatch(store, q)
           n == change[q].skill
           k == Applied(store, b).assets[n].history
<1>1. n \in Names /\ WellFormedStore(store)
  BY RequestedChange DEF TypeOK, WellFormedStore
<1>2. /\ BatchOK(b) /\ b.origin = q /\ n \in DOMAIN b.mutations
      /\ b.mutations[n].type = "upsert" /\ b.mutations[n].operation = Null
      /\ Follows(q, Prior(History(store, q)), b.mutations[n].config)
  BY ApplyBatchOK
<1>3. b.mutations[n] # Delete
  BY <1>2, MutationTypes
<1>4. History(store, q) = store.assets[n].history
  BY DEF History
<1> HIDE DEF b, n
<1>5. MutatedBy(b.mutations[n], b.origin, store.assets[n].history, k)
  BY <1>1, <1>2, AppliedTo
<1>6. ProducedIn(History(store, q), q) = {}
  BY DEF Produced
<1>7. Applies(q, History(store, q), k)
  BY <1>2, <1>3, <1>4, <1>5, <1>6 DEF Applies, MutatedBy
<1>8. QED
  BY <1>7 DEF b, n

\* What revert writes undoes the change of its request.
LEMMA WrittenByRevert ==
    ASSUME TypeOK, OneChange, NEW q \in Requests, status[q] # "none", revertible(store, q)
    PROVE  LET b == RevertBatch(store, q)
           IN  Passes(q, History(store, q), Applied(store, b).assets[change[q].skill].history)
<1> DEFINE b == RevertBatch(store, q)
           n == change[q].skill
           k == Applied(store, b).assets[n].history
<1>1. n \in Names /\ WellFormedStore(store)
  BY RequestedChange DEF TypeOK, WellFormedStore
<1>2. /\ BatchOK(b) /\ b.origin = q /\ n \in DOMAIN b.mutations
      /\ \/ b.mutations[n] = Delete
         \/ b.mutations[n].type = "upsert" /\ b.mutations[n].operation = "revert"
      /\ Len(History(store, q)) \in Produced(store, q)
  BY RevertBatchOK
<1>3. History(store, q) = store.assets[n].history
  BY DEF History
<1> HIDE DEF b, n
<1>4. MutatedBy(b.mutations[n], b.origin, store.assets[n].history, k)
  BY <1>1, <1>2, AppliedTo
<1> HIDE DEF k
<1>5. \/ k = History(store, q)
      \/ \E r : k = Append(History(store, q), r) /\ r.operation \in Undoing
  BY <1>2, <1>3, <1>4 DEF Undoing, MutatedBy
<1>6. Len(History(store, q)) \in ProducedIn(History(store, q), q)
  BY <1>2 DEF Produced
<1>7. Passes(q, History(store, q), k)
  BY <1>5, <1>6 DEF Passes
<1>8. QED
  BY <1>7 DEF b, n, k

-----------------------------------------------------------------------------
(* What a step of somebody does to the rest: "by" is a decision or Null. *)

NextHistory(q) == store'.assets[change[q].skill].history

\* The assets stay, or a batch is written that is nobody's or of a request under way.
StoreStep(by) ==
    \/ store' = store
    \/ \E b : /\ store' = Applied(store, b) /\ BatchOK(b)
              /\ \/ b.origin = Null
                 \/ /\ b.origin \in Requests /\ status[b.origin] # "none"
                    /\ \/ Passes(b.origin, History(store, b.origin), NextHistory(b.origin))
                       \/ /\ Applies(b.origin, History(store, b.origin), NextHistory(b.origin))
                          /\ \/ b.origin \in lost
                             \/ lock[b.origin] = by /\ status[b.origin] = "pending"

\* A request stays as it is, is made, or is decided by the one that holds its row.
RequestStep(by, q) ==
    \/ status'[q] = status[q] /\ change'[q] = change[q]
    \/ /\ status[q] = "none" /\ status'[q] = "pending" /\ change'[q] \in Changes
       /\ store' = store
    \/ /\ by \in Deciders /\ lock[q] = by /\ work[by].at = "record" /\ work[by].request = q
       /\ status'[q] = work[by].outcome /\ change'[q] = change[q] /\ store' = store

\* Where the decision itself is after its step.
OwnStep(by) ==
    /\ work'[by] \in [at: {"idle", "version", "read", "write", "record"},
                      request: Requests \cup {Null},
                      decision: {"approve", "refuse", "revert", Null}, version: Nat,
                      batch: {work'[by].batch}, outcome: Statuses \cup {Null}]
    /\ work'[by].at # "idle" =>
          /\ lock'[work'[by].request] = by \/ work'[by].request \in lost'
          /\ DecisionOK(by, work[by].request)'

Effect(by) ==
    /\ StoreStep(by)
    /\ status' \in [Requests -> Statuses] /\ DOMAIN change' = Requests
    /\ \A q \in Requests : RequestStep(by, q)
    /\ lock' \in [Requests -> Deciders \cup {Null}]
    /\ \A q \in Requests, d \in Deciders \ {by} : lock'[q] = d <=> lock[q] = d
    /\ lost \subseteq lost' /\ lost' \subseteq Requests
    /\ DOMAIN work' = Deciders
    /\ \A d \in Deciders \ {by} : work'[d] = work[d]
    /\ by \in Deciders => OwnStep(by)
    /\ EditsOK'

\* The store after a step.
LEMMA StoreAfter ==
    ASSUME TypeOK, NEW by, StoreStep(by)
    PROVE  /\ WellFormedStore(store')
           /\ store' = store \/ store'.version = store.version + 1
<1>1. WellFormedStore(store)
  BY DEF TypeOK, WellFormedStore
<1>2. CASE store' = store
  BY <1>1, <1>2
<1>3. ASSUME NEW b, store' = Applied(store, b), BatchOK(b), b.origin \in {Null} \cup Requests
      PROVE  WellFormedStore(store') /\ store'.version = store.version + 1
  BY <1>1, <1>3, AppliedBatch
<1>4. QED
  BY <1>2, <1>3 DEF StoreStep

\* What a step does to the skill of a request that was made.
LEMMA HistoryAfter ==
    ASSUME TypeOK, NEW by, StoreStep(by), NEW q \in Requests, status[q] # "none"
    PROVE  LET h == History(store, q)
           IN  \/ Passes(q, h, NextHistory(q))
               \/ /\ Applies(q, h, NextHistory(q))
                  /\ q \in lost \/ (lock[q] = by /\ status[q] = "pending")
<1>1. CASE store' = store
  <2>1. NextHistory(q) = History(store, q)
    BY <1>1 DEF NextHistory, History
  <2>2. QED
    BY <2>1 DEF Passes
<1>2. ASSUME NEW b, store' = Applied(store, b), BatchOK(b), b.origin \in {Null} \cup Requests,
             b.origin # q
      PROVE  Passes(q, History(store, q), NextHistory(q))
  BY <1>2, WrittenByOthers DEF NextHistory
<1>3. QED
  BY <1>1, <1>2 DEF StoreStep

\* The same readings of the same store.
LEMMA SameReadings ==
    ASSUME NEW q \in Requests, store' = store, change'[q] = change[q],
           status[q] # "none", status'[q] # "none"
    PROVE  /\ History(store, q)' = History(store, q)
           /\ Produced(store, q)' = Produced(store, q)
           /\ InScope(store, q)' <=> InScope(store, q)
           /\ Applicable(store, q)' <=> Applicable(store, q)
           /\ ApplyBatch(store, q)' = ApplyBatch(store, q)
           /\ revertible(store, q)' <=> revertible(store, q)
           /\ RevertBatch(store, q)' = RevertBatch(store, q)
<1>1. History(store, q)' = History(store, q)
  BY DEF History
<1>2. Produced(store, q)' = Produced(store, q)
  BY <1>1 DEF Produced
<1>3. applied(store, q)' = applied(store, q)
  BY <1>2 DEF applied
<1>4. InScope(store, q)' <=> InScope(store, q)
  BY DEF InScope
<1>5. Applicable(store, q)' <=> Applicable(store, q)
  BY DEF Applicable, Fits, Content
<1>6. ApplyBatch(store, q)' = ApplyBatch(store, q)
  BY DEF ApplyBatch, Changed, Content
<1>7. revertible(store, q)' <=> revertible(store, q)
  BY <1>1, <1>2, <1>3 DEF revertible
<1>8. RevertBatch(store, q)' = RevertBatch(store, q)
  BY <1>1, <1>3 DEF RevertBatch
<1>9. QED
  BY <1>1, <1>2, <1>4, <1>5, <1>6, <1>7, <1>8

-----------------------------------------------------------------------------
(* Such a step keeps the invariant. *)

\* A request that was made stays made, for the same change.
LEMMA MadeOnce ==
    ASSUME IInv, NEW by, Effect(by), NEW q \in Requests, status[q] # "none"
    PROVE  status'[q] # "none" /\ change'[q] = change[q]
<1>1. RequestStep(by, q)
  BY DEF Effect
<1>2. ASSUME by \in Deciders, work[by].at = "record", work[by].request = q
      PROVE  work[by].outcome # "none"
  <2>1. DecisionOK(by, q)
    BY <1>2 DEF IInv, DecisionsOK
  <2>2. QED
    BY <1>2, <2>1 DEF DecisionOK
<1>3. QED
  BY <1>1, <1>2 DEF RequestStep

\* The history of its skill grows, and what it changed with it.
LEMMA GrownHistory ==
    ASSUME IInv, NEW by, Effect(by), NEW q \in Requests, status[q] # "none"
    PROVE  /\ History(store, q)' = NextHistory(q)
           /\ Produced(store, q) \subseteq Produced(store, q)'
           /\ \A i, j \in Produced(store, q)' : i = j
           /\ Faithful(q, NextHistory(q))
           /\ q \in lost \/ (lock[q] = by /\ status[q] = "pending")
                 \/ Produced(store, q)' = Produced(store, q)
<1> DEFINE h == History(store, q)
           k == NextHistory(q)
<1>1. h \in Seq(RevisionOf(change[q].skill))
  BY HistoryTyped DEF IInv
<1>2. \/ Passes(q, h, k)
      \/ Applies(q, h, k) /\ (q \in lost \/ (lock[q] = by /\ status[q] = "pending"))
  BY HistoryAfter DEF IInv, Effect
<1>3. History(store, q)' = k
  <2>1. status'[q] # "none" /\ change'[q] = change[q]
    BY MadeOnce
  <2>2. QED
    BY <2>1 DEF History, NextHistory
<1>4. Faithful(q, h)
  BY DEF IInv, NothingOverwritten, Faithful, Follows, Undoing, Produced
<1>5. \A i, j \in ProducedIn(h, q) : i = j
  BY DEF IInv, OneChange, Produced
<1>6. Produced(store, q) = ProducedIn(h, q) /\ Produced(store, q)' = ProducedIn(k, q)
  BY <1>3 DEF Produced
<1> HIDE DEF h, k
<1>7. CASE Passes(q, h, k)
  <2>1. ProducedIn(k, q) = ProducedIn(h, q) /\ Faithful(q, k)
    BY <1>1, <1>4, <1>7, PassedHistory
  <2>2. QED
    BY <1>3, <1>5, <1>6, <2>1 DEF k
<1>8. CASE Applies(q, h, k) /\ (q \in lost \/ (lock[q] = by /\ status[q] = "pending"))
  <2>1. ProducedIn(h, q) = {} /\ ProducedIn(k, q) = {Len(h) + 1} /\ Faithful(q, k)
    BY <1>1, <1>4, <1>8, AppliedHistory
  <2>2. QED
    BY <1>3, <1>6, <1>8, <2>1 DEF k
<1>9. QED
  BY <1>2, <1>7, <1>8

\* A request that is not made yet has made nothing.
LEMMA NobodysAfter ==
    ASSUME IInv, NEW by, Effect(by), NEW q \in Requests, status[q] = "none",
           NEW n \in Names, NEW i \in DOMAIN store'.assets[n].history
    PROVE  store'.assets[n].history[i].origin # q
<1> DEFINE h == store.assets[n].history
           k == store'.assets[n].history
<1>1. \A j \in DOMAIN h : h[j].origin # q
  BY DEF IInv, NobodysYet
<1>2. h \in Seq(RevisionOf(n))
  BY WellFormedAssets DEF IInv, TypeOK
<1>3. CASE store' = store
  BY <1>1, <1>3
<1>4. ASSUME NEW b, store' = Applied(store, b), BatchOK(b), b.origin \in {Null} \cup Requests,
             b.origin # q
      PROVE  k[i].origin # q
  <2>1. WellFormedStore(store)
    BY DEF IInv, TypeOK, WellFormedStore
  <2>2. IF n \in DOMAIN b.mutations THEN MutatedBy(b.mutations[n], b.origin, h, k) ELSE k = h
    BY <1>4, <2>1, AppliedTo
  <2>3. \/ k = h
        \/ \E r : k = Append(h, r) /\ r.origin = b.origin
    BY <2>2 DEF MutatedBy
  <2>4. CASE k = h
    BY <1>1, <2>4
  <2>5. ASSUME NEW r, k = Append(h, r), r.origin = b.origin
        PROVE  k[i].origin # q
    <3> HIDE DEF h, k
    <3>1. /\ DOMAIN k = 1..(Len(h) + 1) /\ DOMAIN h = 1..Len(h) /\ Len(h) \in Nat
          /\ \A j \in 1..Len(h) : k[j] = h[j]
          /\ k[Len(h) + 1] = r
      BY <1>2, <2>5, AppendedRevisions
    <3>2. i \in DOMAIN h \/ i = Len(h) + 1
      BY <3>1 DEF k
    <3>3. QED
      BY <1>1, <1>4, <2>5, <3>1, <3>2
  <2>6. QED
    BY <2>3, <2>4, <2>5
<1>5. q # Null
  OBVIOUS
<1>6. QED
  BY <1>3, <1>4, <1>5 DEF Effect, StoreStep

\* So the histories of the skills keep what the invariant says of them.
LEMMA HistoriesKept ==
    ASSUME IInv, NEW by, Effect(by)
    PROVE  NobodysYet' /\ OneChange' /\ NothingOverwritten'
<1>1. NobodysYet'
  <2>1. ASSUME NEW q \in Requests, status'[q] = "none"
        PROVE  status[q] = "none"
    BY <2>1, MadeOnce
  <2>2. QED
    BY <2>1, NobodysAfter DEF NobodysYet
<1>2. ASSUME NEW q \in Requests, status[q] = "none"
      PROVE  /\ \A i \in DOMAIN History(store, q)' : History(store, q)'[i].origin # q
             /\ Produced(store, q)' = {}
  <2>1. RequestStep(by, q)
    BY DEF Effect
  <2>2. CASE status'[q] = "none"
    <3>1. History(store, q)' = <<>>
      BY <2>2 DEF History
    <3>2. QED
      BY <3>1 DEF Produced, ProducedIn
  <2>3. CASE status'[q] # "none"
    <3>1. change'[q] \in Changes
      <4>1. ~(by \in Deciders /\ lock[q] = by /\ work[by].at = "record" /\ work[by].request = q)
        <5>1. ASSUME by \in Deciders, work[by].at = "record", work[by].request = q
              PROVE  FALSE
          <6>1. DecisionOK(by, q)
            BY <5>1 DEF IInv, DecisionsOK
          <6>2. QED
            BY <1>2, <6>1 DEF DecisionOK
        <5>2. QED
          BY <5>1
      <4>2. QED
        BY <1>2, <2>1, <2>3, <4>1 DEF RequestStep
    <3>2. change'[q].skill \in Names
      BY <3>1 DEF Names
    <3>3. History(store, q)' = store'.assets[change'[q].skill].history
      BY <2>3 DEF History
    <3>4. \A i \in DOMAIN History(store, q)' : History(store, q)'[i].origin # q
      BY <1>2, <3>2, <3>3, NobodysAfter
    <3>5. QED
      BY <3>4 DEF Produced, ProducedIn
  <2>4. QED
    BY <2>2, <2>3
<1>3. OneChange'
  <2>1. ASSUME NEW q \in Requests
        PROVE  \A i, j \in Produced(store, q)' : i = j
    BY <1>2, GrownHistory
  <2>2. QED
    BY <2>1 DEF OneChange
<1>4. ASSUME NEW q \in Requests, NEW i \in DOMAIN History(store, q)',
             History(store, q)'[i].origin = q
      PROVE  (IF History(store, q)[i].operation \in {"revert", "delete"}
              THEN i - 1 \in Produced(store, q)
              ELSE /\ Fits(q, Before(History(store, q), i))
                   /\ History(store, q)[i].config = Changed(q, Before(History(store, q), i)))'
  <2>1. CASE status[q] # "none"
    <3> DEFINE k == NextHistory(q)
    <3>1. History(store, q)' = k /\ Faithful(q, k)
      BY <2>1, GrownHistory
    <3>2. change'[q] = change[q]
      BY <2>1, MadeOnce
    <3>3. Produced(store, q)' = ProducedIn(k, q)
      BY <3>1 DEF Produced
    <3>4. IF k[i].operation \in Undoing THEN i - 1 \in ProducedIn(k, q)
          ELSE Follows(q, Before(k, i), k[i].config)
      BY <1>4, <3>1 DEF Faithful
    <3> HIDE DEF k
    <3>5. QED
      BY <3>1, <3>2, <3>3, <3>4 DEF Undoing, Follows, Fits, Changed, Before
  <2>2. CASE status[q] = "none"
    <3> DEFINE k == History(store, q)'
    <3>1. \A j \in DOMAIN k : k[j].origin # q
      BY <1>2, <2>2
    <3>2. QED
      BY <1>4, <3>1
  <2>3. QED
    BY <2>1, <2>2
<1>5. NothingOverwritten'
  BY <1>4 DEF NothingOverwritten
<1>6. QED
  BY <1>1, <1>3, <1>5

\* A decision that did not step finds what it relied on.
LEMMA OthersUndisturbed ==
    ASSUME IInv, NEW by, Effect(by), NEW d \in Deciders \ {by}, work[d].at # "idle"
    PROVE  DecisionOK(d, work[d].request)'
<1>1. work'[d] = work[d]
  BY DEF Effect
<1> PICK q \in Requests : q = work[d].request
  BY DEF IInv, DecisionsOK, DecisionOK
<1>2. DecisionOK(d, q)
  BY DEF IInv, DecisionsOK
<1>3. status[q] # "none"
  BY <1>2 DEF DecisionOK
<1>4. /\ status'[q] # "none" /\ change'[q] = change[q]
      /\ Produced(store, q) \subseteq Produced(store, q)'
      /\ q \in lost \/ (lock[q] = by /\ status[q] = "pending")
            \/ Produced(store, q)' = Produced(store, q)
  BY <1>3, MadeOnce, GrownHistory
<1>5. q \notin lost => lock[q] = d
  BY DEF IInv, TypeOK
<1>6. lock'[q] = d => lock[q] = d
  BY <1>3 DEF Effect
<1>7. lock[q] = d => status'[q] = status[q]
  <2>1. RequestStep(by, q)
    BY <1>3 DEF Effect
  <2>2. QED
    BY <1>3, <2>1 DEF RequestStep
<1>8. store' = store \/ (store'.version = store.version + 1 /\ store.version \in Nat)
  BY StoreAfter DEF IInv, TypeOK, Effect
<1>9. q \notin lost' => q \notin lost
  BY DEF Effect
<1>10. q \notin lost => Produced(store, q)' = Produced(store, q)
  BY <1>4, <1>5
<1>11. work[d].version \in Nat
  BY DEF IInv, WorkTyped
<1>12. work[d].at = "write" /\ work[d].version = store'.version => PlanOK(d, q)'
  <2> SUFFICES ASSUME work[d].at = "write", work[d].version = store'.version
               PROVE  PlanOK(d, q)'
    OBVIOUS
  <2>1. work[d].version <= store.version
    BY <1>2 DEF DecisionOK
  <2>2. store' = store
    BY <1>8, <1>11, <2>1
  <2>3. PlanOK(d, q)
    BY <1>2, <2>2 DEF DecisionOK
  <2>4. /\ Produced(store, q)' = Produced(store, q)
        /\ InScope(store, q)' <=> InScope(store, q)
        /\ Applicable(store, q)' <=> Applicable(store, q)
        /\ ApplyBatch(store, q)' = ApplyBatch(store, q)
        /\ revertible(store, q)' <=> revertible(store, q)
        /\ RevertBatch(store, q)' = RevertBatch(store, q)
    BY <1>3, <1>4, <2>2, SameReadings
  <2>5. QED
    BY <1>1, <2>3, <2>4 DEF PlanOK
<1>13. lock'[q] = d => decidable(q, work[d].decision)'
  BY <1>1, <1>2, <1>6, <1>7 DEF DecisionOK, decidable
<1>14. work[d].version <= store'.version
  BY <1>2, <1>8, <1>11 DEF DecisionOK
<1>15. Produced(store, q) # {} => Produced(store, q)' # {}
  BY <1>4
<1>16. /\ work[d].decision \in {"approve", "refuse", "revert"}
       /\ work[d].decision = "revert" => Produced(store, q)' # {}
       /\ work[d].at # "record" => work[d].decision # "refuse"
       /\ work[d].at = "record" =>
             /\ work[d].outcome \in {"approved", "refused", "superseded", "reverted"}
             /\ work[d].outcome = "reverted" <=> work[d].decision = "revert"
             /\ work[d].outcome = "approved" => Produced(store, q)' # {}
             /\ work[d].outcome \in {"refused", "superseded"} /\ q \notin lost' =>
                   Produced(store, q)' = {}
  BY <1>2, <1>9, <1>10, <1>15 DEF DecisionOK
<1>17. DecisionOK(d, q)'
  BY <1>1, <1>3, <1>4, <1>12, <1>13, <1>14, <1>16 DEF DecisionOK
<1>18. QED
  BY <1>1, <1>17

\* What was decided agrees with the assets as they are then.
LEMMA DecidedAfter ==
    ASSUME IInv, NEW by, Effect(by)
    PROVE  DecidedOK'
<1> SUFFICES ASSUME NEW q \in Requests
             PROVE  /\ status'[q] \in {"approved", "reverted"} => Produced(store, q)' # {}
                    /\ status'[q] \in {"refused", "superseded"} /\ q \notin lost' =>
                          Produced(store, q)' = {}
  BY DEF DecidedOK
<1>1. RequestStep(by, q) /\ (q \notin lost' => q \notin lost)
  BY DEF Effect
<1>2. /\ status[q] \in {"approved", "reverted"} => Produced(store, q) # {}
      /\ status[q] \in {"refused", "superseded"} /\ q \notin lost => Produced(store, q) = {}
  BY DEF IInv, DecidedOK
<1>3. CASE status[q] = "none"
  BY <1>1, <1>3 DEF RequestStep, IInv, DecisionsOK, DecisionOK
<1>4. CASE status[q] # "none"
  <2>1. /\ Produced(store, q) \subseteq Produced(store, q)'
        /\ q \in lost \/ (lock[q] = by /\ status[q] = "pending")
              \/ Produced(store, q)' = Produced(store, q)
    BY <1>4, GrownHistory
  <2>2. CASE status'[q] = status[q]
    BY <1>1, <1>2, <2>1, <2>2
  <2>3. CASE /\ by \in Deciders /\ lock[q] = by /\ work[by].at = "record" /\ work[by].request = q
             /\ status'[q] = work[by].outcome /\ change'[q] = change[q] /\ store' = store
    <3>1. DecisionOK(by, q)
      BY <2>3 DEF IInv, DecisionsOK
    <3>2. Produced(store, q)' = Produced(store, q)
      BY <1>4, <2>3, MadeOnce, SameReadings
    <3>3. /\ work[by].outcome = "approved" => Produced(store, q) # {}
          /\ work[by].outcome = "reverted" => Produced(store, q) # {}
          /\ work[by].outcome \in {"refused", "superseded"} /\ q \notin lost =>
                Produced(store, q) = {}
      BY <2>3, <3>1 DEF DecisionOK
    <3>4. QED
      BY <1>1, <2>3, <3>2, <3>3
  <2>4. QED
    BY <1>1, <1>4, <2>2, <2>3 DEF RequestStep
<1>5. QED
  BY <1>3, <1>4

\* Assets, requests, locks and decisions stay of their types.
LEMMA TypesAfter ==
    ASSUME IInv, NEW by, Effect(by)
    PROVE  TypeOK' /\ WorkTyped'
<1>1. WellFormedStore(store')
  BY StoreAfter DEF IInv, Effect
<1>2. /\ store'.version \in Nat /\ store'.default \in Agents \cup {Null}
      /\ \A n \in Names : WellFormed(store'.assets[n], n, Requests)
  BY <1>1 DEF WellFormedStore
<1>3. ASSUME NEW q \in Requests
      PROVE  IF status'[q] = "none" THEN change'[q] = Null ELSE change'[q] \in Changes
  <2>1. IF status[q] = "none" THEN change[q] = Null ELSE change[q] \in Changes
    BY DEF IInv, TypeOK
  <2>2. CASE status[q] = "none"
    <3>1. RequestStep(by, q)
      BY DEF Effect
    <3>2. \/ status'[q] = status[q] /\ change'[q] = change[q]
          \/ status'[q] = "pending" /\ change'[q] \in Changes
      BY <2>2, <3>1 DEF RequestStep, IInv, DecisionsOK, DecisionOK
    <3>3. QED
      BY <2>1, <2>2, <3>2
  <2>3. CASE status[q] # "none"
    BY <2>1, <2>3, MadeOnce
  <2>4. QED
    BY <2>2, <2>3
<1>4. ASSUME NEW d \in Deciders
      PROVE  /\ work'[d].at \in {"idle", "version", "read", "write", "record"}
             /\ work'[d].at # "idle" => lock'[work'[d].request] = d \/ work'[d].request \in lost'
             /\ work'[d] \in [at: {"idle", "version", "read", "write", "record"},
                             request: Requests \cup {Null},
                             decision: {"approve", "refuse", "revert", Null}, version: Nat,
                             batch: {work'[d].batch}, outcome: Statuses \cup {Null}]
  <2>1. CASE d = by
    BY <2>1 DEF Effect, OwnStep
  <2>2. CASE d # by
    <3>1. work'[d] = work[d]
      BY <2>2 DEF Effect
    <3>2. work[d] \in [at: {"idle", "version", "read", "write", "record"},
                       request: Requests \cup {Null},
                       decision: {"approve", "refuse", "revert", Null}, version: Nat,
                       batch: {work[d].batch}, outcome: Statuses \cup {Null}]
      BY DEF IInv, WorkTyped
    <3>3. /\ work[d].at \in {"idle", "version", "read", "write", "record"}
          /\ work[d].at # "idle" =>
                work[d].request \in Requests
                /\ (lock[work[d].request] = d \/ work[d].request \in lost)
      BY DEF IInv, TypeOK, DecisionsOK, DecisionOK
    <3>4. \A q \in Requests : lock[q] = d => lock'[q] = d
      BY <2>2 DEF Effect
    <3>5. lost \subseteq lost'
      BY DEF Effect
    <3>6. QED
      BY <3>1, <3>2, <3>3, <3>4, <3>5
  <2>3. QED
    BY <2>1, <2>2
<1>5. /\ status' \in [Requests -> Statuses] /\ lock' \in [Requests -> Deciders \cup {Null}]
      /\ lost' \subseteq Requests /\ DOMAIN work' = Deciders
  BY DEF Effect
<1>6. TypeOK'
  BY <1>2, <1>3, <1>4, <1>5 DEF TypeOK
<1>7. WorkTyped'
  BY <1>4, <1>5 DEF WorkTyped
<1>8. QED
  BY <1>6, <1>7

\* Whatever has such an effect keeps the invariant.
LEMMA Preservation ==
    ASSUME IInv, NEW by, Effect(by)
    PROVE  IInv'
<1>1. DecisionsOK'
  <2>1. ASSUME NEW d \in Deciders, work'[d].at # "idle"
        PROVE  DecisionOK(d, work[d].request)'
    <3>1. CASE d = by
      BY <2>1, <3>1 DEF Effect, OwnStep
    <3>2. CASE d # by
      <4>1. work[d].at # "idle"
        BY <2>1, <3>2 DEF Effect
      <4>2. QED
        BY <3>2, <4>1, OthersUndisturbed
    <3>3. QED
      BY <3>1, <3>2
  <2>2. QED
    BY <2>1 DEF DecisionsOK
<1>2. DOMAIN change' = Requests /\ EditsOK'
  BY DEF Effect
<1>3. QED
  BY <1>1, <1>2, TypesAfter, HistoriesKept, DecidedAfter DEF IInv

-----------------------------------------------------------------------------
(* Every step is such a step. *)

Work(b) ==
    [at: {"idle", "version", "read", "write", "record"}, request: Requests \cup {Null},
     decision: {"approve", "refuse", "revert", Null}, version: Nat, batch: {b},
     outcome: Statuses \cup {Null}]

\* A step that writes nothing and decides nothing.
LEMMA QuietStep ==
    ASSUME IInv, NEW by, UNCHANGED <<store, status, change, edit>>,
           lock' \in [Requests -> Deciders \cup {Null}],
           \A q \in Requests, d \in Deciders \ {by} : lock'[q] = d <=> lock[q] = d,
           lost \subseteq lost', lost' \subseteq Requests,
           DOMAIN work' = Deciders, \A d \in Deciders \ {by} : work'[d] = work[d],
           by \in Deciders => OwnStep(by)
    PROVE  Effect(by)
<1>1. StoreStep(by) /\ \A q \in Requests : RequestStep(by, q)
  BY DEF StoreStep, RequestStep
<1>2. status' \in [Requests -> Statuses] /\ DOMAIN change' = Requests
  BY DEF IInv, TypeOK
<1>3. EditsOK'
  BY DEF IInv, EditsOK
<1>4. QED
  BY <1>1, <1>2, <1>3 DEF Effect

\* What an unlocking leaves locked.
LEMMA Unlocking ==
    ASSUME IInv, NEW d \in Deciders, Unlocks(d)
    PROVE  /\ lock' \in [Requests -> Deciders \cup {Null}]
           /\ \A q \in Requests, e \in Deciders \ {d} : lock'[q] = e <=> lock[q] = e
           /\ \A q \in Requests : lock'[q] # d
<1>1. lock \in [Requests -> Deciders \cup {Null}]
  BY DEF IInv, TypeOK
<1>2. lock' \in [Requests -> Deciders \cup {Null}]
  BY <1>1 DEF Unlocks
<1>3. \A q \in Requests : lock'[q] = IF lock[q] = d THEN Null ELSE lock[q]
  BY DEF Unlocks
<1>4. QED
  BY <1>2, <1>3

\* A decision that ends, or starts to be something else, disturbs no other.
LEMMA OneWorks ==
    ASSUME IInv, NEW d \in Deciders, NEW w, work' = [work EXCEPT ![d] = w]
    PROVE  /\ DOMAIN work' = Deciders /\ work'[d] = w
           /\ \A e \in Deciders \ {d} : work'[e] = work[e]
BY DEF IInv, WorkTyped

\* A decision that fails is idle and holds nothing.
LEMMA FailedStep ==
    ASSUME IInv, NEW d \in Deciders, Fails(d)
    PROVE  /\ DOMAIN work' = Deciders /\ \A e \in Deciders \ {d} : work'[e] = work[e]
           /\ OwnStep(d)
           /\ lock' \in [Requests -> Deciders \cup {Null}]
           /\ \A q \in Requests, e \in Deciders \ {d} : lock'[q] = e <=> lock[q] = e
<1>1. work' = [work EXCEPT ![d] = Idle] /\ Unlocks(d)
  BY DEF Fails, Ends
<1>2. /\ DOMAIN work' = Deciders /\ work'[d] = Idle
      /\ \A e \in Deciders \ {d} : work'[e] = work[e]
  BY <1>1, OneWorks
<1>3. Idle \in Work(Idle.batch) /\ Idle.at = "idle"
  BY DEF Idle, Work
<1>4. OwnStep(d)
  BY <1>2, <1>3 DEF OwnStep, Work
<1>5. QED
  BY <1>1, <1>2, <1>4, Unlocking

\* Die, and whatever else ends a decision that has written nothing.
LEMMA FailedEffect ==
    ASSUME IInv, NEW d \in Deciders, Fails(d), UNCHANGED <<store, status, change, edit, lost>>
    PROVE  Effect(d)
<1>1. lost \subseteq lost' /\ lost' \subseteq Requests
  BY DEF IInv, TypeOK
<1>2. QED
  BY <1>1, FailedStep, QuietStep

\* A decision goes on: what it plans and what it has found hold.
LEMMA GoesOn ==
    ASSUME IInv, NEW d \in Deciders, NEW q \in Requests, NEW w,
           UNCHANGED <<store, status, change, edit>>,
           lost \subseteq lost', lost' \subseteq Requests,
           lock' \in [Requests -> Deciders \cup {Null}],
           \A r \in Requests, e \in Deciders \ {d} : lock'[r] = e <=> lock[r] = e,
           work' = [work EXCEPT ![d] = w], w \in Work(w.batch), w.request = q,
           status[q] # "none", lock'[q] = d \/ q \in lost',
           lock'[q] = d => decidable(q, w.decision),
           w.decision \in {"approve", "refuse", "revert"},
           w.decision = "revert" => Produced(store, q) # {},
           w.at # "record" => w.decision # "refuse",
           w.version <= store.version,
           w.at = "write" /\ w.version = store.version =>
              /\ w.decision = "approve" =>
                    /\ Produced(store, q) = {} /\ InScope(store, q) /\ Applicable(store, q)
                    /\ w.batch = ApplyBatch(store, q)
              /\ w.decision = "revert" => revertible(store, q) /\ w.batch = RevertBatch(store, q),
           w.at = "record" =>
              /\ w.outcome \in {"approved", "refused", "superseded", "reverted"}
              /\ w.outcome = "reverted" <=> w.decision = "revert"
              /\ w.outcome = "approved" => Produced(store, q) # {}
              /\ w.outcome \in {"refused", "superseded"} /\ q \notin lost' =>
                    Produced(store, q) = {}
    PROVE  Effect(d)
<1>1. /\ DOMAIN work' = Deciders /\ work'[d] = w
      /\ \A e \in Deciders \ {d} : work'[e] = work[e]
  BY OneWorks
<1>2. /\ Produced(store, q)' = Produced(store, q)
      /\ InScope(store, q)' <=> InScope(store, q)
      /\ Applicable(store, q)' <=> Applicable(store, q)
      /\ ApplyBatch(store, q)' = ApplyBatch(store, q)
      /\ revertible(store, q)' <=> revertible(store, q)
      /\ RevertBatch(store, q)' = RevertBatch(store, q)
  BY SameReadings
<1>3. w.at = "write" /\ w.version = store.version => PlanOK(d, q)'
  BY <1>1, <1>2 DEF PlanOK
<1>4. lock'[q] = d => decidable(q, work[d].decision)'
  BY <1>1 DEF decidable
<1>5. DecisionOK(d, q)'
  BY <1>1, <1>2, <1>3, <1>4 DEF DecisionOK
<1>6. OwnStep(d)
  BY <1>1, <1>5 DEF OwnStep, Work
<1>7. QED
  BY <1>1, <1>6, QuietStep

\* A request is made: nobody has worked on it and no asset is touched.
LEMMA CreateRequestEffect ==
    ASSUME IInv, NEW q \in Requests, NEW c \in Changes, CreateRequest(q, c)
    PROVE  Effect(Null)
<1>1. /\ status[q] = "none" /\ change' = [change EXCEPT ![q] = c]
      /\ status' = [status EXCEPT ![q] = "pending"]
      /\ UNCHANGED <<store, lock, work, edit, lost>>
  BY DEF CreateRequest
<1>2. /\ status \in [Requests -> Statuses] /\ DOMAIN change = Requests
      /\ lock \in [Requests -> Deciders \cup {Null}] /\ lost \subseteq Requests
      /\ DOMAIN work = Deciders
  BY DEF IInv, TypeOK, WorkTyped
<1>3. status' \in [Requests -> Statuses] /\ DOMAIN change' = Requests
  BY <1>1, <1>2 DEF Statuses
<1>4. \A r \in Requests : RequestStep(Null, r)
  BY <1>1, <1>2 DEF RequestStep
<1>5. StoreStep(Null) /\ EditsOK'
  BY <1>1 DEF StoreStep, IInv, EditsOK
<1>6. QED
  BY <1>1, <1>2, <1>3, <1>4, <1>5 DEF Effect

\* The row is locked by one.
LEMMA Locking ==
    ASSUME IInv, NEW d \in Deciders, NEW q \in Requests, lock[q] = Null,
           lock' = [lock EXCEPT ![q] = d]
    PROVE  /\ lock' \in [Requests -> Deciders \cup {Null}] /\ lock'[q] = d
           /\ \A r \in Requests, e \in Deciders \ {d} : lock'[r] = e <=> lock[r] = e
<1>1. lock \in [Requests -> Deciders \cup {Null}]
  BY DEF IInv, TypeOK
<1>2. lock' \in [Requests -> Deciders \cup {Null}] /\ lock'[q] = d
  BY <1>1
<1>3. \A r \in Requests : lock'[r] = IF r = q THEN d ELSE lock[r]
  BY <1>1
<1>4. QED
  BY <1>2, <1>3

\* A decision begins on a request that is as it has to be; what it refuses is not live.
LEMMA BeginEffect ==
    ASSUME IInv, NEW d \in Deciders, NEW q \in Requests,
           NEW decision \in {"approve", "refuse", "revert"}, Begin(d, q, decision)
    PROVE  Effect(d)
<1> DEFINE decided(outcome) == [Idle EXCEPT !.at = "record", !.request = q,
                                            !.decision = decision, !.outcome = outcome]
           begun == [Idle EXCEPT !.at = "version", !.request = q, !.decision = decision]
<1>1. /\ lock[q] = Null /\ decidable(q, decision)
      /\ lock' = [lock EXCEPT ![q] = d]
      /\ UNCHANGED <<store, status, change, edit, lost>>
      /\ \/ decision = "refuse" /\ ~isApplied(store, q)
            /\ work' = [work EXCEPT ![d] = decided("refused")]
         \/ decision = "approve" /\ isStale(store, q)
            /\ work' = [work EXCEPT ![d] = decided("superseded")]
         \/ decision \in {"approve", "revert"} /\ work' = [work EXCEPT ![d] = begun]
  BY DEF Begin
<1>2. /\ lock' \in [Requests -> Deciders \cup {Null}] /\ lock'[q] = d
      /\ \A r \in Requests, e \in Deciders \ {d} : lock'[r] = e <=> lock[r] = e
  BY <1>1, Locking
<1>3. /\ lost \subseteq lost' /\ lost' \subseteq Requests /\ store.version \in Nat
  BY <1>1 DEF IInv, TypeOK
<1>4. status[q] # "none" /\ (decision = "revert" => Produced(store, q) # {})
  BY <1>1 DEF decidable, IInv, DecidedOK
<1>5. ASSUME NEW outcome \in {"refused", "superseded"}
      PROVE  LET w == decided(outcome)
             IN  /\ w \in Work(w.batch) /\ w.at = "record" /\ w.request = q
                 /\ w.decision = decision /\ w.version = 0 /\ w.outcome = outcome
  BY DEF Idle, Work, Statuses
<1>6. LET w == begun
      IN  /\ w \in Work(w.batch) /\ w.at = "version" /\ w.request = q
          /\ w.decision = decision /\ w.version = 0
  BY DEF Idle, Work, Statuses
<1> HIDE DEF decided, begun
<1>7. 0 <= store.version
  BY <1>3
<1>8. CASE decision = "refuse" /\ ~isApplied(store, q)
           /\ work' = [work EXCEPT ![d] = decided("refused")]
  <2>1. Produced(store, q) = {}
    BY <1>8 DEF isApplied
  <2> DEFINE w == decided("refused")
  <2>2. /\ w \in Work(w.batch) /\ w.at = "record" /\ w.request = q
        /\ w.decision = "refuse" /\ w.version = 0 /\ w.outcome = "refused"
        /\ work' = [work EXCEPT ![d] = w]
    BY <1>5, <1>8
  <2> HIDE DEF w
  <2>3. decidable(q, w.decision)
    BY <1>1, <1>8, <2>2
  <2>4. QED
    BY <1>1, <1>2, <1>3, <1>4, <1>7, <2>1, <2>2, <2>3, GoesOn
<1>9. CASE decision = "approve" /\ isStale(store, q)
           /\ work' = [work EXCEPT ![d] = decided("superseded")]
  <2>1. Produced(store, q) = {}
    BY <1>9 DEF isStale
  <2> DEFINE w == decided("superseded")
  <2>2. /\ w \in Work(w.batch) /\ w.at = "record" /\ w.request = q
        /\ w.decision = "approve" /\ w.version = 0 /\ w.outcome = "superseded"
        /\ work' = [work EXCEPT ![d] = w]
    BY <1>5, <1>9
  <2> HIDE DEF w
  <2>3. decidable(q, w.decision)
    BY <1>1, <1>9, <2>2
  <2>4. QED
    BY <1>1, <1>2, <1>3, <1>4, <1>7, <2>1, <2>2, <2>3, GoesOn
<1>10. CASE decision \in {"approve", "revert"} /\ work' = [work EXCEPT ![d] = begun]
  <2> DEFINE w == begun
  <2>1. /\ w \in Work(w.batch) /\ w.at = "version" /\ w.request = q
        /\ w.decision = decision /\ w.version = 0 /\ work' = [work EXCEPT ![d] = w]
    BY <1>6, <1>10
  <2> HIDE DEF w
  <2>2. QED
    BY <1>1, <1>2, <1>3, <1>4, <1>7, <1>10, <2>1, GoesOn
<1>11. QED
  BY <1>1, <1>8, <1>9, <1>10

\* A decision under way, before its step.
LEMMA UnderWay ==
    ASSUME IInv, NEW d \in Deciders, work[d].at # "idle"
    PROVE  \E q \in Requests :
              /\ q = work[d].request /\ DecisionOK(d, q) /\ status[q] # "none"
              /\ lock[q] = d \/ q \in lost
              /\ work[d] \in Work(work[d].batch)
              /\ store.version \in Nat /\ lost \subseteq Requests
              /\ lock \in [Requests -> Deciders \cup {Null}]
<1>1. work[d].request \in Requests /\ DecisionOK(d, work[d].request)
      /\ status[work[d].request] # "none"
  BY DEF IInv, DecisionsOK, DecisionOK
<1>2. /\ lock[work[d].request] = d \/ work[d].request \in lost
      /\ work[d] \in Work(work[d].batch)
      /\ store.version \in Nat /\ lost \subseteq Requests
      /\ lock \in [Requests -> Deciders \cup {Null}]
  BY DEF IInv, TypeOK, WorkTyped, Work
<1>3. QED
  BY <1>1, <1>2

\* The version that is read is the store's own.
LEMMA ReadVersionEffect ==
    ASSUME IInv, NEW d \in Deciders, ReadVersion(d)
    PROVE  Effect(d)
<1>1. /\ work[d].at = "version"
      /\ work' = [work EXCEPT ![d].version = store.version, ![d].at = "read"]
      /\ UNCHANGED <<store, status, change, lock, edit, lost>>
  BY DEF ReadVersion
<1>2. PICK q \in Requests :
         /\ q = work[d].request /\ DecisionOK(d, q) /\ status[q] # "none"
         /\ lock[q] = d \/ q \in lost
         /\ work[d] \in Work(work[d].batch)
         /\ store.version \in Nat /\ lost \subseteq Requests
         /\ lock \in [Requests -> Deciders \cup {Null}]
  BY <1>1, UnderWay
<1> DEFINE w == [work[d] EXCEPT !.version = store.version, !.at = "read"]
<1>3. work' = [work EXCEPT ![d] = w]
  BY <1>1
<1>4. /\ w \in Work(w.batch) /\ w.at = "read" /\ w.request = q
      /\ w.decision = work[d].decision /\ w.version = store.version
  BY <1>2 DEF Work
<1> HIDE DEF w
<1>5. w.version <= store.version
  BY <1>2, <1>4
<1>6. QED
  BY <1>1, <1>2, <1>3, <1>4, <1>5, GoesOn DEF DecisionOK

\* What is planned is planned of the assets as they are.
LEMMA ReadAssetsEffect ==
    ASSUME IInv, NEW d \in Deciders, ReadAssets(d)
    PROVE  Effect(d)
<1>1. work[d].at = "read" /\ UNCHANGED <<store, status, change, edit, lost>>
  BY DEF ReadAssets
<1>2. PICK q \in Requests :
         /\ q = work[d].request /\ DecisionOK(d, q) /\ status[q] # "none"
         /\ lock[q] = d \/ q \in lost
         /\ work[d] \in Work(work[d].batch)
         /\ store.version \in Nat /\ lost \subseteq Requests
         /\ lock \in [Requests -> Deciders \cup {Null}]
  BY <1>1, UnderWay
<1> DEFINE outcome == Outcome(work[d].decision)
           recorded == [work[d] EXCEPT !.outcome = outcome, !.at = "record"]
           planned(b) == [work[d] EXCEPT !.batch = b, !.at = "write"]
<1>3. /\ work[d].decision \in {"approve", "revert"}
      /\ work[d].decision = "revert" => Produced(store, q) # {}
      /\ lock[q] = d => decidable(q, work[d].decision)
      /\ work[d].version <= store.version
  BY <1>1, <1>2 DEF DecisionOK
<1>4. \/ Fails(d)
      \/ /\ lock' = lock /\ Produced(store, q) # {}
         /\ work' = [work EXCEPT ![d] = recorded]
      \/ /\ lock' = lock /\ work[d].decision = "approve" /\ Produced(store, q) = {}
         /\ InScope(store, q) /\ Applicable(store, q)
         /\ work' = [work EXCEPT ![d] = planned(ApplyBatch(store, q))]
      \/ /\ lock' = lock /\ work[d].decision = "revert" /\ revertible(store, q)
         /\ work' = [work EXCEPT ![d] = planned(RevertBatch(store, q))]
  <2>1. CASE work[d].decision = "approve"
    <3>1. \/ /\ Produced(store, q) # {} /\ lock' = lock
             /\ work' = [work EXCEPT ![d] = recorded]
          \/ /\ Produced(store, q) = {}
             /\ IF InScope(store, q) /\ Applicable(store, q)
                THEN work' = [work EXCEPT ![d] = planned(ApplyBatch(store, q))] /\ lock' = lock
                ELSE Fails(d)
      <4>1. /\ appliedAlready(store, work[d].request) <=> Produced(store, q) # {}
            /\ work[d].request = q
        BY <1>2 DEF appliedAlready, isApplied
      <4>2. QED
        BY <2>1, <4>1 DEF ReadAssets, Decides
    <3>2. QED
      BY <2>1, <3>1
  <2>2. CASE work[d].decision = "revert"
    BY <1>2, <1>3, <2>2 DEF ReadAssets, Decides
  <2>3. QED
    BY <1>3, <2>1, <2>2
<1>5. /\ recorded \in Work(recorded.batch) /\ recorded.at = "record" /\ recorded.request = q
      /\ recorded.decision = work[d].decision /\ recorded.version = work[d].version
      /\ recorded.outcome = outcome
  BY <1>2 DEF Work, Statuses, Outcome
<1>6. ASSUME NEW b
      PROVE  /\ planned(b) \in Work(planned(b).batch) /\ planned(b).at = "write"
             /\ planned(b).request = q /\ planned(b).decision = work[d].decision
             /\ planned(b).version = work[d].version /\ planned(b).batch = b
  BY <1>2 DEF Work
<1>7. /\ outcome \in {"approved", "reverted"}
      /\ outcome = "reverted" <=> work[d].decision = "revert"
  BY <1>3 DEF Outcome
<1> HIDE DEF outcome, recorded, planned
<1>8. CASE Fails(d)
  BY <1>1, <1>8, FailedEffect
<1>9. CASE lock' = lock /\ Produced(store, q) # {} /\ work' = [work EXCEPT ![d] = recorded]
  <2> DEFINE w == recorded
  <2>1. /\ w \in Work(w.batch) /\ w.at = "record" /\ w.request = q
        /\ w.decision = work[d].decision /\ w.version = work[d].version
        /\ w.outcome \in {"approved", "reverted"}
        /\ w.outcome = "reverted" <=> w.decision = "revert"
        /\ work' = [work EXCEPT ![d] = w]
    BY <1>5, <1>7, <1>9
  <2> HIDE DEF w
  <2>2. /\ lock'[q] = d => decidable(q, w.decision)
        /\ w.version <= store.version
        /\ w.decision \in {"approve", "revert"}
    BY <1>3, <1>9, <2>1
  <2>3. QED
    BY <1>1, <1>2, <1>9, <2>1, <2>2, GoesOn
<1>10. CASE /\ lock' = lock /\ work[d].decision = "approve" /\ Produced(store, q) = {}
            /\ InScope(store, q) /\ Applicable(store, q)
            /\ work' = [work EXCEPT ![d] = planned(ApplyBatch(store, q))]
  <2> DEFINE w == planned(ApplyBatch(store, q))
  <2>1. /\ w \in Work(w.batch) /\ w.at = "write" /\ w.request = q
        /\ w.decision = "approve" /\ w.version = work[d].version
        /\ w.batch = ApplyBatch(store, q) /\ work' = [work EXCEPT ![d] = w]
    BY <1>6, <1>10
  <2> HIDE DEF w
  <2>2. /\ lock'[q] = d => decidable(q, w.decision)
        /\ w.version <= store.version
    BY <1>3, <1>10, <2>1
  <2>3. QED
    BY <1>1, <1>2, <1>10, <2>1, <2>2, GoesOn
<1>11. CASE /\ lock' = lock /\ work[d].decision = "revert" /\ revertible(store, q)
            /\ work' = [work EXCEPT ![d] = planned(RevertBatch(store, q))]
  <2> DEFINE w == planned(RevertBatch(store, q))
  <2>1. /\ w \in Work(w.batch) /\ w.at = "write" /\ w.request = q
        /\ w.decision = "revert" /\ w.version = work[d].version
        /\ w.batch = RevertBatch(store, q) /\ work' = [work EXCEPT ![d] = w]
    BY <1>6, <1>11
  <2> HIDE DEF w
  <2>2. /\ lock'[q] = d => decidable(q, w.decision)
        /\ w.version <= store.version /\ Produced(store, q) # {}
    BY <1>3, <1>11, <2>1
  <2>3. QED
    BY <1>1, <1>2, <1>11, <2>1, <2>2, GoesOn
<1>12. QED
  BY <1>4, <1>8, <1>9, <1>10, <1>11

\* What is written was planned of the very store it is written to.
LEMMA PlannedWrite ==
    ASSUME IInv, NEW d \in Deciders, NEW q \in Requests, q = work[d].request,
           work[d].at = "write", VersionHolds(store, baseVersion(d)),
           UNCHANGED <<status, change>>, store' = Applied(store, work[d].batch)
    PROVE  StoreStep(d) /\ Produced(store, q)' # {}
<1> DEFINE b == work[d].batch
           h == History(store, q)
           k == NextHistory(q)
<1>1. /\ DecisionOK(d, q) /\ status[q] # "none" /\ (lock[q] = d \/ q \in lost)
  BY UnderWay
<1>2. work[d].version = store.version
  BY DEF VersionHolds, baseVersion
<1>3. PlanOK(d, q) /\ work[d].decision \in {"approve", "revert"}
  BY <1>1, <1>2 DEF DecisionOK
<1>4. k = Applied(store, b).assets[change[q].skill].history
  BY DEF NextHistory
<1>5. Produced(store, q)' = ProducedIn(k, q) /\ Produced(store, q) = ProducedIn(h, q)
  BY <1>1 DEF Produced, History, NextHistory
<1>6. h \in Seq(RevisionOf(change[q].skill))
  BY <1>1, HistoryTyped DEF IInv
<1>7. CASE work[d].decision = "approve"
  <2>1. /\ InScope(store, q) /\ Applicable(store, q) /\ Produced(store, q) = {}
        /\ b = ApplyBatch(store, q)
    BY <1>3, <1>7 DEF PlanOK
  <2>2. BatchOK(b) /\ b.origin = q
    BY <1>1, <2>1, ApplyBatchOK DEF IInv
  <2>3. Applies(q, h, k)
    BY <1>1, <1>4, <2>1, WrittenByApply DEF IInv
  <2>4. q \in lost \/ (lock[q] = d /\ status[q] = "pending")
    BY <1>1, <1>7 DEF DecisionOK, decidable
  <2>5. StoreStep(d)
    BY <1>1, <2>2, <2>3, <2>4 DEF StoreStep
  <2> HIDE DEF h, k
  <2>6. ProducedIn(k, q) = {Len(h) + 1}
    BY <1>6, <2>3, AppliedHistory
  <2>7. QED
    BY <1>5, <2>5, <2>6
<1>8. CASE work[d].decision = "revert"
  <2>1. revertible(store, q) /\ b = RevertBatch(store, q)
    BY <1>3, <1>8 DEF PlanOK
  <2>2. BatchOK(b) /\ b.origin = q
    BY <1>1, <2>1, RevertBatchOK DEF IInv
  <2>3. Passes(q, h, k)
    BY <1>1, <1>4, <2>1, WrittenByRevert DEF IInv
  <2>4. Produced(store, q) # {}
    BY <2>1 DEF revertible
  <2>5. StoreStep(d)
    BY <1>1, <2>2, <2>3 DEF StoreStep
  <2> HIDE DEF h, k
  <2>6. ProducedIn(k, q) = ProducedIn(h, q)
    BY <1>6, <2>3, PassedHistory
  <2>7. QED
    BY <1>5, <2>4, <2>5, <2>6
<1>9. QED
  BY <1>3, <1>7, <1>8

\* The batch is written if nothing was written since the version was read.
LEMMA WriteAssetsEffect ==
    ASSUME IInv, NEW d \in Deciders, WriteAssets(d)
    PROVE  Effect(d)
<1> DEFINE w == [work[d] EXCEPT !.outcome = Outcome(work[d].decision), !.at = "record"]
<1>1. /\ work[d].at = "write" /\ UNCHANGED <<status, change, edit, lost>>
      /\ \/ Fails(d) /\ store' = store
         \/ /\ VersionHolds(store, baseVersion(d)) /\ store' = Applied(store, work[d].batch)
            /\ work' = [work EXCEPT ![d] = w] /\ lock' = lock
  BY DEF WriteAssets, Decides
<1>2. CASE Fails(d) /\ store' = store
  BY <1>1, <1>2, FailedEffect
<1>3. CASE /\ VersionHolds(store, baseVersion(d)) /\ store' = Applied(store, work[d].batch)
           /\ work' = [work EXCEPT ![d] = w] /\ lock' = lock
  <2>1. PICK q \in Requests :
           /\ q = work[d].request /\ DecisionOK(d, q) /\ status[q] # "none"
           /\ lock[q] = d \/ q \in lost
           /\ work[d] \in Work(work[d].batch)
           /\ store.version \in Nat /\ lost \subseteq Requests
           /\ lock \in [Requests -> Deciders \cup {Null}]
    BY <1>1, UnderWay
  <2>2. StoreStep(d) /\ Produced(store, q)' # {}
    BY <1>1, <1>3, <2>1, PlannedWrite
  <2>3. /\ work[d].decision \in {"approve", "revert"}
        /\ lock[q] = d => decidable(q, work[d].decision)
        /\ work[d].version <= store.version /\ work[d].version \in Nat
    BY <1>1, <2>1 DEF DecisionOK, Work
  <2>4. /\ w \in Work(w.batch) /\ w.at = "record" /\ w.request = q
        /\ w.decision = work[d].decision /\ w.version = work[d].version
        /\ w.outcome = Outcome(work[d].decision)
    BY <2>1 DEF Work, Statuses, Outcome
  <2>5. /\ w.outcome \in {"approved", "reverted"}
        /\ w.outcome = "reverted" <=> w.decision = "revert"
    BY <2>3, <2>4 DEF Outcome
  <2> HIDE DEF w
  <2>6. /\ DOMAIN work' = Deciders /\ work'[d] = w
        /\ \A e \in Deciders \ {d} : work'[e] = work[e]
    BY <1>3, OneWorks
  <2>7. w.version <= store'.version
    <3>1. store' = store \/ store'.version = store.version + 1
      BY <2>2, StoreAfter DEF IInv
    <3>2. QED
      BY <2>1, <2>3, <2>4, <3>1
  <2>8. lock'[q] = d => decidable(q, work[d].decision)'
    BY <1>1, <1>3, <2>3, <2>4, <2>6 DEF decidable
  <2>9. DecisionOK(d, q)'
    BY <1>1, <2>1, <2>2, <2>3, <2>4, <2>5, <2>6, <2>7, <2>8 DEF DecisionOK
  <2>10. OwnStep(d)
    BY <1>1, <1>3, <2>1, <2>4, <2>6, <2>9 DEF OwnStep, Work
  <2>11. \A r \in Requests : RequestStep(d, r)
    BY <1>1 DEF RequestStep
  <2>12. status' \in [Requests -> Statuses] /\ DOMAIN change' = Requests /\ EditsOK'
    BY <1>1 DEF IInv, TypeOK, EditsOK
  <2>13. QED
    BY <1>1, <1>3, <2>1, <2>2, <2>6, <2>10, <2>11, <2>12 DEF Effect
<1>4. QED
  BY <1>1, <1>2, <1>3

\* The outcome is recorded by the one that holds the row.
LEMMA RecordEffect ==
    ASSUME IInv, NEW d \in Deciders, Record(d)
    PROVE  Effect(d)
<1>1. /\ work[d].at = "record" /\ Fails(d) /\ UNCHANGED <<store, change, edit, lost>>
      /\ status' = IF holdsRow(d) THEN [status EXCEPT ![work[d].request] = work[d].outcome]
                   ELSE status
  BY DEF Record
<1>2. PICK q \in Requests :
         /\ q = work[d].request /\ DecisionOK(d, q) /\ status[q] # "none"
         /\ lock[q] = d \/ q \in lost
         /\ work[d] \in Work(work[d].batch)
         /\ store.version \in Nat /\ lost \subseteq Requests
         /\ lock \in [Requests -> Deciders \cup {Null}]
  BY <1>1, UnderWay
<1>3. CASE ~holdsRow(d)
  BY <1>1, <1>3, FailedEffect
<1>4. CASE holdsRow(d)
  <2>1. status \in [Requests -> Statuses] /\ DOMAIN change = Requests
    BY DEF IInv, TypeOK
  <2>2. work[d].outcome \in Statuses
    BY <1>1, <1>2 DEF DecisionOK, Statuses
  <2>3. /\ status' \in [Requests -> Statuses] /\ status'[q] = work[d].outcome
        /\ \A r \in Requests \ {q} : status'[r] = status[r]
    BY <1>1, <1>2, <1>4, <2>1, <2>2
  <2>4. lock[q] = d
    BY <1>2, <1>4 DEF holdsRow
  <2>5. \A r \in Requests : RequestStep(d, r)
    BY <1>1, <1>2, <2>3, <2>4 DEF RequestStep
  <2>6. StoreStep(d) /\ EditsOK'
    BY <1>1 DEF StoreStep, IInv, EditsOK
  <2>7. /\ DOMAIN work' = Deciders /\ \A e \in Deciders \ {d} : work'[e] = work[e]
        /\ OwnStep(d)
        /\ lock' \in [Requests -> Deciders \cup {Null}]
        /\ \A r \in Requests, e \in Deciders \ {d} : lock'[r] = e <=> lock[r] = e
    BY <1>1, FailedStep
  <2>8. QED
    BY <1>1, <1>2, <2>1, <2>3, <2>5, <2>6, <2>7 DEF Effect
<1>5. QED
  BY <1>3, <1>4

\* A decision that lost its connection goes on without the row.
LEMMA LoseConnectionEffect ==
    ASSUME IInv, NEW d \in Deciders, LoseConnection(d)
    PROVE  Effect(d)
<1>1. /\ work[d].at \notin {"idle", "record"} /\ Unlocks(d)
      /\ lost' = lost \cup {work[d].request}
      /\ UNCHANGED <<store, status, change, work, edit>>
  BY DEF LoseConnection
<1>2. PICK q \in Requests :
         /\ q = work[d].request /\ DecisionOK(d, q) /\ status[q] # "none"
         /\ lock[q] = d \/ q \in lost
         /\ work[d] \in Work(work[d].batch)
         /\ store.version \in Nat /\ lost \subseteq Requests
         /\ lock \in [Requests -> Deciders \cup {Null}]
  BY <1>1, UnderWay
<1>3. /\ lock' \in [Requests -> Deciders \cup {Null}]
      /\ \A r \in Requests, e \in Deciders \ {d} : lock'[r] = e <=> lock[r] = e
      /\ \A r \in Requests : lock'[r] # d
  BY <1>1, Unlocking
<1>4. lost \subseteq lost' /\ lost' \subseteq Requests /\ q \in lost'
  BY <1>1, <1>2
<1>5. /\ Produced(store, q)' = Produced(store, q)
      /\ InScope(store, q)' <=> InScope(store, q)
      /\ Applicable(store, q)' <=> Applicable(store, q)
      /\ ApplyBatch(store, q)' = ApplyBatch(store, q)
      /\ revertible(store, q)' <=> revertible(store, q)
      /\ RevertBatch(store, q)' = RevertBatch(store, q)
  BY <1>1, <1>2, SameReadings
<1>6. PlanOK(d, q) => PlanOK(d, q)'
  BY <1>1, <1>5 DEF PlanOK
<1>7. DecisionOK(d, q)'
  BY <1>1, <1>2, <1>3, <1>5, <1>6 DEF DecisionOK
<1>8. OwnStep(d)
  BY <1>1, <1>2, <1>4, <1>7 DEF OwnStep, Work
<1>9. DOMAIN work' = Deciders
  BY <1>1 DEF IInv, WorkTyped
<1>10. QED
  BY <1>1, <1>3, <1>4, <1>8, <1>9, QuietStep

\* What an editor is about to write is no request's.
LEMMA EditorReadsEffect ==
    ASSUME IInv, NEW e \in Editors, NEW names \in Edits.together, EditorReads(e, names)
    PROVE  Effect(Null)
<1>1. UNCHANGED <<store, status, change, lock, work, lost>>
  BY DEF EditorReads
<1>2. PICK mutations \in {f \in [names -> UNION {Items(n) : n \in names}] :
                              \A n \in names : f[n] \in Items(n)} :
        edit' = [edit EXCEPT ![e] =
                    [batch |-> Batch(mutations, DefaultOf(mutations), Null),
                     baseDefault |-> store.default,
                     baseRevisions |-> [n \in names |->
                         IF Active(store, n) \/ (mutations[n].type = "upsert" /\ mutations[n].operation = "revert")
                         THEN Revision(store, n) ELSE Null]]]
  BY DEF EditorReads
<1>3. LET b == Batch(mutations, DefaultOf(mutations), Null)
      IN BatchOK(b) /\ b.origin = Null
  BY EditBatchOK DEF IInv
<1> DEFINE b == Batch(mutations, DefaultOf(mutations), Null)
<1>4. PICK read : read.batch = b /\ edit' = [edit EXCEPT ![e] = read]
  BY <1>2
<1> HIDE DEF b
<1>5. EditsOK'
  <2>1. DOMAIN edit = Editors
        /\ \A f \in Editors : edit[f] # Null => BatchOK(edit[f].batch) /\ edit[f].batch.origin = Null
    BY DEF IInv, EditsOK
  <2>2. \A f \in Editors : edit'[f] = IF f = e THEN read ELSE edit[f]
    BY <1>4, <2>1
  <2>3. DOMAIN edit' = Editors
    BY <1>4, <2>1
  <2>4. BatchOK(read.batch) /\ read.batch.origin = Null
    BY <1>3, <1>4 DEF b
  <2>5. QED
    BY <2>1, <2>2, <2>3, <2>4 DEF EditsOK
<1>6. StoreStep(Null) /\ \A q \in Requests : RequestStep(Null, q)
  BY <1>1 DEF StoreStep, RequestStep
<1>7. QED
  BY <1>1, <1>5, <1>6 DEF Effect, IInv, TypeOK, WorkTyped

\* An editor's write is someone else's to every request.
LEMMA EditorWritesEffect ==
    ASSUME IInv, NEW e \in Editors, EditorWrites(e)
    PROVE  Effect(Null)
<1>1. /\ edit[e] # Null /\ edit' = [edit EXCEPT ![e] = Null]
      /\ store' = Applied(store, edit[e].batch) \/ store' = store
      /\ UNCHANGED <<status, change, lock, work, lost>>
  BY DEF EditorWrites
<1>2. /\ DOMAIN edit = Editors
      /\ \A f \in Editors : edit[f] # Null => BatchOK(edit[f].batch) /\ edit[f].batch.origin = Null
  BY DEF IInv, EditsOK
<1>3. StoreStep(Null)
  <2>1. BatchOK(edit[e].batch) /\ edit[e].batch.origin = Null
    BY <1>1, <1>2
  <2>2. QED
    BY <1>1, <2>1 DEF StoreStep
<1>4. EditsOK'
  BY <1>1, <1>2 DEF EditsOK
<1>5. \A q \in Requests : RequestStep(Null, q)
  BY <1>1 DEF RequestStep
<1>6. QED
  BY <1>1, <1>3, <1>4, <1>5 DEF Effect, IInv, TypeOK, WorkTyped

\* Every step has such an effect, of a decision or of nobody's.
LEMMA StepEffect ==
    ASSUME IInv, [Next]_vars
    PROVE  \E by \in Deciders \cup {Null} : Effect(by)
<1>1. ASSUME NEW q \in Requests, NEW c \in Changes, CreateRequest(q, c)
      PROVE  Effect(Null)
  BY <1>1, CreateRequestEffect
<1>2. ASSUME NEW d \in Deciders, Decision(d)
      PROVE  Effect(d)
  <2>1. CASE Die(d)
    <3>1. Fails(d) /\ UNCHANGED <<store, status, change, edit, lost>>
      BY <2>1 DEF Die
    <3>2. QED
      BY <3>1, FailedEffect
  <2>2. QED
    BY <1>2, <2>1, BeginEffect, ReadVersionEffect, ReadAssetsEffect, WriteAssetsEffect,
       RecordEffect, LoseConnectionEffect DEF Decision
<1>3. ASSUME NEW e \in Editors,
             EditorWrites(e) \/ \E names \in Edits.together : EditorReads(e, names)
      PROVE  Effect(Null)
  BY <1>3, EditorWritesEffect, EditorReadsEffect
<1>4. CASE UNCHANGED vars
  <2>1. /\ UNCHANGED <<store, status, change, edit>> /\ lock' = lock /\ work' = work /\ lost' = lost
    BY <1>4 DEF vars
  <2>2. /\ lock \in [Requests -> Deciders \cup {Null}] /\ lost \subseteq Requests
        /\ DOMAIN work = Deciders
    BY DEF IInv, TypeOK, WorkTyped
  <2>3. Null \notin Deciders
    OBVIOUS
  <2>4. Effect(Null)
    BY <2>1, <2>2, <2>3, QuietStep
  <2>5. QED
    BY <2>4
<1>5. QED
  BY <1>1, <1>2, <1>3, <1>4 DEF Next

-----------------------------------------------------------------------------
(* What holds of every behaviour. *)

\* At first nothing is asked for, and the assets are no request's.
LEMMA Initial == Init => IInv
<1> SUFFICES ASSUME Init
             PROVE  IInv
  OBVIOUS
<1> USE DEF Init
<1>1. \A q \in Requests : status[q] = "none" /\ change[q] = Null /\ lock[q] = Null
  OBVIOUS
<1>2. \A d \in Deciders : work[d] = Idle
  OBVIOUS
<1>3. Idle \in Work(Idle.batch) /\ Idle.at = "idle"
  BY DEF Idle, Work
<1>4. ASSUME NEW n \in Names
      PROVE  /\ WellFormed(store.assets[n], n, Requests)
             /\ \A q \in Requests : \A i \in DOMAIN store.assets[n].history :
                   store.assets[n].history[i].origin # q
  <2> DEFINE asset == store.assets[n]
             S == [operation: Operations, config: {Null} \cup ConfigOf(n), origin: {Null} \cup {}]
  <2>1. WellFormed(asset, n, {})
    OBVIOUS
  <2> HIDE DEF asset
  <2>2. /\ asset.status \in {"none", "active", "deleted"}
        /\ asset.history \in Seq(S)
        /\ asset.status = "none" <=> asset.history = <<>>
        /\ asset.status = "active" => Last(asset.history).config # Null
        /\ asset.status = "deleted" => Last(asset.history).config = Null
    BY <2>1 DEF WellFormed
  <2>3. S \subseteq RevisionOf(n) /\ \A r \in S : r.origin = Null
    BY DEF RevisionOf
  <2> HIDE DEF S
  <2>4. asset.history \in Seq(RevisionOf(n))
    BY <2>2, <2>3
  <2>5. WellFormed(asset, n, Requests)
    BY <2>2, <2>4, WellFormedAssets
  <2>6. \A i \in DOMAIN asset.history : asset.history[i] \in S
    BY <2>2
  <2>7. \A q \in Requests : \A i \in DOMAIN asset.history : asset.history[i].origin # q
    BY <2>3, <2>6
  <2>8. QED
    BY <2>5, <2>7 DEF asset
<1>5. \A q \in Requests : History(store, q) = <<>> /\ Produced(store, q) = {}
  BY <1>1 DEF History, Produced, ProducedIn
<1>6. TypeOK
  BY <1>1, <1>2, <1>3, <1>4 DEF TypeOK, Statuses
<1>7. WorkTyped
  BY <1>2, <1>3 DEF WorkTyped, Work
<1>8. NobodysYet
  BY <1>4 DEF NobodysYet
<1>9. OneChange
  BY <1>5 DEF OneChange
<1>10. NothingOverwritten
  <2>1. \A q \in Requests : \A i \in DOMAIN History(store, q) : FALSE
    BY <1>5
  <2>2. QED
    BY <2>1 DEF NothingOverwritten
<1>11. DecidedOK
  BY <1>1 DEF DecidedOK
<1>12. DecisionsOK
  BY <1>2, <1>3 DEF DecisionsOK
<1>13. EditsOK
  BY DEF EditsOK
<1>14. QED
  BY <1>6, <1>7, <1>8, <1>9, <1>10, <1>11, <1>12, <1>13 DEF IInv

\* The inductive invariant holds always.
THEOREM Invariance == Spec => []IInv
<1>1. IInv /\ [Next]_vars => IInv'
  BY StepEffect, Preservation
<1>2. QED
  BY Initial, <1>1, PTL DEF Spec

\* Every asset's history is one of definitions of its name and agrees with its state, and a decision
\* under way is of a request whose row it holds unless its connection was lost.
THEOREM TypeCorrect == Spec => []TypeOK
<1>1. IInv => TypeOK
  BY DEF IInv
<1>2. QED
  BY Invariance, <1>1, PTL

\* A request changes its skill at most once, through retries and lost connections (apply,
\* findProducedRevision).
THEOREM OneChangePerRequest == Spec => []AppliedOnce
<1>1. ASSUME IInv
      PROVE  AppliedOnce
  <2>1. ASSUME NEW q \in Requests
        PROVE  Cardinality(Produced(store, q)) <= 1
    <3>1. \A i, j \in Produced(store, q) : i = j
      BY <1>1 DEF IInv, OneChange
    <3>2. CASE Produced(store, q) = {}
      <4>1. Cardinality(Produced(store, q)) = 0
        BY <3>2, FS_EmptySet
      <4>2. QED
        BY <4>1
    <3>3. CASE Produced(store, q) # {}
      <4>1. PICK i : i \in Produced(store, q)
        BY <3>3
      <4>2. Produced(store, q) = {i}
        BY <3>1, <4>1
      <4>3. Cardinality({i}) = 1
        BY FS_Singleton
      <4>4. QED
        BY <4>2, <4>3
    <3>4. QED
      BY <3>2, <3>3
  <2>2. QED
    BY <2>1 DEF AppliedOnce
<1>2. QED
  BY Invariance, <1>1, PTL

\* A decided request and the assets agree, unless a decision of it went on without its connection
\* (transition, assertNotApplied).
THEOREM DecisionsMatch == Spec => []DecisionMatchesAssets
<1>1. IInv => DecisionMatchesAssets
  BY DEF IInv, DecidedOK, DecisionMatchesAssets
<1>2. QED
  BY Invariance, <1>1, PTL

\* A request changes the very content it was planned on, creates its skill where there is none and
\* undoes nothing but its own change: no write in between is lost (applyConfigAssetMutations).
THEOREM NoWriteIsLost == Spec => []NothingOverwritten
<1>1. IInv => NothingOverwritten
  BY DEF IInv
<1>2. QED
  BY Invariance, <1>1, PTL

\* What is decided stays decided, but that an approved request may be reverted (transition).
THEOREM DecisionsAreFinal == Spec => DecidedIsFinal
<1>1. ASSUME IInv, [Next]_vars
      PROVE  [\A q \in Requests : status[q] \notin {"none", "pending"} =>
                 \/ status'[q] = status[q]
                 \/ status[q] = "approved" /\ status'[q] = "reverted"]_vars
  <2>1. PICK by \in Deciders \cup {Null} : Effect(by)
    BY <1>1, StepEffect
  <2>2. ASSUME NEW q \in Requests, status[q] \notin {"none", "pending"}
        PROVE  \/ status'[q] = status[q]
               \/ status[q] = "approved" /\ status'[q] = "reverted"
    <3>1. RequestStep(by, q)
      BY <2>1 DEF Effect
    <3>2. CASE /\ by \in Deciders /\ lock[q] = by /\ work[by].at = "record"
               /\ work[by].request = q /\ status'[q] = work[by].outcome
      <4>1. DecisionOK(by, q)
        BY <1>1, <3>2 DEF IInv, DecisionsOK
      <4>2. status[q] = "approved" /\ work[by].decision = "revert"
        BY <2>2, <3>2, <4>1 DEF DecisionOK, decidable
      <4>3. QED
        BY <3>2, <4>1, <4>2 DEF DecisionOK
    <3>3. QED
      BY <2>2, <3>1, <3>2 DEF RequestStep
  <2>3. QED
    BY <2>2
<1>2. QED
  BY <1>1, Invariance, PTL DEF Spec, DecidedIsFinal

=============================================================================
