---------------------------- MODULE ConfigAssets ----------------------------
(***************************************************************************)
(* Configuration assets: agents and skills with their revisions, the       *)
(* version of the whole set and the default agent, as                      *)
(* packages/postgres-store/src/postgres-config-asset-operations.ts keeps   *)
(* them.  A batch of mutations is one transaction under the lock of        *)
(* config_asset_state, so it is an operator from store to store.           *)
(***************************************************************************)
EXTENDS Naturals, FiniteSets, SequencesExt

CONSTANTS
    Null,
    Skills, Agents,     \* names of assets; a name belongs to one kind
    Texts               \* pieces of text a skill may hold

Names == Skills \cup Agents
\* What a definition says, as far as writes are told apart: the texts of a skill, the skills of an agent.
ConfigOf(n) == IF n \in Skills THEN SUBSET Texts ELSE SUBSET Skills

Operations == {"create", "update", "delete", "revert"}

ASSUME ConfigAssetsConstants ==
    /\ Skills \cap Agents = {} /\ Null \notin Skills \cup Agents \cup Texts \cup Operations
    /\ \A n \in Names : \A config \in ConfigOf(n) : config # Null

NoAsset == [status |-> "none", history |-> <<>>]

Active(s, n) == s.assets[n].status = "active"
Revision(s, n) == Len(s.assets[n].history)
Config(s, n) == Last(s.assets[n].history).config
ActiveOf(s, names) == {n \in names : Active(s, n)}

\* What an agent refers to exists, and an instance with agents has a default that is one of them
\* (validateAssetSet).
Valid(s) ==
    /\ \A a \in ActiveOf(s, Agents) : Config(s, a) \subseteq ActiveOf(s, Skills)
    /\ IF ActiveOf(s, Agents) = {} THEN s.default = Null ELSE s.default \in ActiveOf(s, Agents)

-----------------------------------------------------------------------------
\* A batch: mutations by name, the default it sets (or "keep"), what it was made against, and the
\* request it comes from.
Upsert(config, operation) == [type |-> "upsert", config |-> config, operation |-> operation]
Delete == [type |-> "delete"]
Batch(mutations, default, origin) == [mutations |-> mutations, default |-> default, origin |-> origin]

\* appendAndActivateRevision.
WithRevision(asset, status, operation, config, origin) ==
    [status |-> status,
     history |-> Append(asset.history, [operation |-> operation, config |-> config,
                                        origin |-> origin])]

\* One mutation: a deleted asset keeps its row and history, and its name is created again on them.
Mutated(asset, m, origin) ==
    CASE m.type = "delete" /\ asset.status # "active" -> asset
      [] m.type = "delete" /\ asset.status = "active" ->
             WithRevision(asset, "deleted", "delete", Null, origin)
      [] m.type = "upsert" ->
             WithRevision(asset, "active",
                          IF m.operation # Null THEN m.operation
                          ELSE IF asset.status = "active" THEN "update" ELSE "create",
                          m.config, origin)

Applied(s, b) ==
    [version |-> s.version + 1,
     default |-> IF b.default = "keep" THEN s.default ELSE b.default,
     assets |-> [n \in Names |-> IF n \in DOMAIN b.mutations
                                 THEN Mutated(s.assets[n], b.mutations[n], b.origin)
                                 ELSE s.assets[n]]]

\* assertConfigAssetBases, for a batch made against the whole set ...
VersionHolds(s, baseVersion) == baseVersion = s.version

\* ... and for one made against single assets: Null expects no active asset of the name.  A batch
\* that sets the default names the one it replaces.
RevisionsHold(s, b, baseRevisions, baseDefault) ==
    /\ \A n \in DOMAIN b.mutations :
          IF baseRevisions[n] = Null THEN ~Active(s, n) ELSE Revision(s, n) = baseRevisions[n]
    /\ b.default # "keep" => s.default = baseDefault

\* The default the batch leaves is an active agent.
DefaultHolds(s) == s.default = Null \/ s.default \in ActiveOf(s, Agents)
=============================================================================
