-------------------------- MODULE MCApprovalRequest --------------------------
EXTENDS ApprovalRequest
CONSTANTS s1, s2, a1, x, y, z, d1, d2

Created(config) == [status |-> "active",
                    history |-> <<[operation |-> "create", config |-> config, origin |-> Null]>>]
MCInitially == [version |-> 0, default |-> a1,
                assets |-> (s1 :> Created({x})) @@ (s2 :> NoAsset) @@ (a1 :> Created({s1}))]
MCChanges == {[type |-> "replace", skill |-> s1, agent |-> a1, old |-> x, new |-> y],
              [type |-> "create", skill |-> s2, agent |-> a1, old |-> Null, new |-> y]}
MCEdits == [together |-> {{s1}, {a1}, {s2}},
            contents |-> (s1 :> {{x}, {x, z}}) @@ (s2 :> {{z}}) @@ (a1 :> {{}, {s1}})]
DeciderSymmetry == Permutations({d1, d2})
=============================================================================
