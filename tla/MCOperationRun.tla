--------------------------- MODULE MCOperationRun ---------------------------
EXTENDS OperationRun, TLC
CONSTANTS r1, r2, r3, r4, k, t1, t2

MCKeyOf == (r1 :> k) @@ (r2 :> k) @@ (r3 :> k) @@ (r4 :> k)
MCCallOf == (r1 :> "a") @@ (r2 :> "a") @@ (r3 :> "a") @@ (r4 :> "b")

Changing(default, central, guardrail, confirm) ==
    [effect |-> "changing", instanceDefault |-> default, declared |-> Null, central |-> central,
     targets |-> {t1, t2}, guardrail |-> guardrail, callerCanConfirm |-> confirm]
On(t, v) == [value |-> v, target |-> t]

MCPolicies ==
    {Changing(d, c, g, f) :
        d \in {"allow", "confirm"},
        c \in {{}, {On(t1, "deny")}, {On(t2, "approval")}, {On(t1, "allow"), On(t2, "deny")}},
        g \in {"allow", "require_approval", "block"},
        f \in BOOLEAN}
    \cup {[Changing("confirm", {On(Null, "approval")}, "warn", FALSE) EXCEPT !.effect = "reading",
                                                                            !.declared = "deny"],
          [Changing("approval", {On(t1, "approval")}, "warn", FALSE) EXCEPT !.effect = "reading"]}
=============================================================================
