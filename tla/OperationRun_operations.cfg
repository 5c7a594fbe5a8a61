CONSTANTS
    Null = Null
    r1 = r1
    r2 = r2
    r3 = r3
    r4 = r4
    k = k
    t1 = t1
    t2 = t2
    Requests = {r1, r2, r3, r4}
    Keys = {k}
    KeyOf <- MCKeyOf
    CallOf <- MCCallOf
    Policies <- MCPolicies
    HasApprovals = TRUE
    Targets = {t1, t2}
SPECIFICATION Spec
INVARIANTS ExecutedOnce RecordIsTrue AnswersAgree PolicyKept
PROPERTIES ImplementsIdempotentCall
