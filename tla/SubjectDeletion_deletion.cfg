SPECIFICATION FairSpec
CONSTANTS
    Null = Null
    Users = {u1}
    Shared = {s1}
    Deletable = {u1, s1}
    Conversations = {c1}
    Calls = {k1}
    Asked = {u1}
INVARIANTS RemovedHoldsNoData ClaimedWasTheirs ExpiredWasDue GoneUserLeavesNothing
PROPERTIES MarkedIsDeleted
CHECK_DEADLOCK FALSE
