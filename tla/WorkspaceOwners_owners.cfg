SPECIFICATION Spec
CONSTANTS
    Null = Null
    Users = {u1, u2}
    First = u1
    Requests = {q1, q2}
INVARIANTS HasActiveOwner
