SPECIFICATION Spec
CONSTANTS
    Null = Null
    s1 = s1  s2 = s2  c1 = c1  c2 = c2
    start = start  create = create  conv1 = conv1  conv2 = conv2
    Requests = {s1, s2, c1, c2}
    Commands = {start, create}
    Creates = {create}
    CommandOf <- CommandOfRequest
    Conversations = {conv1, conv2}
    DbFails = TRUE
CHECK_DEADLOCK FALSE
SYMMETRY Symmetry
INVARIANTS AcceptedIsRecorded
PROPERTIES ImplementsIdempotentCall
