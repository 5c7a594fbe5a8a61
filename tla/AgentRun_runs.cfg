SPECIFICATION FairSpec
CONSTANTS
    Null = Null
    j1 = j1  j2 = j2  r1 = r1  r2 = r2  r3 = r3  u1 = u1  u2 = u2
    execute = execute  run1 = run1  previous = previous
    Jobs = {j1, j2}
    Runs = {r1, r2}
    Kinds = {execute}
    Scheduled = {}
    Keys = {run1}
    Groups = {}
    MaxAttempts <- One
    LeaseMs <- Two
    BackoffBase <- One
    BackoffMax <- One
    Global <- Two
    PerKey <- Two
    Every <- NoSchedule
    AgentRuns = {run1}
    Execute = execute
    Upkeeps = {u1}
    Previous = previous
    PreviousRelease = TRUE
    MaxQueued = 2
    DbFails = TRUE
    MaxStops = 1
CHECK_DEADLOCK FALSE
INVARIANTS ExecutedOnce
PROPERTIES ImplementsRunRecord HolderKeepsRun EveryRunEnds
