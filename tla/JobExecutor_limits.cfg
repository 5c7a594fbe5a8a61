SPECIFICATION Spec
CONSTANTS
    Null = Null
    j1 = j1  j2 = j2  j3 = j3  r1 = r1  r2 = r2  r3 = r3  w1 = w1  w2 = w2
    work = work  tick = tick  sole = sole  key1 = key1  key2 = key2
    group1 = group1
    Jobs = {j1, j2}
    Runs = {r1, r2}
    Workers = {w1, w2}
    Kinds = {work, sole}
    Scheduled = {}
    Keys = {key1, key2}
    Groups = {group1}
    MaxAttempts <- Ones
    LeaseMs <- Ones
    BackoffBase <- Ones
    BackoffMax <- Ones
    Global <- SoleAndWork
    PerKey <- Ones
    Every <- OneTick
    Slots <- SoleAndWorkSlots
    Retryable = {sole}
    DueAtStart = {}
    KeptKeys = {key1, key2}
    Requests <- SoleKeysAndGroupWork
    DbFails = FALSE
    MaxStops = 0
SYMMETRY SymmetryKeys
INVARIANTS ConcurrencyLimits OneLivePerKey
