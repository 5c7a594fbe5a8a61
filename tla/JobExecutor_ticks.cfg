SPECIFICATION FairSpec
CONSTANTS
    Null = Null
    j1 = j1  j2 = j2  j3 = j3  r1 = r1  r2 = r2  r3 = r3  w1 = w1  w2 = w2
    work = work  tick = tick  sole = sole  key1 = key1  key2 = key2
    group1 = group1
    Jobs = {j1, j2}
    Runs = {r1, r2}
    Workers = {w1}
    Kinds = {tick}
    Scheduled = {tick}
    Keys = {key1}
    Groups = {}
    MaxAttempts <- TwoAttempts
    LeaseMs <- Twos
    BackoffBase <- Ones
    BackoffMax <- Ones
    Global <- Ones
    PerKey <- Ones
    Every <- OneTick
    Slots <- OneSlot
    Retryable = {}
    DueAtStart = {tick}
    KeptKeys = {}
    Requests = {}
    DbFails = FALSE
    MaxStops = 1
PROPERTIES TicksKeepRunning
