SPECIFICATION FairSpec
CONSTANTS
    Null = Null
    Me = Me
    MaxEvents = 2
    MaxTools = 1
    HeldMax = 2
    Cancels = TRUE
    Losses = TRUE
    Stops = TRUE
    DbFails = TRUE
CHECK_DEADLOCK FALSE
INVARIANTS LogMatchesRow CompletedHasAnswer AnswerEndsRun
PROPERTIES NothingAfterLoss CancelEndsCancelled RunEnds
