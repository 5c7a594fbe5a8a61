SPECIFICATION FairSpec
CONSTANTS
    Null = Null
    c1 = c1  c2 = c2  c3 = c3  t1 = t1  l1 = l1
    Calls = {c1, c2, c3}
    Records = {t1}
    Legacy = {l1}
    Reserved <- TwoAndThree
    Uses = {3}
    CallsPerDay = 1
    TokensPerDay = 2
    TokensPerMonth = 3
    DaysPerMonth = 2
    LastDay = 1
    Parties = {{c1, c2}, {c3}, {c1, t1}, {c1, l1}, {t1, l1}}
CHECK_DEADLOCK FALSE
INVARIANTS LedgerMatchesEvents NeverOverbooked
PROPERTIES SettledIsFinal EveryReservationEnds SumsConverge
