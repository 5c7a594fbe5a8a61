CONSTANTS
    Null = Null
    s1 = s1
    s2 = s2
    a1 = a1
    x = x
    y = y
    z = z
    Skills = {s1, s2}
    Agents = {a1}
    Texts = {x, y, z}
    Requests = {q1}
    Changes <- MCChanges
    Deciders = {d1, d2}
    Editors = {e1}
    Edits <- MCEdits
    d1 = d1
    d2 = d2
    Initially <- MCInitially
    MaxVersion = 3
SPECIFICATION Spec
INVARIANTS AppliedOnce DecisionMatchesAssets NothingOverwritten
PROPERTIES DecidedIsFinal
CHECK_DEADLOCK FALSE

SYMMETRY DeciderSymmetry
