SPECIFICATION Spec
CONSTANTS
    NumLevels = 3
    L0Trigger = 1
    MaxMemLevel = 1
    FileLimit = 2
    LevelLimit = 8
    MaxSequence = 20
    Keys = {1, 2}
    MemLimit = 0
    L0Stop = 2
    r1 = r1
    Readers = {r1}
    Budgets <- SplitBudgets
    Nil = Nil
INVARIANTS
    ObsoleteDeletions
CHECK_DEADLOCK FALSE
