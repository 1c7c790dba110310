SPECIFICATION Spec
CONSTANTS
    NumLevels = 3
    L0Trigger = 1
    MaxMemLevel = 1
    FileLimit = 1
    LevelLimit = 2
    MaxSequence = 20
    Keys = {1, 2}
    MemLimit = 1
    L0Stop = 2
    r1 = r1
    Readers = {r1}
    Budgets <- MixedBudgets
    Nil = Nil
INVARIANTS
    TypeOK
    FilesKept
    LevelsOrdered
    WaitersAreSignalled
PROPERTIES
    KeyValueSpec
CHECK_DEADLOCK FALSE
