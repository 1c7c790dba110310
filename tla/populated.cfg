SPECIFICATION Spec
CONSTANTS
    a1 = a1
    a2 = a2
    ann = ann
    bea = bea
    Accounts = {a1, a2}
    Names = {ann, bea}
    Nil = Nil
    MaxEntries = 2
    MaxSignOuts = 1
    MaxChanges = 1
    MaxKills = 1
INVARIANTS
    ValuesPopulated
CHECK_DEADLOCK FALSE
