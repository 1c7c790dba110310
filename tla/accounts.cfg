SPECIFICATION FairSpec
CONSTANTS
    a1 = a1
    a2 = a2
    ann = ann
    bea = bea
    Accounts = {a1, a2}
    Names = {ann, bea}
    Nil = Nil
    MaxEntries = 2
    MaxSignOuts = 2
    MaxChanges = 2
    MaxKills = 2
INVARIANTS
    TypeOK
    NeverStuckAtLogin
    TypedTogether
    SessionHasNode
PROPERTY SignInArrives
CHECK_DEADLOCK FALSE
