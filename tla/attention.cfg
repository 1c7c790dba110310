SPECIFICATION FairSpec
CONSTANTS
    ann = ann
    bea = bea
    d1 = d1
    d2 = d2
    r1 = r1
    Users = {ann}
    Devices = {d1, d2}
    Requests = {r1}
    Loading = Loading
    Nil = Nil
    Unheard = Unheard
    MaxSignIns = 2
    MaxQueued = 1
    MaxFaults = 1
INVARIANTS
    TypeOK
    QuietTokens
PROPERTY RequestReaches
CHECK_DEADLOCK FALSE
