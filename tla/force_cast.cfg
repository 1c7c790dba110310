SPECIFICATION Spec
CONSTANTS
    ann = ann
    bea = bea
    id1 = id1
    id2 = id2
    Users = {ann, bea}
    Ids = {id1, id2}
    Nil = Nil
    NoSession = NoSession
    SignedUp = {}
    MaxTaps = 3
    MaxDrops = 0
    MaxKills = 0
    MaxLaunches = 0
SYMMETRY Symmetry
INVARIANTS
    CastsSucceed
CHECK_DEADLOCK FALSE
