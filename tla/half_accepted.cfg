SPECIFICATION Spec
CONSTANTS
    ann = ann
    bea = bea
    id1 = id1
    id2 = id2
    Users = {ann, bea}
    Ids = {id1, id2}
    Nil = Nil
    NoSession = NoSession
    SignedUp = {}
    MaxTaps = 2
    MaxDrops = 0
    MaxKills = 1
    MaxLaunches = 0
SYMMETRY Symmetry
INVARIANT AcceptedIsRelationship
CHECK_DEADLOCK FALSE
