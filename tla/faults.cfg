SPECIFICATION FairSpec
CONSTANTS
    ann = ann
    bea = bea
    id1 = id1
    id2 = id2
    Users = {ann, bea}
    Ids = {id1, id2}
    Nil = Nil
    NoSession = NoSession
    SignedUp = {ann}
    MaxTaps = 2
    MaxDrops = 1
    MaxKills = 1
    MaxLaunches = 1
INVARIANTS
    AcksMatchPuts
    NothingMissed
    AcceptedGetsRoom
    UnsentStaysUnsent
    SettledAgreement
PROPERTIES
    LedgerSpec
    EventualAgreement
CHECK_DEADLOCK FALSE
