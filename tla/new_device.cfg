SPECIFICATION FairSpec
CONSTANTS
    ann = ann
    bea = bea
    d1 = d1
    d2 = d2
    r1 = r1
    Users = {ann}
    Devices = {d1, d2}
    Requests = {}
    Loading = Loading
    Nil = Nil
    Unheard = Unheard
    MaxSignIns = 2
    MaxQueued = 100
    MaxFaults = 0
PROPERTY NewDeviceKept
CHECK_DEADLOCK FALSE
