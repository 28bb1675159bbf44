SPECIFICATION CommandSpec
CONSTANTS
    b1 = b1
    b2 = b2
    t1 = t1
    t2 = t2
    NoSelf = NoSelf
    NoTransfer = NoTransfer
    Bodies <- TwoBodies
    Transfers <- BothWays
    Reclaimers <- Nobody
    Talkers <- Nobody
    MaxEpoch = 2
    From <- Origin
    To <- Target
    Replace = TRUE
    MaxFaults = 3
    Undoable <- MoveOut
INVARIANTS
    ReportsAgree
PROPERTIES
    EveryFreezeSettles
    MovesComplete
