SPECIFICATION Spec
CONSTANTS
    b1 = b1
    b2 = b2
    t1 = t1
    t2 = t2
    t3 = t3
    NoSelf = NoSelf
    NoTransfer = NoTransfer
    Bodies <- TwoBodies
    Transfers <- ThreeTransfers
    Reclaimers <- OneBody
    Talkers <- OneBody
    MaxEpoch = 3
SYMMETRY Symmetric
INVARIANTS
    OneActiveSelf
    AbortExcludesApply
    ReleasedWasActivated
    SnapshotIsFinal
    HeldSomewhere
PROPERTIES
    EpochNeverFallsBack
    ImplementsSelfAuthority
