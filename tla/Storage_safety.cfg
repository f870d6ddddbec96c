SPECIFICATION MCSpec
CONSTANTS
    MaxAttempts = 5
    MaxBoots = 4
    Key = {k1, k2}
    Value = {v1, v2}
    MaxWrites = 2
    MaxRowId = 2
    MaxFaults = 3
    Proc = {p1, p2}
    Nonce = {1, 2, 3, 4, 5, 6}
    NoFile = NoFile
    NoNonce = 0
    MaxLockAttempts = 2
SYMMETRY Symmetry
CHECK_DEADLOCK FALSE
INVARIANTS
    LogTypeOK
    AckedIsEnumerable
    RefusesOnlyAfterRetry
    StoreInv
    CacheInv
PROPERTIES
    NothingIsDestroyed
