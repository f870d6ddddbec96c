SPECIFICATION Spec
CONSTANTS
    MaxEntries = 2
    MaxFaults = 3
    MaxEdits = 1
CHECK_DEADLOCK FALSE
INVARIANTS
    LedgerInv
    SignedPrefixHolds
