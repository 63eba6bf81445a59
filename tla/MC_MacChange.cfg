CONSTANTS
    m1 = m1
    m2 = m2
    m3 = m3
    NoValue = NoValue
    None <- NoValue
    Macs <- MCMacs
    OldMac = m1
    GuestFaults = TRUE
    CleanupFaults = TRUE
SPECIFICATION Spec
CHECK_DEADLOCK FALSE
INVARIANTS TypeOK PassLeavesConsistent
PROPERTY Terminates
