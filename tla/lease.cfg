SPECIFICATION FairSpec
CONSTANTS
    Refresh <- DefaultRefresh
    Watchdog = TRUE
    Dog <- UnitDog
    MaxPass = 3
    Expire <- DefaultExpire
INVARIANTS
    TypeOK
    LeaseHeld
    GoneInTime
    TwoChances
PROPERTIES
    WaitsEnd
    WaitRunsOut
    LeaseTakesTurns
