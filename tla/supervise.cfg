SPECIFICATION SupervisedSpec
CONSTANTS
    Refresh <- DefaultRefresh
    Watchdog = TRUE
    Dog <- UnitDog
    MaxPass = 3
    Expire <- DefaultExpire
    TimeoutSec <- UnitTimeout
    RestartSec <- UnitRestart
INVARIANTS
    SupervisedTypeOK
    KilledOnlyInALongPass
    HangIsBridged
PROPERTIES
    PassesGoOn
    NoCircles
    SupervisedTakesTurns
