SPECIFICATION Spec
CONSTANTS
    ExpireArgs <- UpToAMinute
    RefreshArgs <- OwnRefresh
    DogIntervals <- Dogs
    None = None
INVARIANTS
    TypeOK
    DefaultRefreshLeavesRoom
    DryRunIsHeard
