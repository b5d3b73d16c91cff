SPECIFICATION Spec
CONSTANTS
    ExpireArgs <- UpToAMinute
    RefreshArgs <- OwnRefresh
    DogIntervals <- Dogs
    None = None
INVARIANT
    AtLeastTenSeconds
