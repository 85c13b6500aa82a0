SPECIFICATION MCSpec

CONSTANTS
    Loader = {"c1", "c2"}
    Project = {"General"}
    Default = "General"
    Version = {1, 2}
    holds <- MCHolds
    discover = TRUE

CHECK_DEADLOCK FALSE

INVARIANTS
    CachedUntilChanged
