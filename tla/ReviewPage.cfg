SPECIFICATION FairSpec
INVARIANT TypeOK
INVARIANT BaselineShown
INVARIANT ObligationKept
PROPERTY EventuallyFresh
CHECK_DEADLOCK FALSE
CONSTANTS
    Products = {a, b}
    Packages = {b}
    MaxRevision = 2
    MaxEdits = 3
    Scenarios = {{"additional", "check", "load", "content", "resolution", "disable"}, {"prime", "additional", "check", "load", "content", "resolution"}}
