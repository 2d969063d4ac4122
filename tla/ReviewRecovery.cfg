SPECIFICATION Spec
INVARIANT ObligationKept
CHECK_DEADLOCK FALSE
CONSTANTS
    Products = {a, b}
    Packages = {}
    MaxRevision = 2
    MaxEdits = 2
    Scenarios = {{"prime", "disable"}}
SYMMETRY ProductSymmetry
