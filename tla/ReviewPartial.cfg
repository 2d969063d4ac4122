SPECIFICATION FairSpec
PROPERTY FailureNotAcknowledged
CHECK_DEADLOCK FALSE
CONSTANTS
    Products = {a}
    Packages = {}
    MaxRevision = 2
    MaxEdits = 1
    Scenarios = {{"content"}}
