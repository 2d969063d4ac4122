SPECIFICATION FairSpec
CONSTANTS
    Sources = {A, B}
    Requested = {A}
    MaxTime = 2
    MaxStops = 1
    Events = {"snapshot", "discard", "import"}
    None = None
    A = A
    B = B
INVARIANTS EditsKept ImportExcluded
PROPERTY ReplayEnds
CHECK_DEADLOCK FALSE
