SPECIFICATION Spec
CONSTANTS
    Sources = {A, B}
    Requested = {}
    MaxTime = 2
    MaxStops = 0
    Events = {"block"}
    None = None
    A = A
    B = B
INVARIANT EditsKept
CHECK_DEADLOCK FALSE
