SPECIFICATION Spec
CONSTANTS
    Sources = {s1}
    Defaults = {s1}
    Products = {p}
    Resets = {r1}
    Scenarios = {{}, {"outage", "hurry"}}
    MaxGeneration = 4
    MaxVersion = 2
    None = None
INVARIANTS TypeOK DisplayAgrees StoredIsIntent
PROPERTIES OnlyIfWanted NeverOlder RefreshEnds
CHECK_DEADLOCK FALSE
