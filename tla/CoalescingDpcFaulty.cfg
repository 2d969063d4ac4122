SPECIFICATION FairSpec
INVARIANT TypeOK
PROPERTY OwnerKeepsGate
PROPERTY GateReopens
CHECK_DEADLOCK FALSE
CONSTANTS
    Clients = {c1, c2}
    Jobs = {j1, j2, j3}
    NoOwner = NoOwner
    Faults = {"stall", "client", "worker", "delete"}
