SPECIFICATION Spec
INVARIANT TypeOK
INVARIANT InFlightKept
INVARIANT ReadyUnsubmitted
INVARIANT FailedSnapshotKept
INVARIANT NoOrphanSnapshot
INVARIANT PairFromOnePackage
INVARIANT PauseHoldsDelivery
INVARIANT CreateSucceeds
CONSTANTS
    Deliveries = {d1, d2}
    MaxPackage = 2
    MaxRevision = 2
    Events = {"hold", "pause", "product", "manual", "snapshot", "statement"}
SYMMETRY DeliverySymmetry
