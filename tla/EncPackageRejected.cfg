SPECIFICATION Spec
INVARIANT FailedBuildDiscardable
CONSTANTS
    Deliveries = {d1, d2, d3}
    MaxPackage = 2
    MaxRevision = 2
    Events = {"crash"}
SYMMETRY DeliverySymmetry
