SPECIFICATION Spec
INVARIANT SendingHasSender
CONSTANTS
    Deliveries = {d1, d2}
    MaxPackage = 1
    MaxRevision = 1
    Events = {"crash"}
SYMMETRY DeliverySymmetry
