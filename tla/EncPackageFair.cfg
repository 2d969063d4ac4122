SPECIFICATION FairSpec
INVARIANT StoresAgree
PROPERTY PublishedAsPair
PROPERTY InterruptedEnds
PROPERTY AcceptedIsPublished
CONSTANTS
    Deliveries = {d1, d2}
    MaxPackage = 2
    MaxRevision = 2
    Events = {"crash"}
