SPECIFICATION Spec
INVARIANT TypeOK
INVARIANT IndexKnows
INVARIANT ShortIdsUnique
INVARIANT ReferencesStored
INVARIANT NoSilentOrphan
INVARIANT ListingCatchesUp
CHECK_DEADLOCK FALSE
CONSTANTS
    Requests = {r1, r2}
    Categories = {c1}
    Pipelines = {q1}
    Packages = {p1, p2}
    Prefixes = {MA}
    Names = {n1}
    Hashes = {h1}
    MaxLog = 4
    MaxRows = 2
    MaxNumber = 1
    None = None
    Events = {"geometry", "refused", "unknown", "cleanup", "reconnect"}
SYMMETRY RequestSymmetry
