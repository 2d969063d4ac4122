CHECK_DEADLOCK FALSE
SPECIFICATION FairSpec
CONSTANTS
  Workers = {w1, w2}
  None = None
  Api = Api
  MaxFaults = 3
  MaxCalls = 2
INVARIANTS TypeOK ExportedOnce OutcomeTrue SuccessTrue
PROPERTIES EvidenceKept PendingEnds
