SPECIFICATION FairSpec
CONSTANTS
  None = None
  u1 = u1
  u2 = u2
  r1 = r1
  p1 = p1
  Owners <- TwoOwners
  Requests <- OneRequest
  Pollers <- OnePoller
  MaxRetained = 2
  MaxJobs = 3
CHECK_DEADLOCK FALSE
INVARIANTS TypeOK OneJobScans NoLateSave OutcomeIsTruthful RetryFindsItsJob
PROPERTY SlotIsFreed
