SPECIFICATION FairSpec
CONSTANTS
  None = None
  u1 = u1
  u2 = u2
  r1 = r1
  p1 = p1
  Owners <- OneOwner
  Requests <- OneRequest
  Pollers <- OnePoller
  MaxRetained = 1
  MaxJobs = 1
CHECK_DEADLOCK FALSE
PROPERTY SucceededAnswerShowsPlan
