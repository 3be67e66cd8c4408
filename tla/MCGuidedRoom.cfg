CONSTANTS
  o1 = o1  k1 = k1  w1 = w1  w2 = w2
  Operations = {o1}
  Keys = {k1}
  KeyOf <- MCKeyOf
  Guided = {o1}
  AutoRetry = {o1}
  Automatic = {}
  Capped = {}
  Legacy = {}
  Workers = {w1, w2}
  NoWorker = NoWorker
  Schedules = {}
  MaxAttempts <- MCMaxAttempts
  Timeout = 3
  LeaseTime = 2
  Grace = 1
  RetryDelay = 1
  Interval = 1
  Capacity = 1
  FirstRuns = {}
  MaxRuns = 1
  Ages = {0, 1}
  Floor = 2
SPECIFICATION FairGuidedSpec
INVARIANTS LostWorkStopsTalk SucceededMeansCompleted NoOrphanTalk
PROPERTIES GuidedSettles
CHECK_DEADLOCK FALSE
