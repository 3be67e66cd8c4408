CONSTANTS
  implement = implement  gate = gate  audit = audit  note = note  nightly = nightly
  k1 = k1  w1 = w1  w2 = w2
  base = base  c1 = c1
  Operations <- MCOperations
  Keys = {k1}
  KeyOf <- MCKeyOf
  Guided = {}
  AutoRetry <- MCAutoRetry
  Automatic = {gate, audit}
  Capped = {audit}
  Legacy = {note}
  Workers = {w1, w2}
  NoWorker = NoWorker
  Schedules = {nightly}
  MaxAttempts <- MCMaxAttempts
  Timeout = 2
  LeaseTime = 1
  Grace = 0
  RetryDelay = 1
  Interval = 1
  Capacity = 1
  FirstRuns = {0}
  MaxRuns = 1
  Ages = {0}
  Floor = 0
  Writes = {implement}
  Gates = {gate}
  Crew <- MCCrew
  Mortal = {w1}
  Contents = {base, c1}
  Base = base
  MaxEdits = 0
  Asked <- TwoAtOnce
SPECIFICATION ManagedSpec
INVARIANTS ManagedTypeOK OneActivePerKey
PROPERTIES ImplementsJobBoard
CHECK_DEADLOCK FALSE
