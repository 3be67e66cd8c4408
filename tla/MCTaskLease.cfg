CONSTANTS
  s1 = s1  s2 = s2  s3 = s3
  a1 = a1  a2 = a2
  sx = sx  sy = sy
  t1 = t1  t2 = t2  t3 = t3
  Sessions = {s1, s2, s3}
  Agents = {a1, a2}
  Scopes = {sx, sy}
  Tasks = {t1, t2, t3}
  AgentOf <- MCAgentOf
  ScopeOf <- MCScopeOf
  TaskScope <- MCTaskScope
  Plans <- MCPlans
  LeaseLengths = {2}
  LockWait = 1
  MaxClaims = 3
  NoSession = NoSession
  NoPlan = NoPlan
SPECIFICATION FairSpec
INVARIANTS WriterExclusion
PROPERTIES LeaseContinuity RevisionNamesOnePlan ImplementsWriterLock OrphanedLeaseEnds
CHECK_DEADLOCK FALSE
