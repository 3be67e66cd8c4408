CONSTANTS
  s1 = s1  s2 = s2  s3 = s3
  a1 = a1  a2 = a2  a3 = a3
  sx = sx  t1 = t1
  src = src  doc = doc
  c1 = c1  c2 = c2
  Sessions = {s1, s2}
  Agents = {a1, a2, a3}
  Scopes = {sx}
  Tasks = {t1}
  Files = {src}
  Contents = {c1}
  AgentOf <- MCAgentOf
  ScopeOf <- MCScopeOf
  TaskScope <- MCTaskScope
  PathOf <- MCPathOf
  Plans <- PresencePlans
  LeaseLengths = {2}
  LockWait = 0
  MaxClaims = 1
  MaxEdits = 0
  MaxProofs = 1
  MaxRequests = 1
  PresenceTicks = 2
  NoSession = NoSession
  NoPlan = NoPlan
  NoAgent = NoAgent
  Missing = Missing
SPECIFICATION FairBoard
PROPERTIES DeadPeersReleaseGate
CHECK_DEADLOCK FALSE
