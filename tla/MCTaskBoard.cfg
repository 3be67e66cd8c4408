CONSTANTS
  s1 = s1  s2 = s2  s3 = s3
  a1 = a1  a2 = a2  a3 = a3
  sx = sx  t1 = t1
  src = src  doc = doc
  c1 = c1  c2 = c2
  Sessions = {s1, s2, s3}
  Agents = {a1, a2, a3}
  Scopes = {sx}
  Tasks = {t1}
  Files = {src}
  Contents = {c1, c2}
  AgentOf <- MCAgentOf
  ScopeOf <- MCScopeOf
  TaskScope <- MCTaskScope
  PathOf <- MCPathOf
  Plans <- ReviewPlans
  LeaseLengths = {1}
  LockWait = 0
  MaxClaims = 2
  MaxEdits = 1
  MaxProofs = 1
  MaxRequests = 2
  PresenceTicks = 0
  NoSession = NoSession
  NoPlan = NoPlan
  NoAgent = NoAgent
  Missing = Missing
SPECIFICATION BoardSpec
PROPERTIES CompletionReviewed CompletionProofLive ProofHonest
SYMMETRY Symmetric
CHECK_DEADLOCK FALSE
