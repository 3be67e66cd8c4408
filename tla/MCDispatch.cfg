SPECIFICATION Spec
CONSTANTS
  human = human
  model = model
  h1 = h1
  m1 = m1
  m2 = m2
  profile = profile
  Sessions <- MCSessions
  Agents <- MCAgents
  AgentOf <- MCAgentOf
  Orchestrator = Orchestrator
  Everyone = Everyone
  Routes <- MCRoutes
  RouteAgent <- MCRouteAgent
  NoRoute = NoRoute
  RouteOf <- MCRouteOf
  Away = Away
  Texts = {answer}
  NoText = NoText
  LeaseLengths = {2}
  RetryDelays = {1}
  LockWait = 1
  MaxAttempts = 2
  MaxMessages = 2
  Sends <- MCSends
  Movers = {model}
  FirstSeats <- MCSeats
  Readers = {model}
  NoSession = NoSession
CHECK_DEADLOCK FALSE
INVARIANTS CursorContiguous CompletedIsAnswered
PROPERTIES SettledForGood LiveLeaseKept
