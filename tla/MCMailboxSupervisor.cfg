SPECIFICATION FairSupervisor
CONSTANTS
  human = human
  left = left
  right = right
  hs = hs
  ls = ls
  rs = rs
  own = own
  leftProfile = leftProfile
  rightProfile = rightProfile
  Sessions = {hs, ls, rs, own}
  Agents = {human, left, right}
  AgentOf <- MCAgentOf
  Orchestrator = Orchestrator
  Everyone = Everyone
  Routes = {leftProfile, rightProfile}
  RouteAgent <- MCRouteAgent
  NoRoute = NoRoute
  RouteOf <- MCRouteOf
  Away = Away
  Texts = {answer}
  NoText = NoText
  LeaseLengths = {1}
  RetryDelays = {1}
  LockWait = 0
  MaxAttempts = 2
  MaxMessages = 4
  Sends <- MCSends
  FirstSeats <- MCSeats
  Movers = {}
  Readers = {right}
  NoSession = NoSession
  Bridge <- MCBridge
  LeaseTime = 1
  Parallel = 2
  Slots = 2
  Outside = {hs, own}
  MaxDeaths = 1
CHECK_DEADLOCK FALSE
INVARIANTS SupervisorTypeOK NothingHeldIdly
PROPERTIES NoReplay MailSettles
