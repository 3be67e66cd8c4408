SPECIFICATION FairTalk
CONSTANTS
  human = human
  left = left
  right = right
  hs = hs
  ls = ls
  rs = rs
  leftProfile = leftProfile
  rightProfile = rightProfile
  agree = agree
  more = more
  stuck = stuck
  noise = noise
  essay = essay
  Sessions = {hs, ls, rs}
  Agents = {human, left, right}
  AgentOf <- MCAgentOf
  Orchestrator = Orchestrator
  Everyone = Everyone
  Routes = {leftProfile, rightProfile}
  RouteAgent <- MCRouteAgent
  NoRoute = NoRoute
  RouteOf <- MCRouteOf
  Away = Away
  Texts = {agree, more}
  NoText = NoText
  LeaseLengths = {1}
  RetryDelays = {}
  LockWait = 0
  MaxAttempts = 1
  MaxMessages = 8
  Sends = {}
  FirstSeats <- MCSeats
  Movers = {}
  Readers = {}
  NoSession = NoSession
  Human = human
  SignalOf <- MCSignalOf
  Policies <- FreeThenRounds
  FreeContributions = 1
  AbsoluteRounds = 3
  AbsoluteMessages = 12
  ExtraRounds = {1}
  NoDigest = NoDigest
  LongTexts = {}
  MaxDiscussions = 1
  Commands = {"mode"}
CHECK_DEADLOCK FALSE
PROPERTIES TalkGoesOn
