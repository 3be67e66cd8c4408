SPECIFICATION TalkSpec
CONSTANTS
  human = human
  left = left
  right = right
  hs = hs
  ls = ls
  rs = rs
  leftProfile = leftProfile
  rightProfile = rightProfile
  agree = agree
  more = more
  stuck = stuck
  noise = noise
  essay = essay
  Sessions = {hs, ls}
  Agents = {human, left}
  AgentOf <- MCAgentOf
  Orchestrator = Orchestrator
  Everyone = Everyone
  Routes = {leftProfile}
  RouteAgent <- MCRouteAgent
  NoRoute = NoRoute
  RouteOf <- MCRouteOf
  Away = Away
  Texts = {agree, more, noise}
  NoText = NoText
  LeaseLengths = {1}
  RetryDelays = {}
  LockWait = 0
  MaxAttempts = 1
  MaxMessages = 3
  Sends = {}
  FirstSeats <- MCSeats
  Movers = {left}
  Readers = {}
  NoSession = NoSession
  Human = human
  SignalOf <- MCSignalOf
  Policies <- AnyMode
  FreeContributions = 1
  AbsoluteRounds = 3
  AbsoluteMessages = 12
  ExtraRounds = {1}
  NoDigest = NoDigest
  LongTexts = {more}
  MaxDiscussions = 2
  Commands = {"pause", "stop", "continue", "mode"}
CHECK_DEADLOCK FALSE
INVARIANTS DiscussionTypeOK OneOpenDiscussion
PROPERTIES NothingAfterClose
