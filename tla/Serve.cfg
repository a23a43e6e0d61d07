SPECIFICATION Spec
CONSTANTS
  k1 = k1
  k2 = k2
  k3 = k3
  Tokens <- AllTokens
  TokenPath <- PathOf
  TokenCaps <- CapsOf
  TokenCalls <- CallsOf
  Threads = {t1, t2}
  ConfigCaps = {"fs.read", "py.exec"}
  ConfigCalls = 1
  MaxIterations = 2
  None = None
  MaxRequests = 4
  MaxKills = 1
  Sessions = {s1, s2, s3}
  Runs = {r1, r2}
  MaxSessions = 2
  MaxMessages = 3
  TTL = 0
  MaxTime = 1
SYMMETRY Symmetry
INVARIANTS
  TypeOK
  TokenBuysItsBudget
  RunsAccountedFor
  AnswersAreRemembered
  TurnsAreWhole
PROPERTIES
  GoneForGood
  SessionsLeaveForCause
