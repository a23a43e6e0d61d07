SPECIFICATION Spec
CONSTANTS
  Sessions = {s1, s2, s3}
  Runs = {r1, r2}
  MaxSessions = 1
  MaxMessages = 3
  TTL = 1
  MaxTime = 4
  MaxTurns = 3
INVARIANTS
  ResumedSessionContinues
