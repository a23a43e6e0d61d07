SPECIFICATION Spec
CONSTANTS
  Loggers = {l1}
  Threads = {t1, t2}
  Keys = {k1}
  NoKey = NoKey
  BadKey = BadKey
  KeySettings = {NoKey}
  Faults = {}
  MaxEmits = 3
  MaxFailures = 0
  MaxTears = 0
INVARIANTS
  LogVerifies
