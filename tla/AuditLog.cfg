SPECIFICATION Spec
CONSTANTS
  Loggers = {l1, l2}
  Threads = {t1, t2}
  Keys = {k1, k2}
  NoKey = NoKey
  BadKey = BadKey
  KeySettings = {NoKey, k1, k2, BadKey}
  Faults = {"append", "torn", "kill"}
  MaxEmits = 3
  MaxFailures = 1
  MaxTears = 1
SYMMETRY Symmetry
INVARIANTS
  TypeOK
  ChainVerifies
  EditsAreDetected
  RestoreAgreesWithVerify
  LossBoundedByTears
  VerifyIsExact
PROPERTIES
  BreakIsPermanent
