SPECIFICATION FairSpec
CONSTANTS
  n1 = n1
  n2 = n2
  n3 = n3
  Nonces <- ThreeNonces
  Exp <- ExpiryOf
  Threads = {t1, t2}
  NoThread = NoThread
  NoNonce = NoNonce
  MaxEntries = 2
  Faults = {"kill", "stop", "persist", "load"}
  MaxTime = 2
  MaxRequests = 4

INVARIANTS
  TypeOK
  NoReplayWhileTracked
  AdmittedIsOnDisk
  SizeBounded
PROPERTIES
  AdmitsOnce
  EveryRequestLeaves
