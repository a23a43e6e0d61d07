SPECIFICATION Spec
CONSTANTS
  n1 = n1
  n2 = n2
  n3 = n3
  Nonces <- TwoNonces
  Exp <- ExpiryOf
  Threads = {t1}
  NoThread = NoThread
  NoNonce = NoNonce
  MaxEntries = 2
  Faults = {"kill"}
  MaxTime = 2
  MaxRequests = 2
INVARIANTS
  AdmittedOnceWhileValid
