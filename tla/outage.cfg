CONSTANTS
  Executors = {e1, e2}
  Clients = {c1}
  Calls = {"create", "close", "suspend"}
  MaxTask = 1
  RetryLimit = 1
  MaxLost = 0
  MaxFault = 1
  FaultKinds = {"stream"}
SPECIFICATION Spec
SYMMETRY Symmetry
INVARIANTS CacheAgrees SuspendQuiescent
