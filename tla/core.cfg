CONSTANTS
  Executors = {e1, e2}
  Clients = {c1}
  Calls = {"create", "close", "suspend", "resume"}
  MaxTask = 2
  RetryLimit = 1
  MaxLost = 0
  MaxFault = 0
  FaultKinds = {}
SPECIFICATION Spec
SYMMETRY Symmetry
INVARIANTS TypeOK PoppedInHand OneHolder RunningHeld CacheAgrees ExecutorWellFormed
PROPERTIES ResultFinal
