CONSTANTS
  Executors = {e1, e2}
  Clients = {c1}
  Calls = {"create", "close", "suspend", "resume"}
  MaxTask = 1
  RetryLimit = 1
  MaxLost = 0
  MaxFault = 1
  FaultKinds = {"sm"}
SPECIFICATION Spec
SYMMETRY Symmetry
INVARIANTS ClosedStored ExecutorWellFormed
PROPERTIES ClosedFinal
