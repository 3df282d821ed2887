CONSTANTS
  Executors = {e1}
  Clients = {c1, c2}
  Calls = {"create", "close", "suspend", "resume"}
  MaxTask = 1
  RetryLimit = 1
  MaxLost = 0
  MaxFault = 0
  FaultKinds = {}
SPECIFICATION Spec
SYMMETRY Symmetry
INVARIANTS IndexAgrees ClosedStored SuspendQuiescent
PROPERTIES ClosedFinal
