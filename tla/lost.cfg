CONSTANTS
  Executors = {e1, e2}
  Clients = {c1}
  Calls = {"create", "suspend"}
  MaxTask = 2
  RetryLimit = 1
  MaxLost = 1
  MaxFault = 0
  FaultKinds = {}
SPECIFICATION Spec
SYMMETRY Symmetry
INVARIANTS OneHolder SuspendQuiescent ExecutorWellFormed
