CONSTANTS
  Executors = {e1, e2}
  Clients = {c1}
  Calls = {"create"}
  MaxTask = 2
  RetryLimit = 1
  MaxLost = 0
  MaxFault = 1
  FaultKinds = {"fem"}
SPECIFICATION Spec
SYMMETRY Symmetry
INVARIANTS OneHolder
