CONSTANTS
  Executors = {e1}
  Clients = {c1, c2}
  Calls = {"suspend", "resume"}
  MaxTask = 0
  RetryLimit = 1
  MaxLost = 0
  MaxFault = 0
  FaultKinds = {}
SPECIFICATION Spec
PROPERTIES SuspendFromOpen
