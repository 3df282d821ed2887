CONSTANTS
  Executors = {e1}
  Clients = {c1}
  Calls = {"create", "close", "suspend", "resume"}
  MaxTask = 2
  RetryLimit = 1
  MaxLost = 0
  MaxFault = 0
  FaultKinds = {}
SPECIFICATION FairSpec
PROPERTIES TaskProgress SuspendProgress
