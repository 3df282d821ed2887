CONSTANTS
  Executors = {e1}
  Clients = {c1}
  Calls = {"create"}
  MaxTask = 1
  RetryLimit = 1
  MaxLost = 1
  MaxFault = 0
  FaultKinds = {}
SPECIFICATION FairSpec
PROPERTIES TaskProgress
