CONSTANTS
  Executors = {e1}
  Clients = {c1}
  Calls = {"create", "close"}
  MaxTask = 1
  RetryLimit = 1
  MaxLost = 0
  MaxFault = 0
  FaultKinds = {}
SPECIFICATION FairSpec
PROPERTIES ClosedUnbinds
