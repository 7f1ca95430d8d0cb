CONSTANTS
  alice = alice
  bob = bob
  carol = carol
  Party = {alice, bob}
  None = None
  PoolTarget = 1
  MaxGuards = 1
  MaxPeers = 1
  MaxSessions = 1
  PageMax = 2
  MaxPasses = 2
  Contacts <- Everyone
  Calls <- Mutual
  Responders = {alice, bob}
  MaxInits <- Once
  FaultKinds = {}
  MaxFaults = 0
SPECIFICATION Spec
INVARIANT BothEndsAgree
