CONSTANTS
  alice = alice
  bob = bob
  carol = carol
  Party = {alice, bob, carol}
  None = None
  PoolTarget = 2
  MaxGuards = 1
  MaxPeers = 2
  MaxSessions = 2
  PageMax = 2
  MaxPasses = 2
  Contacts <- Stranger
  Calls <- ToBob
  Responders = {bob}
  MaxInits <- AliceTwice
  FaultKinds = {"crash", "net", "save"}
  MaxFaults = 1
SPECIFICATION FairSpec
INVARIANTS RereadHasCause CallsEndSaved
PROPERTIES EventuallyAccepted EventuallyPublished
