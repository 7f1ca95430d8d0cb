CONSTANTS
  alice = alice
  bob = bob
  carol = carol
  Party = {alice, bob, carol}
  None = None
  PoolTarget = 1
  MaxGuards = 1
  MaxPeers = 1
  MaxSessions = 1
  PageMax = 2
  MaxPasses = 2
  Contacts <- Stranger
  Calls <- ToBob
  Responders = {bob}
  MaxInits <- AliceTwice
  FaultKinds = {"crash", "net", "save", "replay", "lost"}
  MaxFaults = 2
SPECIFICATION Spec
INVARIANTS TypeOK ConsumedOnce StoredPairsAnswerable MissingHasCause DisagreementHasCause SessionsWithVerified CallsEndSaved RereadHasCause
