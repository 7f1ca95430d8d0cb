CONSTANTS
  Alice = Alice
  Bob = Bob
  NoKey = NoKey
  Interval = 2
  PageMax = 2
  MaxPasses = 2
  MaxSends <- Few
  FaultKinds = {"net", "save"}
  MaxFaults = 1
SPECIFICATION FairSpec
PROPERTY EventuallyReturned
