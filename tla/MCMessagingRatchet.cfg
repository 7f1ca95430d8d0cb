CONSTANTS
  Alice = Alice
  Bob = Bob
  NoKey = NoKey
  Interval = 2
  PageMax = 2
  MaxPasses = 2
  MaxSends <- BothSend
  FaultKinds = {}
  MaxFaults = 0
SPECIFICATION Spec
INVARIANT RatchetInteroperates
