CONSTANTS
  Alice = Alice
  Bob = Bob
  NoKey = NoKey
  Interval = 2
  PageMax = 2
  MaxPasses = 2
  MaxSends <- BothSend
  FaultKinds = {"net", "crash"}
  MaxFaults = 2
SPECIFICATION Spec
PROPERTY DeliversInOrderOnce
