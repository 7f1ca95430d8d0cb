CONSTANTS
  Alice = Alice
  Bob = Bob
  NoKey = NoKey
  Interval = 2
  PageMax = 2
  MaxPasses = 2
  MaxSends <- AliceMore
  FaultKinds = {"net", "save", "crash", "replay"}
  MaxFaults = 2
SPECIFICATION Spec
INVARIANTS TypeOK RejectionHasCause MirrorWhenQuiet KeyReuseNeedsStaleRestart NoneHandledTwice OpenedOnce
PROPERTY AckedWasHandled
