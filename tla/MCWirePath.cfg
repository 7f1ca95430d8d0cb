CONSTANTS
  Base = 8
  MaxSerializedInputBytes = 2000
  MaxFieldBytes = 240
  MaxStringBytes = 3
  MaxOneTimePrekeys = 2
  MaxEnvelopeVectorItems = 4
  MaxFramePayloadBytes = 240
  MaxDrainInboxBatchItems = 2
  MaxDrainInboxBatchBytes = 190
  SessionToken <- OneByte
  Recipient <- OneByte
  Kinds <- AllKinds
  MessagesOf <- Varied
  Envelopes <- SomeEnvelopes
  Noise = {0, 1, 2, 7}
  MaxAccepted = 4
SPECIFICATION Spec
INVARIANTS ReadBack Canonical EveryPageServed SameInOrder
CHECK_DEADLOCK FALSE
