\* Serialize/Deserialize round trip with ns-3's byte order.
CONSTANTS
  ByteOrder = "lsb_first"
  QueueLens <- MCQueueLens
  Gradients <- MCGradients
  CreditValues <- MCCreditValues
  PortIndexes <- MCPortIndexes
SPECIFICATION Spec
INVARIANT RoundTrip
