CONSTANTS
  d1 = d1
  d2 = d2
  Decoders = {d1, d2}
  Messages <- DisplayMessages
  MaxMessages = 3
  ClientWidth = 2
  ClientHeight = 1
  Failures = {"alloc", "open", "peer", "spawn", "post", "postClose"}
SPECIFICATION FairReceiverSpec
INVARIANTS
  ReceiverTypeOK
  NoLostInvalidation
  ReceiverNoUseAfterFree
PROPERTIES
  FullNeverOverwritesLater
  DisplayCatchesUp
  ReceiverStops
