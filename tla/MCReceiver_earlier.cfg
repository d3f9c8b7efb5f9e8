CONSTANTS
  d1 = d1
  d2 = d2
  Decoders = {d1}
  Messages <- OneSizeMessages
  MaxMessages = 3
  ClientWidth = 1
  ClientHeight = 1
  Failures = {}
SPECIFICATION ReceiverSpec
PROPERTIES
  FullNeverOverwrittenByEarlier
