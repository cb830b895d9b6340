\* Two messages, each whole, at fault, or cut off by a close at any byte.
CONSTANTS
  Kinds <- TwoKinds
  Sizes <- AroundThePackets
  DefaultPacket = 4
  MinPacket = 3
  MaxPacket = 5
  Offers = {0, 7}
  MaxBody = 4
  MaxMessages = 2
SPECIFICATION FairSpec
INVARIANTS TypeOK NeverOverTheCeiling NoneIsBetweenMessages
PROPERTIES ChannelSpec EndOfBytesEndsReading
