CONSTANTS
  Sizes <- MCSizes
  Header = 2
  Cut = 2
  SeqSpace = 8
  Window = 3
  InFlight = 3
  PushSize = 1
  PopSize = 1
SPECIFICATION ChannelSpec
INVARIANTS ChannelIsSound
PROPERTY ImplementsStream
CHECK_DEADLOCK FALSE
