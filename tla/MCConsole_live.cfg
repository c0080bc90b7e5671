SPECIFICATION FairSpec
CONSTANTS
  SB_CHUNK = 1
  SB_QUEUE = 3
  Codes = {7}
  ChannelCap = 2
  PipeCap = 1
  Sessions <- LiveSessions
PROPERTIES SessionEnds 
