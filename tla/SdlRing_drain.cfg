SPECIFICATION FairSpec
CONSTANTS
  Size = 4
  Outburst = 1
  Byte = {0, 1}
  MaxRequest = 4
  DelayLimit = 2
PROPERTIES DrainEnds
