SPECIFICATION FairSpec
CONSTANTS
  Size = 5
  Outburst = 2
  Byte = {0, 1}
  MaxRequest = 4
  DelayLimit = 6
INVARIANTS TypeOK ChunkStaysEmpty NoDataRace
PROPERTIES PlaysInOrder DrainPlaysAll
