SPECIFICATION FairSpec
CONSTANTS
  BufferSize = 32
  Sector = 2
  FillLimit = 16
  MaxBlock = 8
  SeekLimit = 16
  Prefill = 20
  FileEnd = 75
  Streamed = FALSE
  Seekable = TRUE
  SeekTargets = {}
INVARIANTS TypeOK ReadsItsBytes NoDataRace CopiesInRing EndsAtTheEnd
PROPERTIES ReaderServed
