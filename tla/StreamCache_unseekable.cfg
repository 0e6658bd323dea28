SPECIFICATION Spec
CONSTANTS
  BufferSize = 4
  Sector = 1
  FillLimit = 2
  MaxBlock = 1
  SeekLimit = 4
  Prefill = 1
  FileEnd = 5
  Streamed = TRUE
  Seekable = FALSE
  SeekTargets = {0, 3}
INVARIANTS WindowHoldsFile
