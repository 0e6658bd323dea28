SPECIFICATION Spec
CONSTANTS
  BufferSize = 8
  Sector = 1
  FillLimit = 2
  MaxBlock = 1
  SeekLimit = 2
  Prefill = 1
  FileEnd = 9
  Streamed = FALSE
  Seekable = TRUE
  SeekTargets = {}
INVARIANTS EndsAtTheEnd
