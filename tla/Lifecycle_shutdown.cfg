SPECIFICATION FairSpec
CONSTANTS
  Volume = {40, 100}
  DefaultVolume = 100
  MayFail = {"main", "audio"}
  ForkMayFail = FALSE
  FillerLogs = FALSE
  MaxActs = 2
INVARIANTS TypeOK LogReady RunsInformed StoresAlone
PROPERTIES ShutdownEnds
CHECK_DEADLOCK FALSE
