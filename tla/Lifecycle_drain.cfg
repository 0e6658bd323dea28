SPECIFICATION FairSpec
CONSTANTS
  Volume = {40, 100}
  DefaultVolume = 100
  MayFail = {"main", "audio"}
  ForkMayFail = FALSE
  FillerLogs = FALSE
  MaxActs = 2
PROPERTIES ClosingEnds
CHECK_DEADLOCK FALSE
