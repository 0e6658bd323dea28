SPECIFICATION FairSpec
CONSTANTS
  Channel = {radio, plain, list}
  Playlist = {list}
  Plain = {plain}
  NoChannel = NoChannel
  MaxRequests = 3
INVARIANTS TypeOK PointersTell ReleasedWhenIdle PlaysWhole PlaysNewest
PROPERTIES LoadSettles
