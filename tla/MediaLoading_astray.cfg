SPECIFICATION Spec
CONSTANTS
  Channel = {radio, plain, list}
  Playlist = {list}
  Plain = {plain}
  NoChannel = NoChannel
  MaxRequests = 3
INVARIANTS PlaysTitle
