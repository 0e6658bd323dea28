SPECIFICATION Spec
CONSTANTS
  Main = Main
  Io = Io
  Audio = Audio
  Thread = {Main, Io}
  Event = {e1, r}
  Respond = {r}
  NoThread = NoThread
  NoEvent = NoEvent
  EventPriMax = 2
  CancelAfter <- ShutdownOrder
INVARIANTS RespondsLast
