SPECIFICATION Spec
CONSTANTS
  Main = Main
  Io = Io
  Audio = Audio
  Thread = {Main, Io}
  Event = {e1}
  Respond = {}
  NoThread = NoThread
  NoEvent = NoEvent
  EventPriMax = 1
  CancelAfter <- ShutdownOrder
INVARIANTS RunnerHoldsLive
