SPECIFICATION Spec
CONSTANTS
  Start = Start
  Moved = Moved
  NoUrl = NoUrl
  Url = {Start, Moved}
  FirstUrl = Start
  Location <- Redirects
  Size = 9
  IcyBody <- Icy
  MetaInt = 2
  Sector = 4
  BodySize = 3
  MaxFd = 2
  TimesOut = FALSE
  Careless = {}
INVARIANTS AnswersAreTrue
CHECK_DEADLOCK FALSE
