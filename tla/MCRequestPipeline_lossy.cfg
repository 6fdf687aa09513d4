CONSTANTS
  Host = 0
  Workers = {1, 2, 3}
  Edges <- Fork
  Scheduler = "maxflow"
  StartLayer <- ForkStart
  EndLayer <- ForkEnd
  NumLayers = 2
  HWM = 1
  Requests = {a, b, c}
  Breakable <- LastLinks
  MaxLaunches <- OnceEach
  ClientRoutes <- ForkRoutes
SYMMETRY Interchangeable
SPECIFICATION Spec
INVARIANTS
  MessagesInv
  NeverTwoCopies
  NoOvertaking
PROPERTIES
  ServiceSafety
