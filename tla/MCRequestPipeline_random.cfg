CONSTANTS
  Host = 0
  Workers = {1, 2, 3}
  Edges <- Fork
  Scheduler = "random"
  StartLayer <- ForkStart
  EndLayer <- ForkEnd
  NumLayers = 2
  HWM = 4
  Requests = {"a", "b"}
  Breakable = {}
  MaxLaunches <- TwoAndThree
  ClientRoutes <- ForkRoutes
SPECIFICATION FairSpec
INVARIANTS
  SubmitFindsRequest
  DecodeFollowsPrompt
PROPERTIES
  ServiceImplemented
