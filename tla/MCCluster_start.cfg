CONSTANTS
  Host = 0
  Workers = {1, 2}
  Edges <- Skip
  InitCap = 1
  Scheduler = "swarm"
  StartLayer <- SkipStart
  EndLayer <- SkipEnd
  NumLayers = 2
  HWM = 6
  Requests = {"a", "b"}
  MaxLaunches <- OneEach
  ClientRoutes = {}
SPECIFICATION ClusterFairSpec
PROPERTIES
  PipelineFromStart
  ServiceFromStart
