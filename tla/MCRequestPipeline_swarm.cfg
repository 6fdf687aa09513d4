CONSTANTS
  Host = 0
  Workers = {1, 2}
  Edges <- Skip
  Scheduler = "swarm"
  StartLayer <- SkipStart
  EndLayer <- SkipEnd
  NumLayers = 2
  HWM = 6
  Requests = {"a", "b"}
  Breakable = {}
  MaxLaunches <- TwoTwice
  ClientRoutes <- SkipRoutes
SPECIFICATION Spec
INVARIANTS
  PipelineTypeOK
  RoutedAlongLinks
  LayersInOrder
  BufferMatchesLayers
  SwarmWeightsSound
  OneCopyWhileWaiting
