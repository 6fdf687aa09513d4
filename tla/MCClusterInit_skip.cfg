CONSTANTS
  Host = 0
  Workers = {1, 2, 3}
  Edges <- Skip
  InitCap = 2
SPECIFICATION FairSpec
INVARIANTS
  TypeOK
  HandshakeInv
  InitCompleteNeverLost
  FirstWaitSeesOnlyInit
  CompleteIsLast
  StopNotBeforeInit
  MainLoopSeesNoInit
  HostStartedMeansClusterReady
PROPERTIES
  BarrierSafety
  EveryMachineStarts
