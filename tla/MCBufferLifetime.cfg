CONSTANTS
  Tensors = {1, 2}
  Requests = {"a", "b"}
  Nobody = 0
  Hold = 4
  MaxDelay = 2
  MaxJump = 1
SPECIFICATION FairSpec
INVARIANTS
  LifetimeInv
  UnsentIsAlive
PROPERTIES
  TensorsReleased
