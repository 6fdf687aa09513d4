CONSTANTS
  Servers = {"a", "b", "c"}
  InitialPriority = 1
  MaxWeight = 3
  Limit = 40
  Round <- ToNearest
  Deltas = {0, 1, 3}
SPECIFICATION Spec
INVARIANTS
  TypeOK
  Balanced
  BoundedWait
