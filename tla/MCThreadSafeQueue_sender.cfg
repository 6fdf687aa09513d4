CONSTANTS
  Producers = {"compute", "receiver"}
  Consumer = "sender"
  Free = "free"
  MaxPushes <- ThreeAndTwo
SPECIFICATION FairSpec
INVARIANTS
  QueueInv
PROPERTIES
  QueueImplemented
