CONSTANTS
  Tables <- AllTables
  BASE_PORT = 6000
SPECIFICATION Spec
INVARIANTS
  LinksAreEdges
  WiringInv
