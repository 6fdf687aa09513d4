CONSTANTS
  Last = 3
  Skew = 1
  MinHop = 2
  MaxTime = 7
SPECIFICATION Spec
INVARIANTS
  TimingInv
  DurationsMeasured
  DeltaNotNegative
