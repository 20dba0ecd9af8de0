SPECIFICATION Spec
CONSTANTS
  Base = {m, s}
  Half = 8
  Factor <- Sign
  One = 1
  Times <- SignTimes
  Over <- SignOver
  Plus <- SignPlus
  ToThe <- SignToThe
  RootOf <- SignRootOf
  Negative <- SignNegative
  Variable = {x, y}
  Powers <- SomePowers
  Roots <- SomeRoots
  MaxCalls = 5
INVARIANTS
  TypeOK
  ExactWhileInRange
  ConformabilityAgrees
  RootsUndoPowers
