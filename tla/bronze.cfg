SPECIFICATION Spec
CONSTANTS
  Columns <- TwoColumns
  Values = {v1, v2}
  Null = Null
  Topics <- Registry
  Runs = {r1, r2}
  TicksPerDay = 2
  MaxTime = 3
  MaxRecords = 2
  MaxStarts = 2
  Skew = 1
SYMMETRY Symmetries
INVARIANTS
  TypeOK
  RefusedOnlyInTies
PROPERTIES
  RerunIsIdempotent
  LostToMisdated
  OnlyRepeatsDropped
  TombstoneSupersedes
  RefusedForCause
CHECK_DEADLOCK FALSE
