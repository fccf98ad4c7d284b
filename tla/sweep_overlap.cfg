SPECIFICATION Spec
CONSTANTS
  ann = ann
  bob = bob
  q1 = q1
  q2 = q2
  Requests = {q1}
  Subjects = {ann}
  Client <- OneAsks
  RequestedAt <- DayZero
  Inventory <- SmallInventory
  MissingRaises = FALSE
  BuiltAtStart <- WithoutMart
  Sweepers = {p1, p2}
  NoRequest = NoRequest
  DeadlineDays = 1
  MaxDay = 1
  MaxCrashes = 1
INVARIANTS
  TypeOK
  CompletedMeansGone
PROPERTIES
  ShredBeforeDelete
  PromiseKept
