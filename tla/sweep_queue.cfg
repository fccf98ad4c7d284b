SPECIFICATION FairSpec
CONSTANTS
  ann = ann
  bob = bob
  q1 = q1
  q2 = q2
  Requests = {q1, q2}
  Subjects = {ann, bob}
  Client <- TwoAsk
  RequestedAt <- DayByDay
  Inventory <- KeepAndTarget
  MissingRaises = TRUE
  BuiltAtStart <- WithoutMart
  Sweepers = {p1}
  NoRequest = NoRequest
  DeadlineDays = 1
  MaxDay = 1
  MaxCrashes = 1
INVARIANTS
  QuietExit
PROPERTIES
  ErasureIsTargeted
  EventuallyCompleted
