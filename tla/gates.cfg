SPECIFICATION Spec
CONSTANTS
  Ids = {"a", "b"}
  Fields = {"f", "g"}
  Grains = {"day", "hour"}
  FieldDefs <- Defs
  NoClass = NoClass
  Lags = {24, 36}
  NoLag = NoLag
  Versions <- Numbers
  Malformed = Malformed
  Proposals <- Edits
  FetchesMain = TRUE
  MaxReleases = 3
  MaxPulls = 2
  Tables <- Relations
  Models <- ThreeModels
  Ephemeral <- Inlined
  DependsOn <- NamedBy
  ReadsFrom <- ReadBy
  Catalogued <- ThreeModels
  Columns <- SixColumns
  TableOf <- TableOfColumn
  MayFail <- Staged
  Personal <- Email
  Served <- Marts
  Projects <- Written
INVARIANTS
  TypesOK
  UnderOneMajor
  VersionNamesSchema
  Covered
  ReachIsClosure
CHECK_DEADLOCK FALSE
