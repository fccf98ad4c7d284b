SPECIFICATION Spec
CONSTANTS
  price = price
  venue = venue
  m1 = m1
  m2 = m2
  Messages = {m1, m2}
  NoMessage = NoMessage
  Deliveries = {d1, d2}
  Repairs = {r1}
  Fields = {price, venue}
  Schemas <- ThreeSchemas
  TradeOf <- OneEach
  Reconcilers = {c1, c2}
  Modes = {"fail", "ignore", "update"}
  MaxDeaths = 1
SYMMETRY Symmetries
INVARIANTS
  TypeOK
  OwnValues
  FailsLoudly
  ReconciledStays
PROPERTIES
  RepairedIsWhole
