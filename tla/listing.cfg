SPECIFICATION ListSpec
CONSTANTS
  bolt = bolt
  nut = nut
  nail = nail
  screw = screw
  hook = hook
  NoFilter = NoFilter
  Product = {bolt, nut, nail, screw, hook}
  InitialProducts <- Catalog
  Statuses = {"ACTIVE", "ARCHIVED"}
  FirstInstant = 2
  AskedSize = 2
  Filters = {NoFilter, "ACTIVE"}
  FirstPage = 1
  StopAtTotal = FALSE
INVARIANTS
  ListTypeOK
  NothingMissed
  NeverShort
