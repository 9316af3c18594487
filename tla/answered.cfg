SPECIFICATION FairSpec
CONSTANTS
  ann = ann
  bob = bob
  s1 = s1
  s2 = s2
  bolt = bolt
  nut = nut
  half = half
  NoPromo = NoPromo
  Session = {s1, s2}
  User = {ann, bob}
  Product = {bolt, nut}
  OrderId = {o1, o2}
  Promo = {half}
  UserOf <- TwoUsers
  RoleOf <- Users
  ItemLists <- CrossedLists
  Ops = {"create", "cancel"}
  OnlyCreated = TRUE
  InitialProduct <- OddPrices
  InitialPromo <- AtMinimum
  RateLimitMinutes = 0
  Zone = 0
  MaxTime = 0
  MaxOpenConns = 3
INVARIANTS
  TotalIsDiscounted
PROPERTIES
  Answered
