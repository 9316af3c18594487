SPECIFICATION Spec
CONSTANTS
  ann = ann
  bob = bob
  s1 = s1
  s2 = s2
  bolt = bolt
  nut = nut
  half = half
  NoPromo = NoPromo
  Session = {s1, s2}
  User = {ann, bob}
  Product = {bolt, nut}
  OrderId = {o1}
  Promo = {half}
  UserOf <- OneUser
  RoleOf <- Users
  ItemLists <- OneEach
  Ops = {"create", "cancel"}
  OnlyCreated = TRUE
  InitialProduct <- TwoOfEach
  InitialPromo <- OneUse
  RateLimitMinutes = 0
  Zone = 0
  MaxTime = 0
  MaxOpenConns = 3
INVARIANTS
  StockConserved
