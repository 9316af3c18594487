SPECIFICATION Spec
CONSTANTS
  ann = ann
  bob = bob
  s1 = s1
  s2 = s2
  bolt = bolt
  nut = nut
  half = half
  NoPromo = NoPromo
  Session = {s1, s2}
  User = {ann, bob}
  Product = {bolt, nut}
  OrderId = {o1, o2, o3}
  Promo = {}
  UserOf <- OneUser
  RoleOf <- Users
  ItemLists <- OneBolt
  Ops = {"create", "update", "cancel"}
  OnlyCreated = FALSE
  InitialProduct <- TwoOfEach
  InitialPromo <- NoPromos
  RateLimitMinutes = 1
  Zone = 0
  MaxTime = 1
  MaxOpenConns = 3
INVARIANTS
  ActiveOrdersBounded
  RateLimited
SYMMETRY SameSessions
CONSTRAINT StockBound
