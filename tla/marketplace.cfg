SPECIFICATION MarketSpec
CONSTANTS
  ann = ann
  bob = bob
  s1 = s1
  s2 = s2
  bolt = bolt
  nut = nut
  half = half
  NoPromo = NoPromo
  Session = {s1, s2}
  User = {ann, bob}
  Product = {bolt}
  OrderId = {o1, o2}
  Promo = {half}
  UserOf <- TwoUsers
  RoleOf <- Users
  ItemLists <- OneBolt
  Ops = {"create", "cancel"}
  OnlyCreated = TRUE
  InitialProduct <- BoltLater
  InitialPromo <- HalfLater
  RateLimitMinutes = 0
  Zone = 0
  MaxTime = 0
  MaxOpenConns = 3
  Staff = {clerk}
  Later = {bolt, half}
  NewProducts <- BoltRow
  NewPromos <- HalfRow
  ProductEdits <- NewPrice
  PromoEdits <- LowerLimit
INVARIANTS
  MarketTypeOK
  TransactionsDisjoint
  CodeAccounting
  NoDanglingCode
  TotalIsDiscounted
