SPECIFICATION Spec
CONSTANTS
  ann = ann
  bob = bob
  s1 = s1
  s2 = s2
  bolt = bolt
  nut = nut
  half = half
  NoPromo = NoPromo
  Session = {s1, s2}
  User = {ann, bob}
  Product = {bolt, nut}
  OrderId = {o1, o2}
  Promo = {half}
  UserOf <- TwoUsers
  RoleOf <- AdminAndUser
  ItemLists <- MixedLists
  Ops = {"create", "update", "cancel"}
  OnlyCreated = TRUE
  InitialProduct <- ThreeBolts
  InitialPromo <- OneUse
  RateLimitMinutes = 0
  Zone = 0
  MaxTime = 0
  MaxOpenConns = 3
INVARIANTS
  TypeOK
  TransactionsDisjoint
  StockConserved
  PromoAccounting
  TotalsFollowLines
PROPERTIES
  ImplementsOrderBook
