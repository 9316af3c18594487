SPECIFICATION MarketSpec
CONSTANTS
  ann = ann
  bob = bob
  s1 = s1
  s2 = s2
  bolt = bolt
  nut = nut
  half = half
  NoPromo = NoPromo
  Session = {s1}
  User = {ann, bob}
  Product = {bolt, nut}
  OrderId = {o1}
  Promo = {}
  UserOf <- Alone
  RoleOf <- Users
  ItemLists <- OneBolt
  Ops = {"create", "cancel"}
  OnlyCreated = TRUE
  InitialProduct <- TwoOfEach
  InitialPromo <- NoPromos
  RateLimitMinutes = 0
  Zone = 0
  MaxTime = 0
  MaxOpenConns = 3
  Staff = {clerk}
  Later = {}
  NewProducts <- None
  NewPromos <- None
  ProductEdits <- NewPrice
  PromoEdits <- None
INVARIANTS
  StockConserved
