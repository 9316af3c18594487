SPECIFICATION Spec
CONSTANTS
  PromoCodes <- AllCodes
  MaxTotal = 120
INVARIANTS
  DiscountBounded
  RoundingBounded
PROPERTIES
  PayableGrows
CHECK_DEADLOCK FALSE
