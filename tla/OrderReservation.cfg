CONSTANTS
  o1 = o1
  o2 = o2
  v1 = v1
  l1 = l1
  l2 = l2
  l3 = l3
  s1 = s1
  FreeLine = FreeLine
  Orders <- TwoOrders
  Lines <- TwoLines
  LineOrder <- TwoOf
  LineVariant <- TwoVariantOf
  Variants = {v1}
  Sessions = {s1}
  Retypable = {v1}
  MaxQty = 2
  MaxDrift = 2
SPECIFICATION Spec
INVARIANT ReservationMatchesLines
