CONSTANTS
  v1 = v1
  v2 = v2
  count = count
  sale = sale
  exit = exit
  entry = entry
  return = return
  Nobody = Nobody
  Requests <- EditRequests
  Variants <- EditVariants
  Editors = {ed1, ed2}
  Kind <- EditKind
  Lines <- EditLines
  Start <- EditStart
SPECIFICATION Spec
INVARIANT StockOnlyFromMovements
CHECK_DEADLOCK FALSE
