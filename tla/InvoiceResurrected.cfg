CONSTANTS
  Cashiers = {c1}
  Editors = {}
  Nobody = Nobody
  MaxGoods = 2
  Extras <- SmallExtras
  Amounts = {0, 1, 2}
  Taxes = {0, 1}
  MayDie = FALSE
SPECIFICATION Spec
PROPERTY CancelledInvoiceIsFinal
