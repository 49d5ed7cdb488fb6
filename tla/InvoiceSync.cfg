CONSTANTS
  Cashiers = {c1, c2}
  Editors = {e1}
  Nobody = Nobody
  MaxGoods = 2
  Extras <- SmallExtras
  Amounts = {1}
  Taxes = {0}
  MayDie = TRUE
SPECIFICATION Spec
SYMMETRY CashierSymmetry
INVARIANT InvoiceFollowsPayment
INVARIANT CancelledOrderCancelsInvoice
