--------------------------- MODULE MCOrderInvoice ---------------------------
(* Small instances of OrderInvoice for TLC.                                *)
EXTENDS OrderInvoice, TLC

(* A discount, or none.                                                   *)
SmallExtras == {-1, 0}
CashierSymmetry == Permutations(Cashiers)
=============================================================================
