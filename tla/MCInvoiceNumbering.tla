------------------------- MODULE MCInvoiceNumbering -------------------------
(* Small instances of InvoiceNumbering for TLC.                            *)
EXTENDS InvoiceNumbering

(* The register holds the invoice of each number, with its total and the   *)
(* order it bills.                                                         *)
Entry(d) == [invoice |-> d, total |-> doc[d].total, order |-> doc[d].order]
ByNumber(n) == CHOOSE d \in Docs : doc[d].number = n
Issued == [n \in 1..last |-> Entry(ByNumber(n))]
Register == INSTANCE InvoiceRegister WITH
  Entries <- [invoice : Docs, total : Amounts, order : Orders \cup {NoOrder}],
  register <- Issued

(* Issuing invoices, from drafts and orders, with failures anywhere, only  *)
(* ever appends to the shop's register of invoices, and no order is billed *)
(* twice (issue_invoice, issue_invoice_from_order).                        *)
ImplementsRegister == Register!Spec
=============================================================================
