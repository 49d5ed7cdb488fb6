-------------------------- MODULE InvoiceRegister --------------------------
(***************************************************************************)
(* What issuing promises a shop: a register of invoices that only grows,   *)
(* one invoice at a time, the n-th entry being the invoice of number n,    *)
(* and that bills an order once.  InvoiceNumbering is shown to implement   *)
(* it.                                                                     *)
(***************************************************************************)
EXTENDS Naturals, Sequences

CONSTANTS
  Entries,   \* an invoice, its total and the order it bills
  NoOrder    \* that of an invoice that bills none

VARIABLE register

Init == register = <<>>

Billed == {register[n].order : n \in 1..Len(register)} \ {NoOrder}

Issue ==
  \E entry \in Entries :
    entry.order \notin Billed /\ register' = Append(register, entry)

Spec == Init /\ [][Issue]_register
=============================================================================
