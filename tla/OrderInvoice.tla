---------------------------- MODULE OrderInvoice ----------------------------
(***************************************************************************)
(* One order, its payment and the invoice issued from it.                  *)
(*                                                                         *)
(* apps/orders propagates payments and cancellations to the invoice with   *)
(* sync_invoice_from_order, which reads the invoice without a lock and     *)
(* saves it afterwards, while InvoiceStatusView marks it paid or cancels it*)
(* with one conditional UPDATE.  Recording a payment reads the order before*)
(* the transaction that writes it.  A header edit (OrderDetailView.update) *)
(* is no transaction at all: it saves the row it read, then recomputes the *)
(* total from the lines it read.                                           *)
(*                                                                         *)
(* The transactions that change the order hold its row lock; a transaction *)
(* that only touches the order is one action, one that goes on to the      *)
(* invoice is two, with the lock held in between.                          *)
(***************************************************************************)
EXTENDS Integers

CONSTANTS
  Cashiers,   \* the sessions that record payments or cancel the order
  Editors,    \* the sessions that edit the order's header
  Nobody,     \* the holder of a lock that is free
  MaxGoods,   \* bound: the largest sum of the order's lines
  Extras,     \* the values of shipping minus discount
  Amounts,    \* the amounts a cashier may enter as received
  Taxes,      \* the tax an invoice may add, whatever its rate and rounding
  MayDie      \* whether a header edit may be interrupted

ASSUME HolderAssumption == Nobody \notin Cashiers
ASSUME AmountsAssumption ==
  /\ MaxGoods \in Nat
  /\ Extras \subseteq Int /\ Amounts \subseteq Nat /\ Taxes \subseteq Nat
  /\ MayDie \in BOOLEAN

VARIABLES
  order,     \* the order's row
  goods,     \* the sum of the order's lines; 0 when it has none
  invoice,   \* the invoice's row
  payment,   \* payment[c]: the payment c is recording, at most one
  holder,    \* the cashier whose transaction holds the order's row lock
  seen,      \* the invoice as that transaction has read it
  edit,      \* edit[e]: the header edit of e, at most one
  torn       \* history: a header edit wrote stale data or was interrupted

vars == <<order, goods, invoice, payment, holder, seen, edit, torn>>

(* "open" stands for to_prepare and prepared, the editable statuses.       *)
Statuses == {"open", "shipped", "cancelled"}
PayStatuses == {"unpaid", "partial", "paid"}
Order == [status : Statuses, extra : Int, total : Int, paid : Int,
          payStatus : PayStatuses]
Invoice == [status : {"none", "issued", "paid", "cancelled"},
            total : Int, paid : Int]
Payment == [amount : Int, total : Int]
Edit == [row : Order, goods : Int, extra : Int, saved : BOOLEAN]

TypeOK ==
  /\ order \in Order
  /\ goods \in 0..MaxGoods
  /\ invoice \in Invoice
  /\ payment \in [Cashiers -> SUBSET Payment]
  /\ holder \in Cashiers \cup {Nobody}
  /\ seen \in Invoice
  /\ edit \in [Editors -> SUBSET Edit]
  /\ torn \in BOOLEAN

NoInvoice == [status |-> "none", total |-> 0, paid |-> 0]

(* update_payment's rule, against the total the caller's order carries.    *)
PayStatus(amount, total) ==
  IF amount <= 0 THEN "unpaid" ELSE IF amount < total THEN "partial" ELSE "paid"

(* The order as OrderListCreateView.post leaves it: unpaid, or paid up to  *)
(* its total, possibly handed over already.                                *)
Init ==
  /\ goods \in 1..MaxGoods
  /\ \E extra \in Extras, status \in {"open", "shipped"},
        paid \in Amounts \cup {0} :
       /\ paid <= goods + extra
       /\ order = [status |-> status, extra |-> extra, total |-> goods + extra,
                   paid |-> paid, payStatus |-> PayStatus(paid, goods + extra)]
  /\ invoice = NoInvoice
  /\ payment = [c \in Cashiers |-> {}]
  /\ holder = Nobody
  /\ seen = NoInvoice
  /\ edit = [e \in Editors |-> {}]
  /\ torn = FALSE

----------------------------------------------------------------------------
(* The order's lines and status.                                           *)

Unlocked == holder = Nobody

(* add_item, update_item_quantity and remove_item: the total follows the   *)
(* lines; the payment status is left as it was.                            *)
ChangeLines ==
  /\ Unlocked
  /\ order.status = "open"
  /\ goods' \in 0..MaxGoods
  /\ order' = [order EXCEPT !.total = goods' + order.extra]
  /\ UNCHANGED <<invoice, payment, holder, seen, edit, torn>>

(* transition_status towards anything but cancelled leaves the invoice.    *)
Progress ==
  /\ Unlocked
  /\ \E status \in {"open", "shipped"} :
       /\ <<order.status, status>> \in
            {<<"open", "shipped">>, <<"shipped", "open">>, <<"cancelled", "open">>}
       /\ order' = [order EXCEPT !.status = status]
  /\ UNCHANGED <<goods, invoice, payment, holder, seen, edit, torn>>

----------------------------------------------------------------------------
(* Payments and cancellations, and what they write into the invoice.       *)

(* Mutant: the order's payment status is copied to the invoice.            *)
SyncedStatus(status, payStatus, amount) ==
  IF seen.status \in {"none", "cancelled"} THEN invoice
  ELSE [invoice EXCEPT
          !.status = IF status = "cancelled" THEN "cancelled"
                     ELSE payStatus,
          !.paid = amount]

(* Mutant: a paid invoice is left alone, as an issued document would be.   *)
SyncedUnpaid(status, payStatus, amount) ==
  IF seen.status \in {"none", "paid", "cancelled"} THEN invoice
  ELSE [invoice EXCEPT
          !.status = IF status = "cancelled" THEN "cancelled"
                     ELSE IF payStatus = "paid" THEN "paid" ELSE "issued",
          !.paid = amount]

(* sync_invoice_from_order, saving the invoice that was seen: nothing to do*)
(* without one or when it was seen cancelled.                              *)
Synced(status, payStatus, amount) ==
  IF seen.status \in {"none", "cancelled"} THEN invoice
  ELSE [invoice EXCEPT
          !.status = IF status = "cancelled" THEN "cancelled"
                     ELSE IF payStatus = "paid" THEN "paid" ELSE "issued",
          !.paid = amount]

(* OrderPaymentView.post reads the order and refuses a cancelled one...    *)
PayRead(c) ==
  /\ payment[c] = {}
  /\ holder # c
  /\ order.status # "cancelled"
  /\ \E amount \in Amounts :
       payment' = [payment EXCEPT ![c] = {[amount |-> amount, total |-> order.total]}]
  /\ UNCHANGED <<order, goods, invoice, holder, seen, edit, torn>>

(* ... update_payment's UPDATE takes the row lock, then reads the invoice, *)
PayLock(c) ==
  /\ payment[c] # {}
  /\ Unlocked
  /\ holder' = c
  /\ seen' = invoice
  /\ UNCHANGED <<order, goods, invoice, payment, edit, torn>>

(* and saves it and commits; the status comes from the total first read.   *)
PayCommit(c) ==
  /\ holder = c
  /\ \E p \in payment[c] :
       LET payStatus == PayStatus(p.amount, p.total) IN
       /\ order' = [order EXCEPT !.paid = p.amount, !.payStatus = payStatus]
       /\ invoice' = Synced("open", payStatus, p.amount)
  /\ payment' = [payment EXCEPT ![c] = {}]
  /\ holder' = Nobody
  /\ seen' = NoInvoice
  /\ UNCHANGED <<goods, edit, torn>>

(* transition_status to cancelled: lock, checks, the invoice is read ...   *)
CancelLock(c) ==
  /\ payment[c] = {}
  /\ Unlocked
  /\ order.status = "open"
  /\ holder' = c
  /\ seen' = invoice
  /\ UNCHANGED <<order, goods, invoice, payment, edit, torn>>

(* ... and cancelled with the order.                                       *)
CancelCommit(c) ==
  /\ holder = c
  /\ payment[c] = {}
  /\ order' = [order EXCEPT !.status = "cancelled"]
  /\ invoice' = Synced("cancelled", order.payStatus, order.paid)
  /\ holder' = Nobody
  /\ seen' = NoInvoice
  /\ UNCHANGED <<goods, payment, edit, torn>>

(* The transaction is rolled back, or the worker that runs it dies.        *)
RollBack(c) ==
  /\ holder = c
  /\ payment' = [payment EXCEPT ![c] = {}]
  /\ holder' = Nobody
  /\ seen' = NoInvoice
  /\ UNCHANGED <<order, goods, invoice, edit, torn>>

----------------------------------------------------------------------------
(* The invoice by itself.                                                  *)

(* Mutant: issuing does not take the order's row lock.                     *)
IssueUnlocked ==
  /\ goods > 0
  /\ invoice.status = "none"
  /\ \E tax \in Taxes :
       invoice' = [status |-> IF order.status = "cancelled" THEN "cancelled"
                              ELSE IF order.payStatus = "paid" THEN "paid"
                              ELSE "issued",
                   total |-> goods + order.extra + tax,
                   paid |-> order.paid]
  /\ UNCHANGED <<order, goods, payment, holder, seen, edit, torn>>

(* issue_invoice_from_order: under the order's lock, once, for an order    *)
(* with lines; the invoice is born in the state the order is in.           *)
IssueInvoice ==
  /\ Unlocked
  /\ goods > 0
  /\ invoice.status = "none"
  /\ \E tax \in Taxes :
       invoice' = [status |-> IF order.status = "cancelled" THEN "cancelled"
                              ELSE IF order.payStatus = "paid" THEN "paid"
                              ELSE "issued",
                   total |-> goods + order.extra + tax,
                   paid |-> order.paid]
  /\ UNCHANGED <<order, goods, payment, holder, seen, edit, torn>>

(* mark_paid and cancel_invoice: one conditional UPDATE each.              *)
MarkPaid ==
  /\ invoice.status = "issued"
  /\ invoice' = [invoice EXCEPT !.status = "paid", !.paid = invoice.total]
  /\ UNCHANGED <<order, goods, payment, holder, seen, edit, torn>>

CancelInvoice ==
  /\ invoice.status \in {"issued", "paid"}
  /\ invoice' = [invoice EXCEPT !.status = "cancelled"]
  /\ UNCHANGED <<order, goods, payment, holder, seen, edit, torn>>

----------------------------------------------------------------------------
(* OrderDetailView.update: three statements, each committed by itself.     *)

EditRead(e) ==
  /\ edit[e] = {}
  /\ order.status = "open"
  /\ \E extra \in Extras :
       edit' = [edit EXCEPT ![e] =
                  {[row |-> order, goods |-> goods, extra |-> extra, saved |-> FALSE]}]
  /\ UNCHANGED <<order, goods, invoice, payment, holder, seen, torn>>

(* serializer.save(): every column that was read, and the new header.      *)
EditSave(e) ==
  /\ Unlocked
  /\ \E x \in edit[e] :
       /\ ~x.saved
       /\ order' = [x.row EXCEPT !.extra = x.extra]
       /\ torn' = (torn \/ x.row # order)
       /\ edit' = [edit EXCEPT ![e] = {[x EXCEPT !.saved = TRUE]}]
  /\ UNCHANGED <<goods, invoice, payment, holder, seen>>

(* recalculate_totals, from the lines prefetched with the row.             *)
EditRecalculate(e) ==
  /\ Unlocked
  /\ \E x \in edit[e] :
       /\ x.saved
       /\ order' = [order EXCEPT !.total = x.goods + x.extra]
       /\ torn' = (torn \/ x.goods # goods \/ x.extra # order.extra)
  /\ edit' = [edit EXCEPT ![e] = {}]
  /\ UNCHANGED <<goods, invoice, payment, holder, seen>>

(* The worker dies between the statements.                                 *)
EditDie(e) ==
  /\ MayDie
  /\ edit[e] # {}
  /\ torn' = (torn \/ \E x \in edit[e] : x.saved)
  /\ edit' = [edit EXCEPT ![e] = {}]
  /\ UNCHANGED <<order, goods, invoice, payment, holder, seen>>

----------------------------------------------------------------------------
Next ==
  \/ ChangeLines \/ Progress \/ IssueInvoice \/ MarkPaid \/ CancelInvoice
  \/ \E c \in Cashiers : \/ PayRead(c) \/ PayLock(c) \/ PayCommit(c)
                         \/ CancelLock(c) \/ CancelCommit(c) \/ RollBack(c)
  \/ \E e \in Editors : \/ EditRead(e) \/ EditSave(e) \/ EditRecalculate(e)
                        \/ EditDie(e)

Spec == Init /\ [][Next]_vars

----------------------------------------------------------------------------
(* Safety                                                                  *)

(* An order that is paid has its invoice paid, unless it was cancelled, and*)
(* an invoice still to be paid shows the amount received on the order: no  *)
(* interleaving of payments and manual changes leaves them apart, torn     *)
(* header edits excepted (sync_invoice_from_order's rules 2 and 3).        *)
InvoiceFollowsPayment ==
  torn \/ /\ order.payStatus = "paid" => invoice.status # "issued"
          /\ invoice.status = "issued" => invoice.paid = order.paid

(* The invoice of a cancelled order is cancelled, whatever payments and    *)
(* manual changes raced the cancellation (rule 1), torn edits excepted.    *)
CancelledOrderCancelsInvoice ==
  torn \/ (order.status = "cancelled" => invoice.status \in {"none", "cancelled"})

(* Between header edits, the total is the lines plus shipping minus        *)
(* discount, torn edits excepted (recalculate_totals).                     *)
TotalFollowsLines ==
  \/ torn
  \/ \E e \in Editors : \E x \in edit[e] : x.saved
  \/ order.total = goods + order.extra

(* A cancelled invoice stays cancelled, a terminal legal state             *)
(* (sync_invoice_from_order's docstring).                                  *)
CancelledInvoiceIsFinal ==
  [][invoice.status = "cancelled" => invoice'.status = "cancelled"]_vars

(* The payment of a cancelled order cannot be changed                      *)
(* (OrderPaymentView.post).                                                *)
NoPaymentOnceCancelled ==
  [][order.status = "cancelled" => order'.paid = order.paid]_vars
=============================================================================
