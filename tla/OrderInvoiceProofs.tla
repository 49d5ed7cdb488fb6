------------------------- MODULE OrderInvoiceProofs -------------------------
(***************************************************************************)
(* Proofs about OrderInvoice, for any cashiers, editors and amounts.       *)
(*                                                                         *)
(* What a cashier has seen of the invoice may be out of date when it saves.*)
(* The invariant says by how much: while the order is locked no invoice is *)
(* issued and a cancelled one stays so, and an invoice seen alive belongs  *)
(* to an order that is not cancelled.                                      *)
(***************************************************************************)
EXTENDS OrderInvoice, TLAPS

HolderSees ==
  holder # Nobody =>
    /\ seen.status \in {"none", "cancelled"} => invoice.status = seen.status
    /\ seen.status \in {"issued", "paid"} => torn \/ order.status # "cancelled"
    /\ payment[holder] = {} => order.status = "open"

SyncInv ==
  /\ TypeOK
  /\ HolderSees
  /\ InvoiceFollowsPayment
  /\ CancelledOrderCancelsInvoice
  /\ TotalFollowsLines

LEMMA InitInv == Init => SyncInv
<1> SUFFICES ASSUME Init PROVE SyncInv
  OBVIOUS
<1> USE HolderAssumption, AmountsAssumption DEF Init
<1>1. PICK extra \in Extras, status \in {"open", "shipped"},
           paid \in Amounts \cup {0} :
         order = [status |-> status, extra |-> extra, total |-> goods + extra,
                  paid |-> paid, payStatus |-> PayStatus(paid, goods + extra)]
  OBVIOUS
<1>2. order \in Order
  BY <1>1 DEF Order, Statuses, PayStatuses, PayStatus
<1>3. TypeOK
  <2>1. goods \in 0..MaxGoods
    OBVIOUS
  <2>2. invoice \in Invoice /\ seen \in Invoice
    BY DEF Invoice, NoInvoice
  <2>3. payment \in [Cashiers -> SUBSET Payment] /\ edit \in [Editors -> SUBSET Edit]
    OBVIOUS
  <2>4. torn \in BOOLEAN
    OBVIOUS
  <2> QED
    BY <1>2, <2>1, <2>2, <2>3, <2>4 DEF TypeOK
<1>4. order.total = goods + order.extra /\ order.status # "cancelled"
  BY <1>1
<1>5. invoice.status = "none" /\ holder = Nobody
  BY DEF NoInvoice
<1>6. InvoiceFollowsPayment /\ CancelledOrderCancelsInvoice
  BY <1>4, <1>5 DEF InvoiceFollowsPayment, CancelledOrderCancelsInvoice
<1>7. HolderSees /\ TotalFollowsLines
  BY <1>4, <1>5 DEF HolderSees, TotalFollowsLines
<1> QED
  BY <1>3, <1>6, <1>7 DEF SyncInv

(* Lines and status change only while no transaction holds the order.      *)
LEMMA OrderStepInv ==
  ASSUME SyncInv, ChangeLines \/ Progress
  PROVE  SyncInv'
<1> USE HolderAssumption, AmountsAssumption DEF SyncInv
<1>1. CASE ChangeLines
  <2>1. order' = [order EXCEPT !.total = goods' + order.extra] /\ goods' \in 0..MaxGoods
        /\ UNCHANGED <<invoice, payment, holder, seen, edit, torn>> /\ holder = Nobody
    BY <1>1 DEF ChangeLines, Unlocked
  <2>2. TypeOK'
    BY <2>1 DEF TypeOK, Order
  <2> QED
    BY <2>1, <2>2 DEF HolderSees, InvoiceFollowsPayment, TypeOK, Order,
       CancelledOrderCancelsInvoice, TotalFollowsLines
<1>2. CASE Progress
  <2>1. PICK status \in {"open", "shipped"} :
          order' = [order EXCEPT !.status = status]
    BY <1>2 DEF Progress
  <2>2. UNCHANGED <<goods, invoice, payment, holder, seen, edit, torn>>
        /\ holder = Nobody
    BY <1>2 DEF Progress, Unlocked
  <2>3. TypeOK'
    BY <2>1, <2>2 DEF TypeOK, Order, Statuses
  <2> QED
    BY <2>1, <2>2, <2>3 DEF HolderSees, InvoiceFollowsPayment, TypeOK, Order,
       CancelledOrderCancelsInvoice, TotalFollowsLines
<1> QED
  BY <1>1, <1>2

(* Reading, locking and rolling back write neither row.                    *)
LEMMA LockStepInv ==
  ASSUME SyncInv, NEW c \in Cashiers,
         PayRead(c) \/ PayLock(c) \/ CancelLock(c) \/ RollBack(c)
  PROVE  SyncInv'
<1> USE HolderAssumption, AmountsAssumption DEF SyncInv
<1>1. UNCHANGED <<order, goods, invoice, edit, torn>>
  BY DEF PayRead, PayLock, CancelLock, RollBack
<1>2. TypeOK'
  <2>1. CASE PayRead(c)
    BY <2>1 DEF PayRead, TypeOK, Payment, Order
  <2>2. CASE PayLock(c) \/ CancelLock(c)
    BY <2>2 DEF PayLock, CancelLock, TypeOK
  <2>3. CASE RollBack(c)
    BY <2>3 DEF RollBack, TypeOK, NoInvoice, Invoice
  <2> QED
    BY <2>1, <2>2, <2>3
<1>3. HolderSees'
  <2>1. CASE PayRead(c)
    BY <2>1 DEF PayRead, HolderSees, TypeOK
  <2>2. CASE PayLock(c)
    BY <2>2 DEF PayLock, HolderSees, TypeOK, CancelledOrderCancelsInvoice
  <2>3. CASE CancelLock(c)
    BY <2>3 DEF CancelLock, HolderSees, TypeOK, CancelledOrderCancelsInvoice
  <2>4. CASE RollBack(c)
    BY <2>4 DEF RollBack, HolderSees
  <2> QED
    BY <2>1, <2>2, <2>3, <2>4
<1> QED
  BY <1>1, <1>2, <1>3 DEF InvoiceFollowsPayment, CancelledOrderCancelsInvoice,
     TotalFollowsLines

(* Saving the invoice that was seen keeps both rows in agreement.          *)
LEMMA CommitStepInv ==
  ASSUME SyncInv, NEW c \in Cashiers, PayCommit(c) \/ CancelCommit(c)
  PROVE  SyncInv'
<1> USE HolderAssumption, AmountsAssumption DEF SyncInv
<1>1. /\ holder = c /\ holder' = Nobody /\ seen' = NoInvoice
      /\ payment' \in {payment, [payment EXCEPT ![c] = {}]}
      /\ UNCHANGED <<goods, edit, torn>>
  BY DEF PayCommit, CancelCommit
<1>2. PICK status \in {"open", "cancelled"}, payStatus \in PayStatuses, paid \in Int :
        /\ order' = [order EXCEPT !.paid = paid, !.payStatus = payStatus,
             !.status = IF status = "cancelled" THEN "cancelled" ELSE order.status]
        /\ invoice' = Synced(status, payStatus, paid)
  <2>1. CASE PayCommit(c)
    <3>1. PICK p \in payment[c] :
            /\ order' = [order EXCEPT !.paid = p.amount,
                                      !.payStatus = PayStatus(p.amount, p.total)]
            /\ invoice' = Synced("open", PayStatus(p.amount, p.total), p.amount)
      BY <2>1 DEF PayCommit
    <3>2. p.amount \in Int /\ PayStatus(p.amount, p.total) \in PayStatuses
      BY DEF TypeOK, Payment, PayStatus, PayStatuses
    <3> QED
      BY <3>1, <3>2 DEF TypeOK, Order
  <2>2. CASE CancelCommit(c)
    <3>1. order.paid \in Int /\ order.payStatus \in PayStatuses
      BY DEF TypeOK, Order
    <3> QED
      BY <2>2, <3>1 DEF CancelCommit, TypeOK, Order
  <2> QED
    BY <2>1, <2>2
<1>3. /\ order' \in Order /\ order'.paid = paid /\ order'.payStatus = payStatus
      /\ order'.total = order.total /\ order'.extra = order.extra
      /\ order'.status = IF status = "cancelled" THEN "cancelled" ELSE order.status
  BY <1>2 DEF TypeOK, Order, Statuses
<1>4. CASE seen.status \in {"none", "cancelled"}
  <2>1. invoice' = invoice /\ invoice.status \in {"none", "cancelled"}
    BY <1>1, <1>2, <1>4 DEF Synced, HolderSees, TypeOK
  <2> QED
    BY <1>1, <1>3, <2>1 DEF TypeOK, HolderSees, InvoiceFollowsPayment,
       CancelledOrderCancelsInvoice, TotalFollowsLines, NoInvoice, Invoice
<1>5. CASE seen.status \in {"issued", "paid"}
  <2>1. /\ invoice' \in Invoice /\ invoice'.paid = paid
        /\ invoice'.status = IF status = "cancelled" THEN "cancelled"
                             ELSE IF payStatus = "paid" THEN "paid" ELSE "issued"
    BY <1>2, <1>5 DEF Synced, TypeOK, Invoice
  <2>2. torn \/ order.status # "cancelled"
    BY <1>1, <1>5 DEF HolderSees, TypeOK
  <2> QED
    BY <1>1, <1>3, <2>1, <2>2 DEF TypeOK, HolderSees, InvoiceFollowsPayment,
       CancelledOrderCancelsInvoice, TotalFollowsLines, NoInvoice, Invoice
<1> QED
  BY <1>4, <1>5 DEF TypeOK, Invoice

(* The invoice's own life never leaves an issued invoice on a paid order.  *)
LEMMA InvoiceStepInv ==
  ASSUME SyncInv, IssueInvoice \/ MarkPaid \/ CancelInvoice
  PROVE  SyncInv'
<1> USE HolderAssumption, AmountsAssumption DEF SyncInv
<1>1. UNCHANGED <<order, goods, payment, holder, seen, edit, torn>>
  BY DEF IssueInvoice, MarkPaid, CancelInvoice
<1>2. CASE IssueInvoice
  <2>1. PICK tax \in Taxes :
          invoice' = [status |-> IF order.status = "cancelled" THEN "cancelled"
                                 ELSE IF order.payStatus = "paid" THEN "paid"
                                 ELSE "issued",
                      total |-> goods + order.extra + tax, paid |-> order.paid]
    BY <1>2 DEF IssueInvoice
  <2>2. invoice' \in Invoice /\ holder = Nobody
    BY <1>2, <2>1 DEF IssueInvoice, Unlocked, TypeOK, Order, Invoice
  <2> QED
    BY <1>1, <2>1, <2>2 DEF TypeOK, HolderSees, InvoiceFollowsPayment,
       CancelledOrderCancelsInvoice, TotalFollowsLines
<1>3. CASE MarkPaid \/ CancelInvoice
  <2>1. /\ invoice.status \in {"issued", "paid"}
        /\ invoice' \in Invoice
        /\ \/ invoice'.status = "cancelled"
           \/ invoice'.status = "paid" /\ invoice.status = "issued"
    BY <1>3 DEF MarkPaid, CancelInvoice, TypeOK, Invoice
  <2> QED
    BY <1>1, <2>1 DEF TypeOK, HolderSees, InvoiceFollowsPayment,
       CancelledOrderCancelsInvoice, TotalFollowsLines
<1> QED
  BY <1>2, <1>3

(* A header edit that writes anything stale is torn.                       *)
LEMMA EditStepInv ==
  ASSUME SyncInv, NEW e \in Editors,
         EditRead(e) \/ EditSave(e) \/ EditRecalculate(e) \/ EditDie(e)
  PROVE  SyncInv'
<1> USE HolderAssumption, AmountsAssumption DEF SyncInv
<1>1. UNCHANGED <<goods, invoice, payment, holder, seen>>
  BY DEF EditRead, EditSave, EditRecalculate, EditDie
<1>2. CASE EditRead(e)
  <2>1. PICK extra \in Extras :
          edit' = [edit EXCEPT ![e] =
             {[row |-> order, goods |-> goods, extra |-> extra, saved |-> FALSE]}]
    BY <1>2 DEF EditRead
  <2>2. edit[e] = {} /\ UNCHANGED <<order, torn>>
    BY <1>2 DEF EditRead
  <2>3. TypeOK'
    BY <1>1, <2>1, <2>2 DEF TypeOK, Edit
  <2>4. TotalFollowsLines'
    BY <1>1, <2>1, <2>2 DEF TypeOK, TotalFollowsLines
  <2> QED
    BY <1>1, <2>2, <2>3, <2>4 DEF HolderSees, InvoiceFollowsPayment,
       CancelledOrderCancelsInvoice
<1>3. CASE EditSave(e)
  <2>1. PICK x \in edit[e] :
          /\ order' = [x.row EXCEPT !.extra = x.extra]
          /\ torn' = (torn \/ x.row # order)
          /\ edit' = [edit EXCEPT ![e] = {[x EXCEPT !.saved = TRUE]}]
    BY <1>3 DEF EditSave
  <2>2. x \in Edit /\ holder = Nobody
    BY <1>3 DEF EditSave, Unlocked, TypeOK
  <2>3. order' \in Order /\ [x EXCEPT !.saved = TRUE] \in Edit
    BY <2>1, <2>2 DEF Edit, Order
  <2>4. TypeOK'
    BY <1>1, <2>1, <2>3 DEF TypeOK
  <2>5. TotalFollowsLines'
    <3>1. [x EXCEPT !.saved = TRUE] \in edit'[e] /\ [x EXCEPT !.saved = TRUE].saved
      BY <2>1, <2>2 DEF TypeOK, Edit
    <3> QED
      BY <3>1 DEF TotalFollowsLines
  <2>6. torn' \/ (/\ ~torn /\ order'.status = order.status
                  /\ order'.paid = order.paid
                  /\ order'.payStatus = order.payStatus)
    BY <2>1, <2>2 DEF Edit, Order, TypeOK
  <2> QED
    BY <1>1, <2>2, <2>4, <2>5, <2>6 DEF HolderSees, InvoiceFollowsPayment,
       CancelledOrderCancelsInvoice
<1>4. CASE EditRecalculate(e)
  <2>1. PICK x \in edit[e] :
          /\ order' = [order EXCEPT !.total = x.goods + x.extra]
          /\ torn' = (torn \/ x.goods # goods \/ x.extra # order.extra)
    BY <1>4 DEF EditRecalculate
  <2>2. edit' = [edit EXCEPT ![e] = {}] /\ holder = Nobody
    BY <1>4 DEF EditRecalculate, Unlocked
  <2>3. x \in Edit
    BY DEF TypeOK
  <2>4. TypeOK'
    BY <1>1, <2>1, <2>2, <2>3 DEF TypeOK, Edit, Order
  <2>5. TotalFollowsLines'
    BY <1>1, <2>1, <2>3 DEF TotalFollowsLines, TypeOK, Edit, Order
  <2>6. /\ order'.status = order.status /\ order'.paid = order.paid
        /\ order'.payStatus = order.payStatus /\ (torn => torn')
    BY <2>1 DEF TypeOK, Order
  <2> QED
    BY <1>1, <2>2, <2>4, <2>5, <2>6 DEF HolderSees, InvoiceFollowsPayment,
       CancelledOrderCancelsInvoice
<1>5. CASE EditDie(e)
  <2>1. /\ UNCHANGED order /\ edit' = [edit EXCEPT ![e] = {}]
        /\ torn' = (torn \/ \E x \in edit[e] : x.saved)
    BY <1>5 DEF EditDie
  <2>2. TypeOK'
    BY <1>1, <2>1 DEF TypeOK, Edit
  <2>3. TotalFollowsLines'
    BY <1>1, <2>1 DEF TypeOK, TotalFollowsLines
  <2>4. torn => torn'
    BY <2>1
  <2> QED
    BY <1>1, <2>1, <2>2, <2>3, <2>4 DEF HolderSees, InvoiceFollowsPayment,
       CancelledOrderCancelsInvoice
<1> QED
  BY <1>2, <1>3, <1>4, <1>5

LEMMA NextInv == SyncInv /\ [Next]_vars => SyncInv'
<1> SUFFICES ASSUME SyncInv, [Next]_vars PROVE SyncInv'
  OBVIOUS
<1>1. CASE ChangeLines \/ Progress
  BY <1>1, OrderStepInv
<1>2. CASE IssueInvoice \/ MarkPaid \/ CancelInvoice
  BY <1>2, InvoiceStepInv
<1>3. ASSUME NEW c \in Cashiers,
             PayRead(c) \/ PayLock(c) \/ CancelLock(c) \/ RollBack(c)
      PROVE  SyncInv'
  BY <1>3, LockStepInv
<1>4. ASSUME NEW c \in Cashiers, PayCommit(c) \/ CancelCommit(c)
      PROVE  SyncInv'
  BY <1>4, CommitStepInv
<1>5. ASSUME NEW e \in Editors,
             EditRead(e) \/ EditSave(e) \/ EditRecalculate(e) \/ EditDie(e)
      PROVE  SyncInv'
  BY <1>5, EditStepInv
<1>6. CASE UNCHANGED vars
  BY <1>6 DEF vars, SyncInv, TypeOK, HolderSees, InvoiceFollowsPayment,
     CancelledOrderCancelsInvoice, TotalFollowsLines
<1> QED
  BY <1>1, <1>2, <1>3, <1>4, <1>5, <1>6 DEF Next

LEMMA SyncInvariance == Spec => []SyncInv
BY InitInv, NextInv, PTL DEF Spec

(* OrderInvoice's variables keep their types.                              *)
THEOREM SyncTypeCorrect == Spec => []TypeOK
BY SyncInvariance, PTL DEF SyncInv

(* A paid order has a paid invoice and an unpaid invoice shows the amount  *)
(* the order has received, however payments, manual changes, cancellations *)
(* and rollbacks interleave (sync_invoice_from_order), torn edits excepted.*)
THEOREM PaymentsReachTheInvoice == Spec => []InvoiceFollowsPayment
BY SyncInvariance, PTL DEF SyncInv

(* The invoice of a cancelled order is cancelled, however the cancellation *)
(* races payments and manual changes, torn edits excepted.                 *)
THEOREM CancellationReachesTheInvoice == Spec => []CancelledOrderCancelsInvoice
BY SyncInvariance, PTL DEF SyncInv

(* The order's total is its lines plus shipping minus discount whenever no *)
(* header edit is between its save and its recomputation, torn edits       *)
(* excepted.                                                               *)
THEOREM TotalsFollowLines == Spec => []TotalFollowsLines
BY SyncInvariance, PTL DEF SyncInv
=============================================================================
