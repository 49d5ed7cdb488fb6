-------------------------- MODULE InvoiceNumbering --------------------------
(***************************************************************************)
(* Invoice documents of one shop (apps/invoices): drafts written and saved *)
(* by several devices, and the two ways of issuing an invoice, from a draft*)
(* (issue_invoice) and from an order (issue_invoice_from_order).           *)
(*                                                                         *)
(* A job is one HTTP request.  Its transaction takes the row locks the code*)
(* takes, in the same order, and commits in its last step; a job that is   *)
(* refused, fails or dies is rolled back.  Amounts stand for the lines.    *)
(*                                                                         *)
(* A row that names the shop is checked, when its transaction commits,     *)
(* against the shop's row, which PostgreSQL locks FOR KEY SHARE.  Its      *)
(* detection of deadlocks is left out: requests that wait for each other   *)
(* wait for ever, where PostgreSQL would end one of them with an error.    *)
(***************************************************************************)
EXTENDS Integers

CONSTANTS
  Jobs,        \* the requests, each sent once
  Docs,        \* the identities invoices may take
  Orders,      \* the orders that may be invoiced
  NoOrder,     \* the order of a free invoice
  Nobody,      \* the holder of a lock that is free
  AnEdit,      \* the holder of an order's lock while a line is inserted
  MaxAmount,   \* bound: the largest amount
  MaxVersion   \* bound: the last version of a draft

ASSUME NobodyAssumption == Nobody \notin Jobs
ASSUME AnEditAssumption == AnEdit \notin Jobs \cup {Nobody}
ASSUME NoOrderAssumption == NoOrder \notin Orders
ASSUME BoundsAssumption == MaxAmount \in Nat /\ MaxVersion \in Nat

VARIABLES
  doc,        \* doc[d]: the row of invoice d and its lines
  last,       \* InvoiceSequence.last_number
  amount,     \* amount[o]: what order o's lines and header come to
  job,        \* job[j]: what request j does, and with what it was sent
  pc,         \* pc[j]: where it stands
  taken,      \* taken[j]: the lines it has read for the invoice it issues
  number,     \* number[j]: the number it has taken, 0 before
  shopLock,   \* the job that holds the shop's row lock
  docLock,    \* docLock[d]: the job that holds the row lock of invoice d
  orderLock   \* orderLock[o]: who holds the row lock of order o

vars == <<doc, last, amount, job, pc, taken, number, shopLock, docLock,
          orderLock>>

Amounts == 0..MaxAmount
Numbered == {"issued", "paid", "cancelled"}
Doc == [status : {"none", "draft", "deleted"} \cup Numbered,
        order : Orders \cup {NoOrder}, lines : Amounts, buyer : BOOLEAN,
        total : Amounts, number : Nat, version : 0..MaxVersion]
Job == [op : {"save", "delete", "issue", "bill"}, doc : Docs,
        order : Orders \cup {NoOrder}, version : 0..MaxVersion,
        read : Amounts, lines : Amounts, buyer : BOOLEAN]
Ended == {"done", "refused"}
Running == {"sent", "shop", "locked", "numbered"}

TypeOK ==
  /\ doc \in [Docs -> Doc]
  /\ last \in Nat
  /\ amount \in [Orders -> Amounts]
  /\ job \in [Jobs -> SUBSET Job]
  /\ pc \in [Jobs -> {"idle"} \cup Running \cup Ended]
  /\ taken \in [Jobs -> Amounts]
  /\ number \in [Jobs -> Nat]
  /\ shopLock \in Jobs \cup {Nobody}
  /\ docLock \in [Docs -> Jobs \cup {Nobody}]
  /\ orderLock \in [Orders -> Jobs \cup {Nobody, AnEdit}]

NoDoc == [status |-> "none", order |-> NoOrder, lines |-> 0, buyer |-> FALSE,
          total |-> 0, number |-> 0, version |-> 0]

Init ==
  /\ doc = [d \in Docs |-> NoDoc]
  /\ last = 0
  /\ amount \in [Orders -> Amounts]
  /\ job = [j \in Jobs |-> {}]
  /\ pc = [j \in Jobs |-> "idle"]
  /\ taken = [j \in Jobs |-> 0]
  /\ number = [j \in Jobs |-> 0]
  /\ shopLock = Nobody
  /\ docLock = [d \in Docs |-> Nobody]
  /\ orderLock = [o \in Orders |-> Nobody]

(* Mutant: select_for_update() on the shop, without no_key.                *)
ForUpdate == "update"

(* The strength of the lock that both ways of issuing take on the shop.    *)
ShopMode == "no key update"

(* A row of the shop can be inserted: FOR KEY SHARE passes beside any lock *)
(* but FOR UPDATE.                                                         *)
ShopShared == shopLock = Nobody \/ ShopMode # "update"

----------------------------------------------------------------------------
(* Requests of one statement or that hold no lock that another one needs.  *)

(* The identity a request in progress has drawn for the invoice it inserts;*)
(* identities are never shared.                                            *)
Promised(d) ==
  \E j \in Jobs : pc[j] \notin Ended /\ \E x \in job[j] : x.op = "bill" /\ x.doc = d

(* create_draft_invoice: no number, totals from the lines it is sent.      *)
CreateDraft(d) ==
  /\ doc[d].status = "none"
  /\ ~Promised(d)
  /\ ShopShared
  /\ \E lines \in Amounts, buyer \in BOOLEAN :
       doc' = [doc EXCEPT ![d] =
                 [status |-> "draft", order |-> NoOrder, lines |-> lines,
                  buyer |-> buyer, total |-> lines, number |-> 0, version |-> 0]]
  /\ UNCHANGED <<last, amount, job, pc, taken, number, shopLock, docLock, orderLock>>

(* Mutant: the invoice takes the order's partial payment as a status.      *)
CopyStatus(d) ==
  /\ docLock[d] = Nobody
  /\ \E status \in {"paid", "partial", "cancelled"} :
       /\ <<doc[d].status, status>> \in
            {<<"issued", "partial">>, <<"issued", "paid">>, <<"issued", "cancelled">>, <<"paid", "cancelled">>}
       /\ doc' = [doc EXCEPT ![d].status = status]
  /\ UNCHANGED <<last, amount, job, pc, taken, number, shopLock, docLock, orderLock>>

(* mark_paid and cancel_invoice: conditional UPDATEs of an issued invoice. *)
ChangeStatus(d) ==
  /\ docLock[d] = Nobody
  /\ \E status \in {"paid", "cancelled"} :
       /\ <<doc[d].status, status>> \in
            {<<"issued", "paid">>, <<"issued", "cancelled">>, <<"paid", "cancelled">>}
       /\ doc' = [doc EXCEPT ![d].status = status]
  /\ UNCHANGED <<last, amount, job, pc, taken, number, shopLock, docLock, orderLock>>

(* The order goes on being edited, invoiced or not: its header, or its     *)
(* lines when nothing has to be inserted (remove_item).                    *)
EditOrder(o) ==
  /\ orderLock[o] = Nobody
  /\ \E a \in Amounts : amount' = [amount EXCEPT ![o] = a]
  /\ UNCHANGED <<doc, last, job, pc, taken, number, shopLock, docLock, orderLock>>

(* add_item, and the edits that move reserved stock: the order's row lock, *)
(* then, to commit, the shop's row for the line or movement inserted.      *)
BeginInsert(o) ==
  /\ orderLock[o] = Nobody
  /\ orderLock' = [orderLock EXCEPT ![o] = AnEdit]
  /\ UNCHANGED <<doc, last, amount, job, pc, taken, number, shopLock, docLock>>

EndInsert(o) ==
  /\ orderLock[o] = AnEdit
  /\ ShopShared
  /\ \E a \in Amounts : amount' = [amount EXCEPT ![o] = a]
  /\ orderLock' = [orderLock EXCEPT ![o] = Nobody]
  /\ UNCHANGED <<doc, last, job, pc, taken, number, shopLock, docLock>>

----------------------------------------------------------------------------
(* Requests in several steps.                                              *)

(* A request is sent for a draft or an order the device has on its screen; *)
(* a save carries the version of the draft it was shown.                   *)
Send(j) ==
  /\ pc[j] = "idle"
  /\ \E x \in Job :
       /\ job' = [job EXCEPT ![j] = {x}]
       /\ IF x.op = "bill"
          THEN x.order # NoOrder /\ doc[x.doc].status = "none" /\ ~Promised(x.doc)
          ELSE x.order = NoOrder /\ doc[x.doc].status = "draft"
       /\ x.version = doc[x.doc].version
       /\ x.read = doc[x.doc].lines
       /\ x.op # "save" => x.lines = 0 /\ ~x.buyer
  /\ pc' = [pc EXCEPT ![j] = "sent"]
  /\ UNCHANGED <<doc, last, amount, taken, number, shopLock, docLock, orderLock>>

(* Locks go with the transaction, whichever way it ends.                   *)
Release(j) ==
  /\ shopLock' = IF shopLock = j THEN Nobody ELSE shopLock
  /\ docLock' = [d \in Docs |-> IF docLock[d] = j THEN Nobody ELSE docLock[d]]
  /\ orderLock' = [o \in Orders |-> IF orderLock[o] = j THEN Nobody ELSE orderLock[o]]
  /\ number' = [number EXCEPT ![j] = 0]

RollBack(j) ==
  /\ Release(j)
  /\ pc' = [pc EXCEPT ![j] = "refused"]
  /\ UNCHANGED <<doc, last, amount, job, taken>>

(* Both ways of issuing start with the shop's row lock.                    *)
LockShop(j) ==
  /\ pc[j] = "sent"
  /\ \E x \in job[j] : x.op \in {"issue", "bill"}
  /\ shopLock = Nobody
  /\ shopLock' = j
  /\ pc' = [pc EXCEPT ![j] = "shop"]
  /\ UNCHANGED <<doc, last, amount, job, taken, number, docLock, orderLock>>

(* Where a request asks for the row lock of its draft.                     *)
AtDoc(j, x) ==
  \/ pc[j] = "sent" /\ x.op \in {"save", "delete"}
  \/ pc[j] = "shop" /\ x.op = "issue"

(* Mutant: the version is not compared.                                    *)
AnyVersion(x) == TRUE

Fresh(x) == doc[x.doc].version = x.version

(* Mutant: the status is not compared.                                     *)
AcceptableVersion(x) == x.op = "save" => Fresh(x)

(* What it finds there: a draft, of the version that was read for a save   *)
(* (update_draft_invoice's conditional UPDATE).                            *)
Acceptable(x) == doc[x.doc].status = "draft" /\ (x.op = "save" => Fresh(x))

(* Mutant: no select_for_update on the draft.                              *)
NoRowLock(d) == TRUE

RowFree(d) == docLock[d] = Nobody

LockDoc(j) ==
  /\ \E x \in job[j] :
       /\ AtDoc(j, x)
       /\ RowFree(x.doc)
       /\ Acceptable(x)
       /\ docLock' = [docLock EXCEPT ![x.doc] = j]
       /\ taken' = [taken EXCEPT ![j] = doc[x.doc].lines]
  /\ pc' = [pc EXCEPT ![j] = "locked"]
  /\ UNCHANGED <<doc, last, amount, job, number, shopLock, orderLock>>

(* DraftConflictError and NotDraftError.                                   *)
RefuseDoc(j) ==
  /\ \E x \in job[j] : AtDoc(j, x) /\ docLock[x.doc] = Nobody /\ ~Acceptable(x)
  /\ RollBack(j)

(* Mutant: the order's invoice is not looked for under the lock.           *)
NeverInvoiced(o) == FALSE

Invoiced(o) == \E d \in Docs : doc[d].order = o

(* issue_invoice_from_order: the order's row lock, an order with lines and *)
(* not invoiced yet (EmptyOrderError, InvoiceAlreadyExistsError).          *)
LockOrder(j) ==
  /\ pc[j] = "shop"
  /\ \E x \in job[j] :
       /\ x.op = "bill"
       /\ orderLock[x.order] = Nobody
       /\ amount[x.order] > 0
       /\ ~Invoiced(x.order)
       /\ orderLock' = [orderLock EXCEPT ![x.order] = j]
       /\ taken' = [taken EXCEPT ![j] = amount[x.order]]
  /\ pc' = [pc EXCEPT ![j] = "locked"]
  /\ UNCHANGED <<doc, last, amount, job, number, shopLock, docLock>>

RefuseOrder(j) ==
  /\ pc[j] = "shop"
  /\ \E x \in job[j] :
       /\ x.op = "bill"
       /\ orderLock[x.order] = Nobody
       /\ amount[x.order] = 0 \/ Invoiced(x.order)
  /\ RollBack(j)

(* check_invoice's blocking points: no line or a total of zero, no buyer.  *)
Blocked(x, lines) == x.op = "issue" /\ (lines = 0 \/ ~doc[x.doc].buyer)

RefuseIncomplete(j) ==
  /\ pc[j] = "locked"
  /\ \E x \in job[j] : Blocked(x, taken[j])
  /\ RollBack(j)

(* _next_invoice_number: the counter's row lock, then its next value; the  *)
(* increment shows with the commit.                                        *)
CounterFree(j) == \A k \in Jobs \ {j} : number[k] = 0

TakeNumber(j) ==
  /\ pc[j] = "locked"
  /\ \E x \in job[j] : x.op \in {"issue", "bill"} /\ ~Blocked(x, taken[j])
  /\ CounterFree(j)
  /\ number' = [number EXCEPT ![j] = last + 1]
  /\ pc' = [pc EXCEPT ![j] = "numbered"]
  /\ UNCHANGED <<doc, last, amount, job, taken, shopLock, docLock, orderLock>>

(* update_draft_invoice: the lines are replaced, by rows of the shop if    *)
(* there are any, and the totals refreshed.                                *)
CommitSave(j) ==
  /\ pc[j] = "locked"
  /\ \E x \in job[j] :
       /\ x.op = "save"
       /\ x.lines > 0 => ShopShared
       /\ doc[x.doc].version < MaxVersion
       /\ doc' = [doc EXCEPT ![x.doc] =
                    [status |-> "draft", order |-> doc[x.doc].order,
                     lines |-> x.lines, buyer |-> x.buyer, total |-> x.lines,
                     number |-> 0, version |-> doc[x.doc].version + 1]]
  /\ Release(j)
  /\ pc' = [pc EXCEPT ![j] = "done"]
  /\ UNCHANGED <<last, amount, job, taken>>

(* delete_draft_invoice.                                                   *)
CommitDelete(j) ==
  /\ pc[j] = "locked"
  /\ \E x \in job[j] :
       /\ x.op = "delete"
       /\ doc' = [doc EXCEPT ![x.doc].status = "deleted"]
  /\ Release(j)
  /\ pc' = [pc EXCEPT ![j] = "done"]
  /\ UNCHANGED <<last, amount, job, taken>>

(* issue_invoice, its conditional UPDATE of the draft and the commit.      *)
CommitIssue(j) ==
  /\ pc[j] = "numbered"
  /\ \E x \in job[j] :
       /\ x.op = "issue"
       /\ doc[x.doc].status = "draft" /\ doc[x.doc].version < MaxVersion
       /\ doc' = [doc EXCEPT ![x.doc] =
                    [status |-> "issued", order |-> doc[x.doc].order,
                     lines |-> doc[x.doc].lines, buyer |-> doc[x.doc].buyer,
                     total |-> taken[j], number |-> number[j],
                     version |-> doc[x.doc].version + 1]]
  /\ last' = number[j]
  /\ Release(j)
  /\ pc' = [pc EXCEPT ![j] = "done"]
  /\ UNCHANGED <<amount, job, taken>>

(* issue_invoice_from_order, the INSERT and the commit; sync makes it paid *)
(* or cancelled from the start when its order is.                          *)
CommitBill(j) ==
  /\ pc[j] = "numbered"
  /\ \E x \in job[j], status \in Numbered :
       /\ x.op = "bill"
       /\ doc' = [doc EXCEPT ![x.doc] =
                    [status |-> status, order |-> x.order, lines |-> taken[j],
                     buyer |-> FALSE, total |-> taken[j], number |-> number[j],
                     version |-> 0]]
  /\ last' = number[j]
  /\ Release(j)
  /\ pc' = [pc EXCEPT ![j] = "done"]
  /\ UNCHANGED <<amount, job, taken>>

(* An exception after the number was taken, a recommendation that was not  *)
(* acknowledged, a customer that is gone, or a worker that dies.           *)
Fail(j) ==
  /\ pc[j] \in Running
  /\ RollBack(j)

----------------------------------------------------------------------------
Step(j) ==
  \/ LockShop(j) \/ LockDoc(j) \/ RefuseDoc(j) \/ LockOrder(j) \/ RefuseOrder(j)
  \/ RefuseIncomplete(j) \/ TakeNumber(j)
  \/ CommitSave(j) \/ CommitDelete(j) \/ CommitIssue(j) \/ CommitBill(j)

Next ==
  \/ \E j \in Jobs : Send(j) \/ Step(j) \/ Fail(j)
  \/ \E d \in Docs : CreateDraft(d) \/ ChangeStatus(d)
  \/ \E o \in Orders : EditOrder(o) \/ BeginInsert(o) \/ EndInsert(o)

Spec == Init /\ [][Next]_vars

(* The workers carry a request on, and PostgreSQL serves those that wait   *)
(* for a row in turn, so that edits of an order that follow one another do *)
(* not keep an issue from it for ever; nothing obliges a user to send a    *)
(* request or a request to fail.                                           *)
FairSpec ==
  /\ Spec
  /\ \A j \in Jobs : SF_vars(Step(j))
  /\ \A o \in Orders : WF_vars(EndInsert(o))

----------------------------------------------------------------------------
(* Safety                                                                  *)

(* The numbers given so far are 1, 2, ... last, each to one invoice: no gap*)
(* and no duplicate, whichever requests fail after taking a number and     *)
(* whatever becomes of the invoices (_next_invoice_number).                *)
NumbersGapless ==
  /\ \A n \in 1..last : \E d \in Docs : doc[d].number = n
  /\ \A d \in Docs : doc[d].number \in 0..last
  /\ \A d, e \in Docs : doc[d].number = doc[e].number /\ d # e => doc[d].number = 0
  /\ \A d \in Docs : doc[d].number > 0 <=> doc[d].status \in Numbered

(* The total of an invoice is that of its lines, drafts and issued ones    *)
(* alike: issuing never freezes a total that a save in progress changes    *)
(* (issue_invoice's row lock).                                             *)
TotalIsLines == \A d \in Docs : doc[d].total = doc[d].lines

(* A free invoice is issued only with lines and a buyer, even when the     *)
(* draft was edited after the check on screen (_verify).                   *)
IssuedIsComplete ==
  \A d \in Docs :
    doc[d].status \in Numbered /\ doc[d].order = NoOrder
      => doc[d].total > 0 /\ doc[d].buyer

(* An order has one invoice at most (issue_invoice_from_order).            *)
OneInvoicePerOrder ==
  \A d, e \in Docs : doc[d].order = doc[e].order /\ d # e => doc[d].order = NoOrder

(* Once issued, an invoice keeps its number, amounts and parties and is    *)
(* never deleted (Invoice's docstring, URS-099).                           *)
IssuedIsImmutable ==
  [][\A d \in Docs :
       doc[d].status \in Numbered =>
         /\ doc'[d] = [doc[d] EXCEPT !.status = doc'[d].status]
         /\ doc'[d].status \in Numbered]_vars

(* A save replaces the lines its device was shown, never those of another  *)
(* device (update_draft_invoice).                                          *)
NoLostSave ==
  [][\A j \in Jobs : \A x \in job[j] :
       x.op = "save" /\ pc[j] = "locked" /\ pc'[j] = "done"
         => doc[x.doc].lines = x.read]_vars

(* Every request ends without PostgreSQL having to break a deadlock: a     *)
(* save holds its draft and an edit its order while the issue that waits   *)
(* for them holds the shop, which both must share to commit                *)
(* (issue_invoice's select_for_update(no_key=True)).                       *)
EveryRequestEnds ==
  /\ \A j \in Jobs : pc[j] \in Running ~> pc[j] \in Ended
  /\ \A o \in Orders : orderLock[o] = AnEdit ~> orderLock[o] # AnEdit
=============================================================================
