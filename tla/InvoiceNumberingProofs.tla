----------------------- MODULE InvoiceNumberingProofs -----------------------
(***************************************************************************)
(* Proofs about InvoiceNumbering, for any requests, documents and orders.  *)
(*                                                                         *)
(* The invariant follows a request through its transaction: from its lock  *)
(* to its commit the draft it works on stays a draft, the lines it has read*)
(* stay the draft's, the order it bills stays without invoice, and at most *)
(* one request holds the counter's next number.                            *)
(***************************************************************************)
EXTENDS MCInvoiceNumbering, SequenceTheorems, TLAPS

(* What a request x may count on where job j stands.                       *)
JobOK(j, x) ==
  /\ pc[j] = "numbered" => x.op \in {"issue", "bill"}
  /\ pc[j] \in {"locked", "numbered"} /\ x.op # "bill"
       => docLock[x.doc] = j /\ doc[x.doc].status = "draft"
  /\ pc[j] \in {"locked", "numbered"} /\ x.op = "issue"
       => taken[j] = doc[x.doc].lines
  /\ pc[j] = "numbered" /\ x.op = "issue" => taken[j] > 0 /\ doc[x.doc].buyer
  /\ x.op = "bill" => x.order \in Orders
  /\ x.op = "bill" /\ pc[j] \notin Ended => doc[x.doc].status = "none"
  /\ pc[j] \in {"locked", "numbered"} /\ x.op = "bill"
       => orderLock[x.order] = j /\ ~Invoiced(x.order)

JobsOK ==
  \A j \in Jobs :
    /\ pc[j] = "idle" => job[j] = {}
    /\ \A x, y \in job[j] : x = y
    /\ \A x \in job[j] : JobOK(j, x)

(* No two requests in progress insert the same invoice.                    *)
IdentitiesDiffer ==
  \A j, k \in Jobs : \A x \in job[j], y \in job[k] :
    /\ j # k /\ x.op = "bill" /\ y.op = "bill"
    /\ pc[j] \notin Ended /\ pc[k] \notin Ended
    => x.doc # y.doc

CounterOK ==
  /\ \A j \in Jobs : number[j] = IF pc[j] = "numbered" THEN last + 1 ELSE 0
  /\ \A j, k \in Jobs : pc[j] = "numbered" /\ pc[k] = "numbered" => j = k

NumberingInv ==
  /\ TypeOK
  /\ JobsOK
  /\ IdentitiesDiffer
  /\ CounterOK
  /\ NumbersGapless
  /\ TotalIsLines
  /\ IssuedIsComplete
  /\ OneInvoicePerOrder

LEMMA InitInv == Init => NumberingInv
<1> SUFFICES ASSUME Init PROVE NumberingInv
  OBVIOUS
<1> USE NobodyAssumption, AnEditAssumption, NoOrderAssumption, BoundsAssumption DEF Init
<1>1. NoDoc \in Doc
  BY DEF NoDoc, Doc, Amounts, Numbered
<1>2. TypeOK
  <2>1. taken \in [Jobs -> Amounts] /\ number \in [Jobs -> Nat]
    BY DEF Amounts
  <2>2. job \in [Jobs -> SUBSET Job]
    OBVIOUS
  <2>3. pc \in [Jobs -> {"idle"} \cup Running \cup Ended]
    OBVIOUS
  <2>4. doc \in [Docs -> Doc] /\ last \in Nat /\ amount \in [Orders -> Amounts]
    BY <1>1
  <2>5. /\ shopLock \in Jobs \cup {Nobody} /\ docLock \in [Docs -> Jobs \cup {Nobody}]
        /\ orderLock \in [Orders -> Jobs \cup {Nobody, AnEdit}]
    OBVIOUS
  <2> QED
    BY <2>1, <2>2, <2>3, <2>4, <2>5 DEF TypeOK
<1>3. JobsOK /\ IdentitiesDiffer /\ CounterOK
  BY DEF JobsOK, IdentitiesDiffer, CounterOK
<1>4. NumbersGapless /\ TotalIsLines /\ IssuedIsComplete /\ OneInvoicePerOrder
  BY DEF NumbersGapless, TotalIsLines, IssuedIsComplete, OneInvoicePerOrder,
     NoDoc, Numbered
<1> QED
  BY <1>2, <1>3, <1>4 DEF NumberingInv

(* A draft appears where no request is about to insert an invoice.         *)
LEMMA CreateDraftInv ==
  ASSUME NumberingInv, NEW d \in Docs, CreateDraft(d)
  PROVE  NumberingInv'
<1> USE NobodyAssumption, AnEditAssumption, NoOrderAssumption, BoundsAssumption DEF NumberingInv
<1>1. PICK lines \in Amounts, buyer \in BOOLEAN :
        doc' = [doc EXCEPT ![d] =
                  [status |-> "draft", order |-> NoOrder, lines |-> lines,
                   buyer |-> buyer, total |-> lines, number |-> 0, version |-> 0]]
  BY DEF CreateDraft
<1>2. doc[d].status = "none" /\ ~Promised(d) /\ UNCHANGED
        <<last, amount, job, pc, taken, number, shopLock, docLock, orderLock>>
  BY DEF CreateDraft
<1> DEFINE row == [status |-> "draft", order |-> NoOrder, lines |-> lines,
                   buyer |-> buyer, total |-> lines, number |-> 0, version |-> 0]
<1>3. /\ row \in Doc /\ row.status = "draft" /\ row.order = NoOrder
      /\ row.total = row.lines /\ row.number = 0
  BY DEF Doc
<1>4. doc' = [doc EXCEPT ![d] = row]
  BY <1>1
<1> HIDE DEF row
<1>5. TypeOK'
  BY <1>2, <1>3, <1>4 DEF TypeOK
<1>6. doc'[d] = row /\ \A e \in Docs : e # d => doc'[e] = doc[e]
  BY <1>4 DEF TypeOK
<1>7. JobsOK'
  <2> SUFFICES ASSUME NEW j \in Jobs, NEW x \in job[j] PROVE JobOK(j, x)'
    BY <1>2 DEF JobsOK
  <2>1. JobOK(j, x) /\ x \in Job /\ x.doc \in Docs /\ pc[j] # "idle"
    BY DEF JobsOK, TypeOK, Job
  <2>2. CASE x.op = "bill"
    <3>1. x.order \in Orders /\ (pc[j] \notin Ended => x.doc # d)
      BY <1>2, <2>1, <2>2 DEF Promised, JobOK
    <3>2. Invoiced(x.order)' => Invoiced(x.order)
      BY <1>3, <1>6, <3>1 DEF Invoiced
    <3> QED
      BY <1>2, <1>6, <2>1, <2>2, <3>1, <3>2 DEF JobOK
  <2>3. CASE x.op # "bill"
    BY <1>2, <1>6, <2>1, <2>3 DEF JobOK
  <2> QED
    BY <2>2, <2>3
<1>8. IdentitiesDiffer' /\ CounterOK'
  BY <1>2 DEF IdentitiesDiffer, CounterOK
<1>9. doc[d].number = 0
  BY <1>2 DEF NumbersGapless, Numbered, TypeOK
<1>10. NumbersGapless'
  BY <1>2, <1>3, <1>6, <1>9 DEF NumbersGapless, Numbered, TypeOK
<1>11. TotalIsLines' /\ IssuedIsComplete' /\ OneInvoicePerOrder'
  BY <1>3, <1>6 DEF TotalIsLines, IssuedIsComplete, OneInvoicePerOrder, Numbered
<1> QED
  BY <1>5, <1>7, <1>8, <1>10, <1>11

(* Only issued invoices change status, and no request holds one.           *)
LEMMA ChangeStatusInv ==
  ASSUME NumberingInv, NEW d \in Docs, ChangeStatus(d)
  PROVE  NumberingInv'
<1> USE NobodyAssumption, AnEditAssumption, NoOrderAssumption, BoundsAssumption DEF NumberingInv
<1>1. PICK status \in {"paid", "cancelled"} :
        /\ doc[d].status \in {"issued", "paid"}
        /\ doc' = [doc EXCEPT ![d].status = status]
  BY DEF ChangeStatus
<1>2. UNCHANGED <<last, amount, job, pc, taken, number, shopLock, docLock, orderLock>>
  BY DEF ChangeStatus
<1>3. /\ doc'[d] \in Doc /\ doc'[d].status = status /\ doc'[d].order = doc[d].order
      /\ doc'[d].total = doc[d].total /\ doc'[d].lines = doc[d].lines
      /\ doc'[d].number = doc[d].number /\ doc'[d].buyer = doc[d].buyer
  BY <1>1 DEF TypeOK, Doc, Numbered
<1>4. doc' = [doc EXCEPT ![d] = doc'[d]] /\ \A e \in Docs : e # d => doc'[e] = doc[e]
  BY <1>1 DEF TypeOK
<1>5. TypeOK'
  BY <1>2, <1>3, <1>4 DEF TypeOK
<1>6. JobsOK'
  <2> SUFFICES ASSUME NEW j \in Jobs, NEW x \in job[j] PROVE JobOK(j, x)'
    BY <1>2 DEF JobsOK
  <2>1. JobOK(j, x) /\ x.doc \in Docs
    BY DEF JobsOK, TypeOK, Job
  <2>2. Invoiced(x.order)' <=> Invoiced(x.order)
    BY <1>3, <1>4 DEF Invoiced
  <2>3. doc[x.doc].status \in {"draft", "none"} => doc'[x.doc] = doc[x.doc]
    BY <1>1, <1>4, <2>1
  <2> QED
    BY <1>2, <1>3, <1>4, <2>1, <2>2, <2>3 DEF JobOK
<1>7. IdentitiesDiffer' /\ CounterOK'
  BY <1>2 DEF IdentitiesDiffer, CounterOK
<1>8. NumbersGapless'
  BY <1>1, <1>2, <1>3, <1>4 DEF NumbersGapless, Numbered
<1>9. TotalIsLines' /\ IssuedIsComplete' /\ OneInvoicePerOrder'
  BY <1>1, <1>3, <1>4 DEF TotalIsLines, IssuedIsComplete, OneInvoicePerOrder, Numbered
<1> QED
  BY <1>5, <1>6, <1>7, <1>8, <1>9

LEMMA SendInv ==
  ASSUME NumberingInv, NEW j \in Jobs, Send(j)
  PROVE  NumberingInv'
<1> USE NobodyAssumption, AnEditAssumption, NoOrderAssumption, BoundsAssumption DEF NumberingInv
<1>1. PICK x \in Job :
        /\ job' = [job EXCEPT ![j] = {x}]
        /\ x.op = "bill" => /\ x.order # NoOrder /\ doc[x.doc].status = "none"
                            /\ ~Promised(x.doc)
  BY DEF Send
<1>2. /\ pc[j] = "idle" /\ pc' = [pc EXCEPT ![j] = "sent"]
      /\ UNCHANGED <<doc, last, amount, taken, number, shopLock, docLock, orderLock>>
  BY DEF Send
<1>3. TypeOK'
  BY <1>1, <1>2 DEF TypeOK, Running
<1>4. JobsOK'
  <2>1. ASSUME NEW k \in Jobs, NEW y \in job'[k] PROVE JobOK(k, y)'
    <3>1. CASE k = j
      <4>1. y = x /\ pc'[k] = "sent"
        BY <1>1, <1>2, <2>1, <3>1 DEF TypeOK
      <4>2. y.op = "bill" => y.order \in Orders
        BY <1>1, <4>1 DEF Job
      <4> QED
        BY <1>1, <1>2, <4>1, <4>2 DEF JobOK, Ended
    <3>2. CASE k # j
      <4>1. y \in job[k] /\ pc'[k] = pc[k]
        BY <1>1, <1>2, <2>1, <3>2 DEF TypeOK
      <4> QED
        BY <1>2, <4>1 DEF JobsOK, JobOK, Invoiced
    <3> QED
      BY <3>1, <3>2
  <2> QED
    BY <1>1, <1>2, <2>1 DEF JobsOK, TypeOK
<1>5. IdentitiesDiffer'
  BY <1>1, <1>2 DEF IdentitiesDiffer, Promised, TypeOK
<1>6. CounterOK'
  BY <1>2 DEF CounterOK, TypeOK
<1>7. NumbersGapless' /\ TotalIsLines' /\ IssuedIsComplete' /\ OneInvoicePerOrder'
  BY <1>2 DEF NumbersGapless, TotalIsLines, IssuedIsComplete, OneInvoicePerOrder
<1> QED
  BY <1>3, <1>4, <1>5, <1>6, <1>7

(* What the other jobs can still count on when j ends and releases.        *)
LEMMA ReleaseKeeps ==
  ASSUME NumberingInv, NEW j \in Jobs, Release(j)
  PROVE  /\ shopLock' \in Jobs \cup {Nobody}
         /\ docLock' \in [Docs -> Jobs \cup {Nobody}]
         /\ orderLock' \in [Orders -> Jobs \cup {Nobody, AnEdit}]
         /\ \A k \in Jobs, d \in Docs : k # j /\ docLock[d] = k => docLock'[d] = k
         /\ \A k \in Jobs, o \in Orders :
              k # j /\ orderLock[o] = k => orderLock'[o] = k
         /\ number' = [number EXCEPT ![j] = 0]
BY DEF NumberingInv, Release, TypeOK

LEMMA RollBackInv ==
  ASSUME NumberingInv, NEW j \in Jobs, pc[j] # "idle", RollBack(j)
  PROVE  NumberingInv'
<1> USE NobodyAssumption, AnEditAssumption, NoOrderAssumption, BoundsAssumption DEF NumberingInv
<1>1. Release(j) /\ pc' = [pc EXCEPT ![j] = "refused"]
      /\ UNCHANGED <<doc, last, amount, job, taken>>
  BY DEF RollBack
<1>2. TypeOK'
  BY <1>1, ReleaseKeeps DEF TypeOK, Ended
<1>3. JobsOK'
  <2>1. ASSUME NEW k \in Jobs, NEW x \in job[k] PROVE JobOK(k, x)'
    <3>1. JobOK(k, x) /\ x.doc \in Docs
      BY DEF JobsOK, TypeOK, Job
    <3>2. CASE k = j
      BY <1>1, <3>1, <3>2 DEF JobOK, Ended, TypeOK
    <3>3. CASE k # j
      <4>1. pc'[k] = pc[k] /\ (Invoiced(x.order)' <=> Invoiced(x.order))
        BY <1>1, <3>3 DEF TypeOK, Invoiced
      <4> QED
        BY <1>1, <3>1, <3>3, <4>1, ReleaseKeeps DEF JobOK
    <3> QED
      BY <3>2, <3>3
  <2> QED
    BY <1>1, <2>1 DEF JobsOK, TypeOK
<1>4. IdentitiesDiffer'
  BY <1>1 DEF IdentitiesDiffer, Ended, TypeOK
<1>5. CounterOK'
  BY <1>1, ReleaseKeeps DEF CounterOK, TypeOK
<1>6. NumbersGapless' /\ TotalIsLines' /\ IssuedIsComplete' /\ OneInvoicePerOrder'
  BY <1>1 DEF NumbersGapless, TotalIsLines, IssuedIsComplete, OneInvoicePerOrder
<1> QED
  BY <1>2, <1>3, <1>4, <1>5, <1>6

(* Taking a lock on a row that nobody holds.                               *)
LEMMA LockInv ==
  ASSUME NumberingInv, NEW j \in Jobs, LockShop(j) \/ LockDoc(j) \/ LockOrder(j)
  PROVE  NumberingInv'
<1> USE NobodyAssumption, AnEditAssumption, NoOrderAssumption, BoundsAssumption DEF NumberingInv
<1>1. UNCHANGED <<doc, last, amount, job, number>>
  BY DEF LockShop, LockDoc, LockOrder
<1>2. /\ pc[j] \in {"sent", "shop"}
      /\ pc' = [pc EXCEPT ![j] = pc'[j]] /\ pc'[j] \in {"shop", "locked"}
  BY DEF LockShop, LockDoc, LockOrder, AtDoc, TypeOK
<1>3. /\ \A k \in Jobs, d \in Docs : docLock[d] = k => docLock'[d] = k
      /\ \A k \in Jobs, o \in Orders : orderLock[o] = k => orderLock'[o] = k
      /\ \A k \in Jobs : k # j => taken'[k] = taken[k]
  <2>1. CASE LockShop(j)
    BY <2>1 DEF LockShop
  <2>2. CASE LockDoc(j)
    BY <2>2 DEF LockDoc, RowFree, TypeOK
  <2>3. CASE LockOrder(j)
    BY <2>3 DEF LockOrder, TypeOK
  <2> QED
    BY <2>1, <2>2, <2>3
<1>4. TypeOK'
  <2>1. CASE LockShop(j)
    BY <2>1 DEF LockShop, TypeOK, Running
  <2>2. CASE LockDoc(j)
    <3>1. PICK x \in job[j] :
            /\ docLock' = [docLock EXCEPT ![x.doc] = j]
            /\ taken' = [taken EXCEPT ![j] = doc[x.doc].lines]
      BY <2>2 DEF LockDoc
    <3>2. doc[x.doc].lines \in Amounts
      BY DEF TypeOK, Job, Doc
    <3> QED
      BY <2>2, <3>1, <3>2 DEF LockDoc, TypeOK, Running
  <2>3. CASE LockOrder(j)
    <3>1. PICK x \in job[j] :
            /\ x.op = "bill"
            /\ orderLock' = [orderLock EXCEPT ![x.order] = j]
            /\ taken' = [taken EXCEPT ![j] = amount[x.order]]
      BY <2>3 DEF LockOrder
    <3>2. amount[x.order] \in Amounts
      BY <3>1 DEF TypeOK, JobsOK, JobOK
    <3> QED
      BY <2>3, <3>1, <3>2 DEF LockOrder, TypeOK, Running
  <2> QED
    BY <2>1, <2>2, <2>3
<1>5. JobsOK'
  <2>1. ASSUME NEW k \in Jobs, NEW x \in job[k] PROVE JobOK(k, x)'
    <3>1. JobOK(k, x) /\ x \in Job /\ x.doc \in Docs
      BY DEF JobsOK, TypeOK, Job
    <3>2. Invoiced(x.order)' <=> Invoiced(x.order)
      BY <1>1 DEF Invoiced
    <3>3. CASE k # j
      <4>1. pc'[k] = pc[k]
        BY <1>2, <3>3 DEF TypeOK
      <4> QED
        BY <1>1, <1>3, <3>1, <3>2, <3>3, <4>1 DEF JobOK
    <3>4. CASE k = j /\ LockShop(j)
      <4>1. pc'[j] = "shop"
        BY <3>4 DEF LockShop, TypeOK
      <4> QED
        BY <1>1, <1>2, <3>1, <3>2, <3>4, <4>1 DEF JobOK, Ended
    <3>5. CASE k = j /\ LockDoc(j)
      <4>1. PICK y \in job[j] :
              /\ AtDoc(j, y) /\ Acceptable(y)
              /\ docLock' = [docLock EXCEPT ![y.doc] = j]
              /\ taken' = [taken EXCEPT ![j] = doc[y.doc].lines]
        BY <3>5 DEF LockDoc
      <4>2. y = x
        BY <3>5 DEF JobsOK
      <4>3. x.op # "bill" /\ doc[x.doc].status = "draft" /\ pc'[j] = "locked"
        BY <3>5, <4>1, <4>2 DEF AtDoc, Acceptable, LockDoc, TypeOK
      <4>4. docLock'[x.doc] = j /\ taken'[j] = doc[x.doc].lines
        BY <3>1, <4>1, <4>2 DEF TypeOK
      <4> QED
        BY <1>1, <3>1, <3>5, <4>3, <4>4 DEF JobOK, Ended
    <3>6. CASE k = j /\ LockOrder(j)
      <4>1. PICK y \in job[j] :
              /\ y.op = "bill" /\ ~Invoiced(y.order)
              /\ orderLock' = [orderLock EXCEPT ![y.order] = j]
        BY <3>6 DEF LockOrder
      <4>2. y = x
        BY <3>6 DEF JobsOK
      <4>3. x.order \in Orders /\ orderLock'[x.order] = j /\ pc'[j] = "locked"
        BY <3>1, <3>6, <4>1, <4>2 DEF JobOK, LockOrder, TypeOK
      <4> QED
        BY <1>1, <1>2, <3>1, <3>2, <3>6, <4>1, <4>2, <4>3 DEF JobOK, Ended
    <3> QED
      BY <3>3, <3>4, <3>5, <3>6
  <2> QED
    BY <1>1, <1>2, <2>1 DEF JobsOK, TypeOK
<1>6. IdentitiesDiffer' /\ CounterOK'
  <2>1. \A k \in Jobs : /\ pc'[k] \notin Ended => pc[k] \notin Ended
                        /\ pc'[k] = "numbered" <=> pc[k] = "numbered"
    BY <1>2 DEF TypeOK, Ended
  <2> QED
    BY <1>1, <2>1 DEF IdentitiesDiffer, CounterOK
<1>7. NumbersGapless' /\ TotalIsLines' /\ IssuedIsComplete' /\ OneInvoicePerOrder'
  BY <1>1 DEF NumbersGapless, TotalIsLines, IssuedIsComplete, OneInvoicePerOrder
<1> QED
  BY <1>4, <1>5, <1>6, <1>7

(* The counter's lock lets one request at a time hold the next number.     *)
LEMMA TakeNumberInv ==
  ASSUME NumberingInv, NEW j \in Jobs, TakeNumber(j)
  PROVE  NumberingInv'
<1> USE NobodyAssumption, AnEditAssumption, NoOrderAssumption, BoundsAssumption DEF NumberingInv
<1>1. /\ pc[j] = "locked" /\ pc' = [pc EXCEPT ![j] = "numbered"]
      /\ number' = [number EXCEPT ![j] = last + 1] /\ CounterFree(j)
      /\ UNCHANGED <<doc, last, amount, job, taken, shopLock, docLock, orderLock>>
  BY DEF TakeNumber
<1>2. TypeOK'
  BY <1>1 DEF TypeOK, Running
<1>3. JobsOK'
  <2>1. ASSUME NEW k \in Jobs, NEW x \in job[k] PROVE JobOK(k, x)'
    <3>1. JobOK(k, x) /\ x \in Job /\ (Invoiced(x.order)' <=> Invoiced(x.order))
      BY <1>1 DEF JobsOK, TypeOK, Invoiced
    <3>2. CASE k # j
      <4>1. pc'[k] = pc[k]
        BY <1>1, <3>2 DEF TypeOK
      <4> QED
        BY <1>1, <3>1, <4>1 DEF JobOK
    <3>3. CASE k = j
      <4>1. x.op \in {"issue", "bill"} /\ ~Blocked(x, taken[j])
        BY <3>3 DEF TakeNumber, JobsOK
      <4>2. x.op = "issue" => taken[j] > 0 /\ doc[x.doc].buyer
        BY <4>1 DEF Blocked, TypeOK, Amounts
      <4>3. pc'[k] = "numbered" /\ pc[k] = "locked"
        BY <1>1, <3>3 DEF TypeOK
      <4> QED
        BY <1>1, <3>1, <3>3, <4>1, <4>2, <4>3 DEF JobOK, Ended
    <3> QED
      BY <3>2, <3>3
  <2> QED
    BY <1>1, <2>1 DEF JobsOK, TypeOK
<1>4. IdentitiesDiffer'
  BY <1>1 DEF IdentitiesDiffer, Ended, TypeOK
<1>5. CounterOK'
  <2>1. \A k \in Jobs : k # j => pc[k] # "numbered"
    BY <1>1 DEF CounterFree, CounterOK, TypeOK
  <2> QED
    BY <1>1, <2>1 DEF CounterOK, TypeOK
<1>6. NumbersGapless' /\ TotalIsLines' /\ IssuedIsComplete' /\ OneInvoicePerOrder'
  BY <1>1 DEF NumbersGapless, TotalIsLines, IssuedIsComplete, OneInvoicePerOrder
<1> QED
  BY <1>2, <1>3, <1>4, <1>5, <1>6

(* Job j commits, writing no document but e, which is not one of another   *)
(* request, and billing no order that another one has locked.              *)
CommitsAlone(j, e, o) ==
  /\ pc[j] # "idle" /\ Release(j) /\ pc' = [pc EXCEPT ![j] = "done"]
  /\ UNCHANGED <<job, taken>>
  /\ doc' = [doc EXCEPT ![e] = doc'[e]] /\ doc'[e].order \in {doc[e].order, o}
  /\ \A k \in Jobs \ {j} : \A x \in job[k] :
       pc[k] \notin Ended =>
         /\ x.op = "bill" => x.doc # e
         /\ pc[k] \in {"locked", "numbered"} =>
              IF x.op = "bill" THEN x.order # o ELSE x.doc # e

(* Such a commit leaves the other requests what they count on.             *)
LEMMA OthersKeep ==
  ASSUME NumberingInv, NEW j \in Jobs, NEW e \in Docs,
         NEW o \in Orders \cup {NoOrder}, CommitsAlone(j, e, o)
  PROVE  JobsOK' /\ IdentitiesDiffer'
<1> USE NobodyAssumption, AnEditAssumption, NoOrderAssumption, BoundsAssumption DEF NumberingInv, CommitsAlone
<1>1. \A d \in Docs : d # e => doc'[d] = doc[d]
  BY DEF TypeOK
<1>2. ASSUME NEW k \in Jobs, NEW x \in job[k] PROVE JobOK(k, x)'
  <2>1. JobOK(k, x) /\ x.doc \in Docs /\ x \in Job
    BY DEF JobsOK, TypeOK, Job
  <2>2. CASE k = j
    BY <2>1, <2>2 DEF JobOK, Ended, TypeOK
  <2>3. CASE k # j
    <3>1. pc'[k] = pc[k]
      BY <2>3 DEF TypeOK
    <3>2. CASE x.op = "bill"
      <4>1. pc[k] \in {"locked", "numbered"} => x.order # o /\ pc[k] \notin Ended
        BY <2>3, <3>2 DEF Ended
      <4>2. pc[k] \in {"locked", "numbered"} => ~Invoiced(x.order)'
        BY <1>1, <2>1, <3>2, <4>1 DEF Invoiced, JobOK
      <4>3. pc[k] \notin Ended => doc'[x.doc] = doc[x.doc]
        BY <1>1, <2>1, <2>3, <3>2
      <4>4. pc[k] \in {"locked", "numbered"} => orderLock'[x.order] = k
        BY <2>1, <2>3, <3>2, ReleaseKeeps DEF JobOK
      <4> QED
        BY <2>1, <3>1, <3>2, <4>2, <4>3, <4>4 DEF JobOK
    <3>3. CASE x.op # "bill"
      <4>1. pc[k] \in {"locked", "numbered"} => doc'[x.doc] = doc[x.doc]
        BY <1>1, <2>1, <2>3, <3>3 DEF Ended
      <4>2. pc[k] \in {"locked", "numbered"} => docLock'[x.doc] = k
        BY <2>1, <2>3, <3>3, ReleaseKeeps DEF JobOK
      <4> QED
        BY <2>1, <3>1, <3>3, <4>1, <4>2 DEF JobOK
    <3> QED
      BY <3>2, <3>3
  <2> QED
    BY <2>2, <2>3
<1>3. JobsOK'
  BY <1>2 DEF JobsOK, TypeOK
<1>4. IdentitiesDiffer'
  BY DEF IdentitiesDiffer, Ended, TypeOK
<1> QED
  BY <1>3, <1>4

(* Saving or deleting a draft under its row lock.                          *)
LEMMA CommitDraftInv ==
  ASSUME NumberingInv, NEW j \in Jobs, CommitSave(j) \/ CommitDelete(j)
  PROVE  NumberingInv'
<1> USE NobodyAssumption, AnEditAssumption, NoOrderAssumption, BoundsAssumption DEF NumberingInv
<1>1. /\ pc[j] = "locked" /\ pc' = [pc EXCEPT ![j] = "done"] /\ Release(j)
      /\ UNCHANGED <<last, amount, job, taken>>
  BY DEF CommitSave, CommitDelete
<1>2. PICK x \in job[j], row \in Doc :
        /\ x.op \in {"save", "delete"} /\ doc' = [doc EXCEPT ![x.doc] = row]
        /\ row.status \in {"draft", "deleted"} /\ row.total = row.lines
        /\ row.order = doc[x.doc].order /\ row.number = doc[x.doc].number
  <2>1. CASE CommitSave(j)
    <3>1. PICK x \in job[j] :
            /\ x.op = "save" /\ doc[x.doc].version < MaxVersion
            /\ doc' = [doc EXCEPT ![x.doc] =
                         [status |-> "draft", order |-> doc[x.doc].order,
                          lines |-> x.lines, buyer |-> x.buyer, total |-> x.lines,
                          number |-> 0, version |-> doc[x.doc].version + 1]]
      BY <2>1 DEF CommitSave
    <3>2. x \in Job /\ x.doc \in Docs /\ doc[x.doc] \in Doc
          /\ doc[x.doc].status = "draft"
      BY <1>1, <3>1 DEF TypeOK, Job, JobsOK, JobOK
    <3> DEFINE row == [status |-> "draft", order |-> doc[x.doc].order,
                       lines |-> x.lines, buyer |-> x.buyer, total |-> x.lines,
                       number |-> 0, version |-> doc[x.doc].version + 1]
    <3>5. /\ doc[x.doc].order \in Orders \cup {NoOrder} /\ doc[x.doc].number = 0
          /\ doc[x.doc].version + 1 \in 0..MaxVersion
      BY <3>1, <3>2 DEF Doc, NumbersGapless, Numbered
    <3>6. x.lines \in Amounts /\ x.buyer \in BOOLEAN
      BY <3>2 DEF Job
    <3>3. /\ row \in Doc /\ row.status = "draft" /\ row.total = row.lines
          /\ row.order = doc[x.doc].order /\ row.number = doc[x.doc].number
      BY <3>5, <3>6 DEF Doc
    <3>4. doc' = [doc EXCEPT ![x.doc] = row]
      BY <3>1
    <3> HIDE DEF row
    <3> QED
      BY <3>1, <3>3, <3>4
  <2>2. CASE CommitDelete(j)
    <3>1. PICK x \in job[j] :
            x.op = "delete" /\ doc' = [doc EXCEPT ![x.doc].status = "deleted"]
      BY <2>2 DEF CommitDelete
    <3>2. x.doc \in Docs /\ doc[x.doc] \in Doc /\ doc[x.doc].total = doc[x.doc].lines
      BY DEF TypeOK, Job, TotalIsLines
    <3> DEFINE row == [doc[x.doc] EXCEPT !.status = "deleted"]
    <3>3. /\ row \in Doc /\ row.status = "deleted" /\ row.total = row.lines
          /\ row.order = doc[x.doc].order /\ row.number = doc[x.doc].number
      BY <3>2 DEF Doc
    <3>4. doc' = [doc EXCEPT ![x.doc] = row]
      BY <3>1
    <3> HIDE DEF row
    <3> QED
      BY <3>1, <3>3, <3>4
  <2> QED
    BY <2>1, <2>2
<1>3. /\ x.doc \in Docs /\ docLock[x.doc] = j /\ doc[x.doc].status = "draft"
  BY <1>1, <1>2 DEF TypeOK, Job, JobsOK, JobOK
<1>4. doc'[x.doc] = row /\ \A d \in Docs : d # x.doc => doc'[d] = doc[d]
  BY <1>2, <1>3 DEF TypeOK
<1>5. TypeOK'
  BY <1>1, <1>2, <1>3, ReleaseKeeps DEF TypeOK, Ended
<1>6. JobsOK' /\ IdentitiesDiffer'
  <2>1. \A k \in Jobs \ {j} : \A y \in job[k] :
          pc[k] \notin Ended =>
            /\ y.op = "bill" => y.doc # x.doc
            /\ pc[k] \in {"locked", "numbered"} =>
                 IF y.op = "bill" THEN y.order # NoOrder ELSE y.doc # x.doc
    BY <1>3 DEF JobsOK, JobOK
  <2>2. CommitsAlone(j, x.doc, NoOrder)
    BY <1>1, <1>2, <1>4, <2>1 DEF CommitsAlone
  <2> QED
    BY <1>3, <2>2, OthersKeep
<1>7. CounterOK'
  BY <1>1, ReleaseKeeps DEF CounterOK, TypeOK
<1>8. doc[x.doc].number = 0
  BY <1>3 DEF NumbersGapless, Numbered, TypeOK
<1>9. NumbersGapless'
  BY <1>1, <1>2, <1>3, <1>4, <1>8 DEF NumbersGapless, Numbered
<1>10. TotalIsLines' /\ IssuedIsComplete' /\ OneInvoicePerOrder'
  BY <1>2, <1>3, <1>4 DEF TotalIsLines, IssuedIsComplete, OneInvoicePerOrder, Numbered
<1> QED
  BY <1>5, <1>6, <1>7, <1>9, <1>10

(* One more invoice, with the number after the last one, where there was a *)
(* document without number: the register stays gapless.                    *)
LEMMA NextNumber ==
  ASSUME NumberingInv, NEW d \in Docs, NEW row \in Doc, doc[d].number = 0,
         row.status \in Numbered, row.number = last + 1,
         doc' = [doc EXCEPT ![d] = row], last' = last + 1
  PROVE  NumbersGapless'
<1> USE DEF NumberingInv
<1>1. /\ last \in Nat /\ doc'[d] = row
      /\ \A e \in Docs : e # d => doc'[e] = doc[e]
  BY DEF TypeOK
<1>2. \A n \in 1..(last + 1) : \E e \in Docs : doc'[e].number = n
  <2> TAKE n \in 1..(last + 1)
  <2>1. CASE n = last + 1
    BY <1>1, <2>1
  <2>2. CASE n # last + 1
    <3>1. PICK e \in Docs : doc[e].number = n
      BY <1>1, <2>2 DEF NumbersGapless
    <3> QED
      BY <1>1, <3>1
  <2> QED
    BY <2>1, <2>2
<1>3. \A e \in Docs : doc[e].number \in 0..last
  BY DEF NumbersGapless
<1>4. \A e \in Docs : doc'[e].number \in 0..(last + 1)
  BY <1>1, <1>3
<1>5. \A e, f \in Docs :
        doc'[e].number = doc'[f].number /\ e # f => doc'[e].number = 0
  <2>1. \A e \in Docs : e # d => doc'[e].number # doc'[d].number
    BY <1>1, <1>3
  <2> QED
    BY <1>1, <2>1 DEF NumbersGapless
<1>6. \A e \in Docs : doc'[e].number > 0 <=> doc'[e].status \in Numbered
  BY <1>1 DEF NumbersGapless
<1> QED
  BY <1>2, <1>4, <1>5, <1>6 DEF NumbersGapless

(* The counter is free again once the request that held it has committed.  *)
LEMMA CounterFreed ==
  ASSUME NumberingInv, NEW j \in Jobs, pc[j] = "numbered", Release(j),
         pc' = [pc EXCEPT ![j] = "done"], last' = number[j]
  PROVE  CounterOK' /\ last' = last + 1
BY ReleaseKeeps DEF NumberingInv, CounterOK, TypeOK

(* Issuing a draft: its row lock has kept it a draft, complete, with the   *)
(* lines its total is frozen from.                                         *)
LEMMA CommitIssueInv ==
  ASSUME NumberingInv, NEW j \in Jobs, CommitIssue(j)
  PROVE  NumberingInv'
<1> USE NobodyAssumption, AnEditAssumption, NoOrderAssumption, BoundsAssumption DEF NumberingInv
<1>1. /\ pc[j] = "numbered" /\ pc' = [pc EXCEPT ![j] = "done"] /\ Release(j)
      /\ last' = number[j] /\ UNCHANGED <<amount, job, taken>>
  BY DEF CommitIssue
<1>2. PICK x \in job[j] :
        /\ x.op = "issue" /\ doc[x.doc].version < MaxVersion
        /\ doc' = [doc EXCEPT ![x.doc] =
                     [status |-> "issued", order |-> doc[x.doc].order,
                      lines |-> doc[x.doc].lines, buyer |-> doc[x.doc].buyer,
                      total |-> taken[j], number |-> number[j],
                      version |-> doc[x.doc].version + 1]]
  BY DEF CommitIssue
<1>3. /\ x.doc \in Docs /\ docLock[x.doc] = j /\ doc[x.doc].status = "draft"
      /\ taken[j] = doc[x.doc].lines /\ taken[j] > 0 /\ doc[x.doc].buyer
      /\ doc[x.doc] \in Doc
  BY <1>1, <1>2 DEF TypeOK, Job, JobsOK, JobOK
<1>4. number[j] = last + 1 /\ last \in Nat /\ taken[j] \in Amounts
  BY <1>1 DEF CounterOK, TypeOK
<1> DEFINE row == [status |-> "issued", order |-> doc[x.doc].order,
                   lines |-> doc[x.doc].lines, buyer |-> doc[x.doc].buyer,
                   total |-> taken[j], number |-> number[j],
                   version |-> doc[x.doc].version + 1]
<1>5. /\ doc[x.doc].order \in Orders \cup {NoOrder} /\ doc[x.doc].buyer \in BOOLEAN
      /\ doc[x.doc].lines \in Amounts /\ doc[x.doc].version + 1 \in 0..MaxVersion
  BY <1>2, <1>3 DEF Doc
<1>6. /\ row \in Doc /\ row.status = "issued" /\ row.order = doc[x.doc].order
      /\ row.total = row.lines /\ row.total > 0 /\ row.buyer
      /\ row.number = last + 1
  BY <1>3, <1>4, <1>5 DEF Doc, Numbered
<1>7. doc' = [doc EXCEPT ![x.doc] = row]
  BY <1>2
<1> HIDE DEF row
<1>8. doc'[x.doc] = row /\ \A d \in Docs : d # x.doc => doc'[d] = doc[d]
  BY <1>3, <1>7 DEF TypeOK
<1>9. CounterOK' /\ last' = last + 1
  BY <1>1, CounterFreed
<1>10. TypeOK'
  <2>1. last' \in Nat
    BY <1>4, <1>9
  <2>4. doc' \in [Docs -> Doc]
    BY <1>6, <1>7 DEF TypeOK
  <2>2. pc' \in [Jobs -> {"idle"} \cup Running \cup Ended]
    BY <1>1 DEF TypeOK, Ended
  <2>3. /\ shopLock' \in Jobs \cup {Nobody}
        /\ docLock' \in [Docs -> Jobs \cup {Nobody}]
        /\ orderLock' \in [Orders -> Jobs \cup {Nobody, AnEdit}]
        /\ number' \in [Jobs -> Nat]
    BY <1>1, ReleaseKeeps DEF TypeOK
  <2> QED
    BY <1>1, <2>1, <2>2, <2>3, <2>4 DEF TypeOK
<1>11. JobsOK' /\ IdentitiesDiffer'
  <2>1. \A k \in Jobs \ {j} : \A y \in job[k] :
          pc[k] \notin Ended =>
            /\ y.op = "bill" => y.doc # x.doc
            /\ pc[k] \in {"locked", "numbered"} =>
                 IF y.op = "bill" THEN y.order # NoOrder ELSE y.doc # x.doc
    BY <1>3 DEF JobsOK, JobOK
  <2>2. CommitsAlone(j, x.doc, NoOrder)
    BY <1>1, <1>6, <1>7, <1>8, <2>1 DEF CommitsAlone
  <2> QED
    BY <1>3, <2>2, OthersKeep
<1>12. doc[x.doc].number = 0
  BY <1>3 DEF NumbersGapless, Numbered, TypeOK
<1>13. NumbersGapless'
  BY <1>3, <1>6, <1>7, <1>9, <1>12, NextNumber DEF Numbered
<1>14. TotalIsLines' /\ IssuedIsComplete' /\ OneInvoicePerOrder'
  BY <1>3, <1>6, <1>8 DEF TotalIsLines, IssuedIsComplete, OneInvoicePerOrder
<1> QED
  BY <1>9, <1>10, <1>11, <1>13, <1>14

(* Billing an order: its row lock has kept every other invoice away.       *)
LEMMA CommitBillInv ==
  ASSUME NumberingInv, NEW j \in Jobs, CommitBill(j)
  PROVE  NumberingInv'
<1> USE NobodyAssumption, AnEditAssumption, NoOrderAssumption, BoundsAssumption DEF NumberingInv
<1>1. /\ pc[j] = "numbered" /\ pc' = [pc EXCEPT ![j] = "done"] /\ Release(j)
      /\ last' = number[j] /\ UNCHANGED <<amount, job, taken>>
  BY DEF CommitBill
<1>2. PICK x \in job[j], status \in Numbered :
        /\ x.op = "bill"
        /\ doc' = [doc EXCEPT ![x.doc] =
                     [status |-> status, order |-> x.order, lines |-> taken[j],
                      buyer |-> FALSE, total |-> taken[j], number |-> number[j],
                      version |-> 0]]
  BY DEF CommitBill
<1>3. /\ x.doc \in Docs /\ doc[x.doc].status = "none" /\ x.order \in Orders
      /\ orderLock[x.order] = j /\ ~Invoiced(x.order)
  BY <1>1, <1>2 DEF TypeOK, Job, JobsOK, JobOK, Ended
<1>4. number[j] = last + 1 /\ last \in Nat /\ taken[j] \in Amounts
  BY <1>1 DEF CounterOK, TypeOK
<1> DEFINE row == [status |-> status, order |-> x.order, lines |-> taken[j],
                   buyer |-> FALSE, total |-> taken[j], number |-> number[j],
                   version |-> 0]
<1>6. /\ row \in Doc /\ row.status \in Numbered /\ row.order = x.order
      /\ row.total = row.lines /\ row.number = last + 1
  BY <1>2, <1>3, <1>4 DEF Doc
<1>7. doc' = [doc EXCEPT ![x.doc] = row]
  BY <1>2
<1> HIDE DEF row
<1>8. doc'[x.doc] = row /\ \A d \in Docs : d # x.doc => doc'[d] = doc[d]
  BY <1>3, <1>7 DEF TypeOK
<1>9. CounterOK' /\ last' = last + 1
  BY <1>1, CounterFreed
<1>10. TypeOK'
  <2>1. last' \in Nat
    BY <1>4, <1>9
  <2>4. doc' \in [Docs -> Doc]
    BY <1>6, <1>7 DEF TypeOK
  <2>2. pc' \in [Jobs -> {"idle"} \cup Running \cup Ended]
    BY <1>1 DEF TypeOK, Ended
  <2>3. /\ shopLock' \in Jobs \cup {Nobody}
        /\ docLock' \in [Docs -> Jobs \cup {Nobody}]
        /\ orderLock' \in [Orders -> Jobs \cup {Nobody, AnEdit}]
        /\ number' \in [Jobs -> Nat]
    BY <1>1, ReleaseKeeps DEF TypeOK
  <2> QED
    BY <1>1, <2>1, <2>2, <2>3, <2>4 DEF TypeOK
<1>11. JobsOK' /\ IdentitiesDiffer'
  <2>1. ASSUME NEW k \in Jobs \ {j}, NEW y \in job[k], pc[k] \notin Ended
        PROVE  /\ y.op = "bill" => y.doc # x.doc
               /\ pc[k] \in {"locked", "numbered"} =>
                    IF y.op = "bill" THEN y.order # x.order ELSE y.doc # x.doc
    <3>1. JobOK(k, y)
      BY DEF JobsOK
    <3>2. y.op = "bill" => y.doc # x.doc
      BY <1>1, <1>2, <2>1 DEF IdentitiesDiffer, Ended
    <3> QED
      BY <1>3, <3>1, <3>2 DEF JobOK
  <2>2. CommitsAlone(j, x.doc, x.order)
    BY <1>1, <1>6, <1>7, <1>8, <2>1 DEF CommitsAlone
  <2> QED
    BY <1>3, <2>2, OthersKeep
<1>12. doc[x.doc].number = 0
  BY <1>3 DEF NumbersGapless, Numbered, TypeOK
<1>13. NumbersGapless'
  BY <1>3, <1>6, <1>7, <1>9, <1>12, NextNumber
<1>14. TotalIsLines' /\ IssuedIsComplete'
  BY <1>3, <1>6, <1>8 DEF TotalIsLines, IssuedIsComplete
<1>15. OneInvoicePerOrder'
  BY <1>3, <1>6, <1>8 DEF OneInvoicePerOrder, Invoiced
<1> QED
  BY <1>9, <1>10, <1>11, <1>13, <1>14, <1>15

(* An order is edited while no request bills it: what a request that has   *)
(* locked an order counts on is out of an edit's reach.                    *)
LEMMA EditOrderInv ==
  ASSUME NumberingInv, NEW o \in Orders, EditOrder(o) \/ BeginInsert(o) \/ EndInsert(o)
  PROVE  NumberingInv'
<1> USE NobodyAssumption, AnEditAssumption DEF NumberingInv
<1>1. UNCHANGED <<doc, last, job, pc, taken, number, shopLock, docLock>>
  BY DEF EditOrder, BeginInsert, EndInsert
<1>2. \A j \in Jobs, q \in Orders : orderLock[q] = j => orderLock'[q] = j
  BY DEF EditOrder, BeginInsert, EndInsert, TypeOK
<1>3. TypeOK'
  BY <1>1 DEF TypeOK, EditOrder, BeginInsert, EndInsert
<1>4. JobsOK'
  <2> SUFFICES ASSUME NEW j \in Jobs, NEW x \in job[j] PROVE JobOK(j, x)'
    BY <1>1 DEF JobsOK
  <2>1. JobOK(j, x)
    BY DEF JobsOK
  <2>2. x.op = "bill" /\ orderLock[x.order] = j => orderLock'[x.order] = j
    BY <1>2, <2>1 DEF JobOK
  <2>3. Invoiced(x.order)' <=> Invoiced(x.order)
    BY <1>1 DEF Invoiced
  <2> QED
    BY <1>1, <2>1, <2>2, <2>3 DEF JobOK
<1>5. IdentitiesDiffer' /\ CounterOK'
  BY <1>1 DEF IdentitiesDiffer, CounterOK
<1>6. NumbersGapless' /\ TotalIsLines' /\ IssuedIsComplete' /\ OneInvoicePerOrder'
  BY <1>1 DEF NumbersGapless, TotalIsLines, IssuedIsComplete, OneInvoicePerOrder
<1> QED
  BY <1>3, <1>4, <1>5, <1>6

LEMMA StutterInv == NumberingInv /\ UNCHANGED vars => NumberingInv'
BY DEF NumberingInv, vars, TypeOK, JobsOK, JobOK, Invoiced, IdentitiesDiffer,
   CounterOK, NumbersGapless, TotalIsLines, IssuedIsComplete, OneInvoicePerOrder

LEMMA NextInv == NumberingInv /\ [Next]_vars => NumberingInv'
<1> SUFFICES ASSUME NumberingInv, [Next]_vars PROVE NumberingInv'
  OBVIOUS
<1>1. CASE UNCHANGED vars
  BY <1>1, StutterInv
<1>2. ASSUME NEW j \in Jobs, Send(j) PROVE NumberingInv'
  BY <1>2, SendInv
<1>3. ASSUME NEW j \in Jobs, Step(j) PROVE NumberingInv'
  <2>1. CASE LockShop(j) \/ LockDoc(j) \/ LockOrder(j)
    BY <2>1, LockInv
  <2>2. CASE RefuseDoc(j)
    BY <2>2, RollBackInv DEF RefuseDoc, AtDoc
  <2>3. CASE RefuseOrder(j) \/ RefuseIncomplete(j)
    BY <2>3, RollBackInv DEF RefuseOrder, RefuseIncomplete
  <2>4. CASE TakeNumber(j)
    BY <2>4, TakeNumberInv
  <2>5. CASE CommitSave(j) \/ CommitDelete(j)
    BY <2>5, CommitDraftInv
  <2>6. CASE CommitIssue(j)
    BY <2>6, CommitIssueInv
  <2>7. CASE CommitBill(j)
    BY <2>7, CommitBillInv
  <2> QED
    BY <1>3, <2>1, <2>2, <2>3, <2>4, <2>5, <2>6, <2>7 DEF Step
<1>4. ASSUME NEW j \in Jobs, Fail(j) PROVE NumberingInv'
  BY <1>4, RollBackInv DEF Fail, Running
<1>5. ASSUME NEW d \in Docs, CreateDraft(d) \/ ChangeStatus(d) PROVE NumberingInv'
  BY <1>5, CreateDraftInv, ChangeStatusInv
<1>6. ASSUME NEW o \in Orders, EditOrder(o) \/ BeginInsert(o) \/ EndInsert(o)
      PROVE  NumberingInv'
  BY <1>6, EditOrderInv
<1> QED
  BY <1>1, <1>2, <1>3, <1>4, <1>5, <1>6 DEF Next

(* The inductive invariant holds in every reachable state.                 *)
THEOREM NumberingInvariance == Spec => []NumberingInv
BY InitInv, NextInv, PTL DEF Spec

(* Every variable keeps its type, whatever requests run together           *)
(* (apps/invoices).                                                        *)
THEOREM TypeCorrect == Spec => []TypeOK
<1>1. NumberingInv => TypeOK
  BY DEF NumberingInv
<1> QED
  BY <1>1, NumberingInvariance, PTL

(* Invoice numbers are 1 to last without gap or duplicate, whichever       *)
(* requests fail after taking one (_next_invoice_number).                  *)
THEOREM NumbersAreGapless == Spec => []NumbersGapless
<1>1. NumberingInv => NumbersGapless
  BY DEF NumberingInv
<1> QED
  BY <1>1, NumberingInvariance, PTL

(* The total frozen on an invoice is that of the lines it carries          *)
(* (issue_invoice's and update_draft_invoice's row locks).                 *)
THEOREM TotalsAreOfTheLines == Spec => []TotalIsLines
<1>1. NumberingInv => TotalIsLines
  BY DEF NumberingInv
<1> QED
  BY <1>1, NumberingInvariance, PTL

(* No free invoice is issued without lines or buyer, even when the draft   *)
(* changes between the check on screen and the issue (_verify).            *)
THEOREM IssuedInvoicesAreComplete == Spec => []IssuedIsComplete
<1>1. NumberingInv => IssuedIsComplete
  BY DEF NumberingInv
<1> QED
  BY <1>1, NumberingInvariance, PTL

(* Two requests that bill one order never both succeed                     *)
(* (issue_invoice_from_order).                                             *)
THEOREM OrdersAreBilledOnce == Spec => []OneInvoicePerOrder
<1>1. NumberingInv => OneInvoicePerOrder
  BY DEF NumberingInv
<1> QED
  BY <1>1, NumberingInvariance, PTL

----------------------------------------------------------------------------
(* What a step may do to an invoice.                                       *)

(* A draft is changed by the request that holds its row lock, in its last  *)
(* step: a deletion keeps its contents, a save or an issue is a new        *)
(* version.                                                                *)
DraftChanges(d) ==
  /\ doc[d].status = "draft"
  /\ doc'[d].status # "none" /\ doc'[d].order = doc[d].order
  /\ \E k \in Jobs : docLock[d] = k /\ pc[k] \in {"locked", "numbered"} /\ pc'[k] = "done"
  /\ \/ doc'[d].version = doc[d].version /\ doc'[d].lines = doc[d].lines
     \/ doc'[d].version = doc[d].version + 1

(* An issued invoice changes status and nothing else.                      *)
StatusChanges(d) ==
  /\ doc[d].status \in Numbered /\ doc'[d].status \in Numbered
  /\ doc'[d] = [doc[d] EXCEPT !.status = doc'[d].status]

(* A new invoice is a draft of no order, or is issued.                     *)
Appears(d) ==
  /\ doc[d].status = "none"
  /\ doc'[d].status \in Numbered \/ doc'[d].order = NoOrder

RowsChange ==
  \A d \in Docs :
    doc'[d] = doc[d] \/ Appears(d) \/ StatusChanges(d) \/ DraftChanges(d)

LEMMA StepChangesRows ==
  ASSUME NumberingInv, [Next]_vars
  PROVE  RowsChange
<1> USE DEF NumberingInv
<1>1. CASE UNCHANGED doc
  BY <1>1 DEF RowsChange
<1>2. ASSUME NEW d \in Docs, CreateDraft(d) PROVE RowsChange
  BY <1>2 DEF CreateDraft, RowsChange, Appears, TypeOK
<1>3. ASSUME NEW d \in Docs, ChangeStatus(d) PROVE RowsChange
  <2>1. PICK status \in {"paid", "cancelled"} :
          doc[d].status \in {"issued", "paid"} /\ doc' = [doc EXCEPT ![d].status = status]
    BY <1>3 DEF ChangeStatus
  <2>2. doc'[d] = [doc[d] EXCEPT !.status = status] /\ doc'[d].status = status
    BY <2>1 DEF TypeOK, Doc
  <2>3. StatusChanges(d)
    BY <2>1, <2>2 DEF StatusChanges, Numbered
  <2> QED
    BY <2>1, <2>3 DEF RowsChange, TypeOK
<1>4. ASSUME NEW j \in Jobs, CommitSave(j) \/ CommitDelete(j) \/ CommitIssue(j)
      PROVE  RowsChange
  <2>1. /\ pc[j] \in {"locked", "numbered"} /\ pc'[j] = "done"
    BY <1>4 DEF CommitSave, CommitDelete, CommitIssue, TypeOK
  <2>2. PICK x \in job[j] :
          /\ x.op # "bill"
          /\ doc' = [doc EXCEPT ![x.doc] = doc'[x.doc]]
          /\ doc'[x.doc].status # "none" /\ doc'[x.doc].order = doc[x.doc].order
          /\ \/ doc'[x.doc].version = doc[x.doc].version /\ doc'[x.doc].lines = doc[x.doc].lines
             \/ doc'[x.doc].version = doc[x.doc].version + 1
    <3>1. CASE CommitSave(j)
      <4>1. PICK x \in job[j] :
              /\ x.op = "save"
              /\ doc' = [doc EXCEPT ![x.doc] =
                           [status |-> "draft", order |-> doc[x.doc].order,
                            lines |-> x.lines, buyer |-> x.buyer, total |-> x.lines,
                            number |-> 0, version |-> doc[x.doc].version + 1]]
        BY <3>1 DEF CommitSave
      <4>2. x.doc \in Docs
        BY DEF TypeOK, Job
      <4> DEFINE row == [status |-> "draft", order |-> doc[x.doc].order,
                       lines |-> x.lines, buyer |-> x.buyer, total |-> x.lines,
                       number |-> 0, version |-> doc[x.doc].version + 1]
      <4>3. /\ row.status # "none" /\ row.order = doc[x.doc].order
            /\ row.version = doc[x.doc].version + 1
        OBVIOUS
      <4>4. doc' = [doc EXCEPT ![x.doc] = row]
        BY <4>1
      <4> HIDE DEF row
      <4> QED
        BY <4>1, <4>2, <4>3, <4>4 DEF TypeOK
    <3>2. CASE CommitDelete(j)
      <4>1. PICK x \in job[j] :
              x.op = "delete" /\ doc' = [doc EXCEPT ![x.doc].status = "deleted"]
        BY <3>2 DEF CommitDelete
      <4>2. x.doc \in Docs /\ doc[x.doc] \in Doc
        BY DEF TypeOK, Job
      <4>3. doc'[x.doc] = [doc[x.doc] EXCEPT !.status = "deleted"]
        BY <4>1, <4>2 DEF TypeOK
      <4>4. doc' = [doc EXCEPT ![x.doc] = doc'[x.doc]]
        BY <4>1, <4>3
      <4> QED
        <5>1. /\ doc'[x.doc].status = "deleted" /\ doc'[x.doc].order = doc[x.doc].order
              /\ doc'[x.doc].version = doc[x.doc].version
              /\ doc'[x.doc].lines = doc[x.doc].lines
          BY <4>2, <4>3 DEF Doc
        <5> QED
          BY <4>1, <4>4, <5>1
    <3>3. CASE CommitIssue(j)
      <4>1. PICK x \in job[j] :
              /\ x.op = "issue"
              /\ doc' = [doc EXCEPT ![x.doc] =
                           [status |-> "issued", order |-> doc[x.doc].order,
                            lines |-> doc[x.doc].lines, buyer |-> doc[x.doc].buyer,
                            total |-> taken[j], number |-> number[j],
                            version |-> doc[x.doc].version + 1]]
        BY <3>3 DEF CommitIssue
      <4>2. x.doc \in Docs
        BY DEF TypeOK, Job
      <4> DEFINE row == [status |-> "issued", order |-> doc[x.doc].order,
                       lines |-> doc[x.doc].lines, buyer |-> doc[x.doc].buyer,
                       total |-> taken[j], number |-> number[j],
                       version |-> doc[x.doc].version + 1]
      <4>3. /\ row.status # "none" /\ row.order = doc[x.doc].order
            /\ row.version = doc[x.doc].version + 1
        OBVIOUS
      <4>4. doc' = [doc EXCEPT ![x.doc] = row]
        BY <4>1
      <4> HIDE DEF row
      <4> QED
        BY <4>1, <4>2, <4>3, <4>4 DEF TypeOK
    <3> QED
      BY <1>4, <3>1, <3>2, <3>3
  <2>3. x.doc \in Docs /\ docLock[x.doc] = j /\ doc[x.doc].status = "draft"
    BY <2>1, <2>2 DEF TypeOK, Job, JobsOK, JobOK
  <2>4. DraftChanges(x.doc)
    BY <2>1, <2>2, <2>3 DEF DraftChanges
  <2> QED
    BY <2>2, <2>3, <2>4 DEF RowsChange, TypeOK
<1>5. ASSUME NEW j \in Jobs, CommitBill(j) PROVE RowsChange
  <2>1. PICK x \in job[j], status \in Numbered :
          /\ x.op = "bill"
          /\ doc' = [doc EXCEPT ![x.doc] =
                       [status |-> status, order |-> x.order, lines |-> taken[j],
                        buyer |-> FALSE, total |-> taken[j], number |-> number[j],
                        version |-> 0]]
    BY <1>5 DEF CommitBill
  <2>2. x.doc \in Docs /\ doc[x.doc].status = "none"
    BY <1>5, <2>1 DEF CommitBill, TypeOK, Job, JobsOK, JobOK, Ended
  <2>3. doc'[x.doc].status \in Numbered /\ \A d \in Docs : d # x.doc => doc'[d] = doc[d]
    BY <2>1, <2>2 DEF TypeOK
  <2> QED
    BY <2>2, <2>3 DEF RowsChange, Appears
<1>6. ASSUME NEW j \in Jobs, Send(j) \/ Step(j) \/ Fail(j) PROVE RowsChange
  BY <1>1, <1>4, <1>5, <1>6 DEF Send, Step, Fail, LockShop, LockDoc, RefuseDoc,
     LockOrder, RefuseOrder, RefuseIncomplete, TakeNumber, RollBack
<1>7. ASSUME NEW o \in Orders, EditOrder(o) \/ BeginInsert(o) \/ EndInsert(o)
      PROVE  RowsChange
  BY <1>1, <1>7 DEF EditOrder, BeginInsert, EndInsert
<1> QED
  BY <1>1, <1>2, <1>3, <1>6, <1>7 DEF Next, vars

(* No step touches the number, amounts or parties of an issued invoice, or *)
(* deletes it, whatever saves, issues and failures run beside it           *)
(* (Invoice's docstring, URS-099).                                         *)
THEOREM IssuedInvoicesAreImmutable == Spec => IssuedIsImmutable
<1>1. ASSUME NumberingInv, [Next]_vars
      PROVE  [\A d \in Docs :
                doc[d].status \in Numbered =>
                  /\ doc'[d] = [doc[d] EXCEPT !.status = doc'[d].status]
                  /\ doc'[d].status \in Numbered]_vars
  <2> SUFFICES ASSUME NEW d \in Docs, doc[d].status \in Numbered
               PROVE  /\ doc'[d] = [doc[d] EXCEPT !.status = doc'[d].status]
                      /\ doc'[d].status \in Numbered
    OBVIOUS
  <2>1. doc'[d] = doc[d] \/ StatusChanges(d)
    BY <1>1, StepChangesRows DEF RowsChange, Appears, DraftChanges, Numbered
  <2>2. doc[d] = [doc[d] EXCEPT !.status = doc[d].status]
    BY <1>1 DEF NumberingInv, TypeOK, Doc
  <2> QED
    BY <2>1, <2>2 DEF StatusChanges
<1> QED
  BY <1>1, NumberingInvariance, PTL DEF Spec, IssuedIsImmutable

----------------------------------------------------------------------------
(* A version names the lines it was read with.                             *)

(* The draft a device was shown may have moved on since; as long as its    *)
(* version has not, neither have its lines, and a save that has passed the *)
(* comparison keeps the version it was sent with until it commits.         *)
ReadOK(j, x) ==
  /\ doc[x.doc].status # "none"
  /\ x.version <= doc[x.doc].version
  /\ doc[x.doc].version = x.version => doc[x.doc].lines = x.read
  /\ pc[j] = "locked" /\ x.op = "save" => Fresh(x)

VersionsNameLines ==
  \A j \in Jobs : \A x \in job[j] : x.op # "bill" => ReadOK(j, x)

LEMMA VersionsStep ==
  ASSUME NumberingInv, VersionsNameLines, [Next]_vars
  PROVE  VersionsNameLines'
<1> USE DEF NumberingInv
<1>1. SUFFICES ASSUME NEW j \in Jobs, NEW x \in job'[j], x.op # "bill"
               PROVE  ReadOK(j, x)'
  BY DEF VersionsNameLines
<1>2. CASE Send(j)
  <2>1. PICK y \in Job :
          /\ job' = [job EXCEPT ![j] = {y}]
          /\ y.op # "bill" => doc[y.doc].status = "draft"
          /\ y.version = doc[y.doc].version /\ y.read = doc[y.doc].lines
    BY <1>2 DEF Send
  <2>2. x = y /\ pc'[j] = "sent" /\ doc' = doc /\ x.doc \in Docs
    BY <1>2, <2>1 DEF Send, TypeOK, Job
  <2>3. doc[x.doc].version \in Int
    BY <2>2 DEF TypeOK, Doc
  <2> QED
    BY <1>1, <2>1, <2>2, <2>3 DEF ReadOK
<1>3. CASE ~Send(j)
  <2>1. x \in job[j]
    BY <1>3 DEF Next, vars, Send, Step, Fail, LockShop, LockDoc, RefuseDoc, LockOrder,
       RefuseOrder, RefuseIncomplete, TakeNumber, CommitSave, CommitDelete,
       CommitIssue, CommitBill, RollBack, CreateDraft, ChangeStatus, EditOrder,
       BeginInsert, EndInsert, TypeOK
  <2>2. ReadOK(j, x) /\ x \in Job /\ x.doc \in Docs /\ doc[x.doc] \in Doc
    BY <1>1, <2>1 DEF VersionsNameLines, TypeOK, Job
  <2>3. /\ doc[x.doc].version \in Int /\ doc'[x.doc].version \in Int
        /\ x.version \in Int
    <3>1. doc'[x.doc] \in Doc
      BY <2>2, NextInv DEF TypeOK
    <3> QED
      BY <2>2, <3>1 DEF Doc, Job
  <2>4. /\ doc'[x.doc].status # "none"
        /\ \/ doc'[x.doc].version = doc[x.doc].version /\ doc'[x.doc].lines = doc[x.doc].lines
           \/ doc'[x.doc].version = doc[x.doc].version + 1
    <3>1. doc'[x.doc] = doc[x.doc] \/ StatusChanges(x.doc) \/ DraftChanges(x.doc)
      BY <2>2, StepChangesRows DEF RowsChange, Appears, ReadOK
    <3>2. StatusChanges(x.doc) => /\ doc'[x.doc].version = doc[x.doc].version
                                  /\ doc'[x.doc].lines = doc[x.doc].lines
      BY <2>2 DEF StatusChanges, Doc
    <3> QED
      BY <2>2, <3>1, <3>2 DEF StatusChanges, DraftChanges, Numbered, ReadOK
  <2>5. ASSUME pc'[j] = "locked", x.op = "save" PROVE doc'[x.doc].version = x.version
    <3>1. CASE LockDoc(j)
      <4>1. PICK y \in job[j] : Acceptable(y)
        BY <3>1 DEF LockDoc
      <4>2. y = x /\ doc' = doc
        BY <2>1, <3>1 DEF LockDoc, JobsOK
      <4> QED
        BY <2>5, <4>1, <4>2 DEF Acceptable, Fresh
    <3>2. CASE ~LockDoc(j)
      <4>1. pc[j] = "locked"
        <5>1. LockOrder(j) => \E y \in job[j] : y.op = "bill"
          BY DEF LockOrder
        <5>2. ~LockOrder(j)
          BY <1>1, <2>1, <5>1 DEF JobsOK
        <5>3. ASSUME NEW k \in Jobs, Send(k) \/ Step(k) \/ Fail(k) PROVE pc[j] = "locked"
          <6>1. CASE k = j
            BY <1>3, <2>5, <3>2, <5>2, <5>3, <6>1 DEF Step, Fail, LockShop, RefuseDoc,
               RefuseOrder, RefuseIncomplete, TakeNumber, CommitSave, CommitDelete,
               CommitIssue, CommitBill, RollBack, TypeOK
          <6>2. CASE k # j
            <7>1. pc' = [pc EXCEPT ![k] = pc'[k]]
              BY <5>3 DEF Send, Step, Fail, LockShop, LockDoc, RefuseDoc, LockOrder,
                 RefuseOrder, RefuseIncomplete, TakeNumber, CommitSave, CommitDelete,
                 CommitIssue, CommitBill, RollBack, TypeOK
            <7> QED
              BY <2>5, <6>2, <7>1 DEF TypeOK
          <6> QED
            BY <6>1, <6>2
        <5> QED
          BY <2>5, <5>3 DEF Next, vars, CreateDraft, ChangeStatus, EditOrder,
             BeginInsert, EndInsert
      <4>2. docLock[x.doc] = j /\ doc[x.doc].status = "draft" /\ doc[x.doc].version = x.version
        BY <1>1, <2>1, <2>2, <2>5, <4>1 DEF JobsOK, JobOK, ReadOK, Fresh
      <4>3. ~DraftChanges(x.doc)
        BY <2>5, <4>2 DEF DraftChanges
      <4> QED
        BY <2>2, <4>2, <4>3, StepChangesRows DEF RowsChange, Appears, StatusChanges, Numbered
    <3> QED
      BY <3>1, <3>2
  <2> QED
    BY <2>2, <2>3, <2>4, <2>5 DEF ReadOK, Fresh
<1> QED
  BY <1>2, <1>3

(* Wherever a request stands, the version it was shown names the lines it  *)
(* was shown (Invoice.version).                                            *)
THEOREM VersionsNameTheirLines == Spec => []VersionsNameLines
<1>1. Init => VersionsNameLines
  BY DEF Init, VersionsNameLines
<1> QED
  BY <1>1, VersionsStep, NumberingInvariance, PTL DEF Spec

(* No save commits over lines its device was not shown, however many       *)
(* devices save and issue one draft at once (update_draft_invoice).        *)
THEOREM SavesAreOfWhatWasRead == Spec => NoLostSave
<1>1. ASSUME VersionsNameLines
      PROVE  [\A j \in Jobs : \A x \in job[j] :
                x.op = "save" /\ pc[j] = "locked" /\ pc'[j] = "done"
                  => doc[x.doc].lines = x.read]_vars
  BY <1>1 DEF VersionsNameLines, ReadOK, Fresh
<1> QED
  BY <1>1, VersionsNameTheirLines, PTL DEF NoLostSave

----------------------------------------------------------------------------
(* InvoiceNumbering implements InvoiceRegister.                            *)

(* A draft bills no order: only issue_invoice_from_order makes an invoice  *)
(* of one.                                                                 *)
DraftsBillNoOrder ==
  \A d \in Docs : doc[d].status \in {"none", "draft"} => doc[d].order = NoOrder

LEMMA DraftsBillNoOrderStep ==
  ASSUME NumberingInv, DraftsBillNoOrder, [Next]_vars
  PROVE  DraftsBillNoOrder'
BY StepChangesRows DEF DraftsBillNoOrder, RowsChange, Appears, StatusChanges,
   DraftChanges, Numbered

LEMMA DraftsAreOfNoOrder == Spec => []DraftsBillNoOrder
<1>1. Init => DraftsBillNoOrder
  BY DEF Init, NoDoc, DraftsBillNoOrder
<1> QED
  BY <1>1, DraftsBillNoOrderStep, NumberingInvariance, PTL DEF Spec

(* The invoice of a number that one invoice carries.                       *)
LEMMA TheOneNumbered ==
  ASSUME NEW f, NEW n, NEW d \in Docs, f[d].number = n,
         \A e \in Docs : f[e].number = n => e = d
  PROVE  (CHOOSE e \in Docs : f[e].number = n) = d
OBVIOUS

LEMMA ByNumberIs ==
  ASSUME NumberingInv, NEW n \in 1..last
  PROVE  /\ ByNumber(n) \in Docs /\ doc[ByNumber(n)].number = n
         /\ \A e \in Docs : doc[e].number = n => e = ByNumber(n)
<1>1. PICK d \in Docs : doc[d].number = n
  BY DEF NumberingInv, NumbersGapless
<1>2. last \in Nat /\ n > 0
  BY DEF NumberingInv, TypeOK
<1>3. \A e \in Docs : doc[e].number = n => e = d
  BY <1>1, <1>2 DEF NumberingInv, NumbersGapless
<1>4. ByNumber(n) = d
  BY <1>1, <1>3, TheOneNumbered DEF ByNumber
<1> QED
  BY <1>1, <1>3, <1>4

(* An invoice keeps its number and its entry in the register.              *)
LEMMA EntriesStay ==
  ASSUME NumberingInv, [Next]_vars, NEW n \in 1..last
  PROVE  ByNumber(n)' = ByNumber(n) /\ Entry(ByNumber(n))' = Entry(ByNumber(n))
<1> DEFINE d == ByNumber(n)
<1>1. d \in Docs /\ doc[d].number = n /\ doc[d] \in Doc /\ n > 0
  BY ByNumberIs DEF NumberingInv, TypeOK
<1>2. doc[d].status \in Numbered
  BY <1>1 DEF NumberingInv, NumbersGapless
<1>3. doc'[d] = doc[d] \/ StatusChanges(d)
  BY <1>1, <1>2, StepChangesRows DEF RowsChange, Appears, DraftChanges, Numbered
<1>4. /\ doc'[d].number = n /\ doc'[d].total = doc[d].total
      /\ doc'[d].order = doc[d].order
  BY <1>1, <1>3 DEF StatusChanges, Doc
<1>5. \A e \in Docs : doc'[e].number = n => e = d
  <2>1. NumbersGapless'
    BY NextInv DEF NumberingInv
  <2> QED
    BY <1>1, <1>4, <2>1 DEF NumbersGapless
<1>6. ByNumber(n)' = d
  BY <1>1, <1>4, <1>5, TheOneNumbered DEF ByNumber
<1> QED
  BY <1>4, <1>6 DEF Entry

(* Only a request that commits an invoice moves the counter, by one, and   *)
(* its order, if any, had none.                                            *)
LEMMA CounterMoves ==
  ASSUME NumberingInv, DraftsBillNoOrder, [Next]_vars, last' # last
  PROVE  /\ last' = last + 1
         /\ \E d \in Docs :
              /\ doc'[d].number = last + 1
              /\ doc'[d].order # NoOrder => ~Invoiced(doc'[d].order)
<1> USE DEF NumberingInv
<1>1. PICK j \in Jobs : CommitIssue(j) \/ CommitBill(j)
  BY DEF Next, vars, Send, Step, Fail, LockShop, LockDoc, RefuseDoc, LockOrder,
     RefuseOrder, RefuseIncomplete, TakeNumber, CommitSave, CommitDelete, RollBack,
     CreateDraft, ChangeStatus, EditOrder, BeginInsert, EndInsert
<1>2. pc[j] = "numbered" /\ last' = last + 1 /\ number[j] = last + 1
  BY <1>1, CounterFreed DEF CommitIssue, CommitBill, CounterOK
<1>3. CASE CommitIssue(j)
  <2>1. PICK x \in job[j] :
          /\ x.op = "issue"
          /\ doc' = [doc EXCEPT ![x.doc] =
                       [status |-> "issued", order |-> doc[x.doc].order,
                        lines |-> doc[x.doc].lines, buyer |-> doc[x.doc].buyer,
                        total |-> taken[j], number |-> number[j],
                        version |-> doc[x.doc].version + 1]]
    BY <1>3 DEF CommitIssue
  <2>2. x.doc \in Docs /\ doc[x.doc].order = NoOrder
    BY <1>2, <2>1 DEF TypeOK, Job, JobsOK, JobOK, DraftsBillNoOrder
  <2> QED
    BY <1>2, <2>1, <2>2 DEF TypeOK
<1>4. CASE CommitBill(j)
  <2>1. PICK x \in job[j], status \in Numbered :
          /\ x.op = "bill"
          /\ doc' = [doc EXCEPT ![x.doc] =
                       [status |-> status, order |-> x.order, lines |-> taken[j],
                        buyer |-> FALSE, total |-> taken[j], number |-> number[j],
                        version |-> 0]]
    BY <1>4 DEF CommitBill
  <2>2. x.doc \in Docs /\ ~Invoiced(x.order)
    BY <1>2, <2>1 DEF TypeOK, Job, JobsOK, JobOK
  <2> QED
    BY <1>2, <2>1, <2>2 DEF TypeOK
<1> QED
  BY <1>1, <1>2, <1>3, <1>4

(* A sequence with one more entry, entry by entry.                         *)
LEMMA AppendIs ==
  ASSUME NEW S, NEW s \in Seq(S), NEW e \in S, NEW n \in Nat, n = Len(s), NEW t,
         t = [i \in 1..(n + 1) |-> IF i = n + 1 THEN e ELSE s[i]]
  PROVE  t = Append(s, e)
<1>1. \A i \in 1..n : s[i] \in S
  OBVIOUS
<1>2. t \in Seq(S) /\ Len(t) = n + 1
  BY <1>1
<1>3. /\ Append(s, e) \in Seq(S) /\ Len(Append(s, e)) = n + 1
      /\ \A i \in 1..n : Append(s, e)[i] = s[i]
      /\ Append(s, e)[n + 1] = e
  BY AppendProperties
<1>4. \A i \in 1..(n + 1) : Append(s, e)[i] = t[i]
  BY <1>3
<1> QED
  BY <1>2, <1>3, <1>4, SeqEqual

LEMMA RegisterInit == Init => Register!Init
<1> SUFFICES ASSUME Init PROVE Issued = <<>>
  BY DEF Register!Init
<1>1. last = 0
  BY DEF Init
<1>2. Issued = [n \in 1..0 |-> Entry(ByNumber(n))]
  BY <1>1 DEF Issued
<1> QED
  BY <1>2

LEMMA RegisterStep ==
  ASSUME NumberingInv, DraftsBillNoOrder, [Next]_vars
  PROVE  [Register!Issue]_Issued
<1>1. last \in Nat
  BY DEF NumberingInv, TypeOK
<1>2. \A n \in 1..last : Entry(ByNumber(n))' = Entry(ByNumber(n))
  BY EntriesStay
<1>3. CASE last' = last
  BY <1>2, <1>3 DEF Issued
<1>4. CASE last' # last
  <2>1. PICK d \in Docs :
          /\ doc'[d].number = last + 1
          /\ doc'[d].order # NoOrder => ~Invoiced(doc'[d].order)
    BY <1>4, CounterMoves
  <2>2. last' = last + 1 /\ NumberingInv'
    BY <1>4, CounterMoves, NextInv
  <2>3. doc'[d] \in Doc /\ \A n : n = last + 1 => ByNumber(n)' = d
    <3>1. \A e \in Docs : doc'[e].number = last + 1 => e = d
      BY <1>1, <2>1, <2>2 DEF NumberingInv, NumbersGapless
    <3> QED
      BY <2>1, <2>2, <3>1, TheOneNumbered DEF ByNumber, NumberingInv, TypeOK
  <2> DEFINE entry == [invoice |-> d, total |-> doc'[d].total, order |-> doc'[d].order]
  <2>4. \A n : n = last + 1 => Entry(ByNumber(n))' = entry
    BY <2>3 DEF Entry
  <2>5. entry \in [invoice : Docs, total : Amounts, order : Orders \cup {NoOrder}]
    BY <2>3 DEF Doc
  <2>6. entry.order = doc'[d].order
    OBVIOUS
  <2> HIDE DEF entry
  <2>7. Issued \in Seq([invoice : Docs, total : Amounts, order : Orders \cup {NoOrder}])
        /\ Len(Issued) = last
    <3>1. \A n \in 1..last : ByNumber(n) \in Docs /\ doc[ByNumber(n)] \in Doc
      BY ByNumberIs DEF NumberingInv, TypeOK
    <3>2. \A n \in 1..last :
            Entry(ByNumber(n)) \in [invoice : Docs, total : Amounts, order : Orders \cup {NoOrder}]
      BY <3>1 DEF Entry, Doc
    <3> QED
      BY <1>1, <3>2 DEF Issued
  <2> DEFINE Ent == [invoice : Docs, total : Amounts, order : Orders \cup {NoOrder}]
  <2>8. Issued' = Append(Issued, entry)
    <3>1. \A n \in 1..last : Issued[n] = Entry(ByNumber(n)) /\ Entry(ByNumber(n))' = Issued[n]
      BY <1>2 DEF Issued
    <3>2. Issued' = [n \in 1..(last + 1) |-> Entry(ByNumber(n))']
      BY <2>2 DEF Issued
    <3>3. Issued' = [n \in 1..(last + 1) |-> IF n = last + 1 THEN entry ELSE Issued[n]]
      BY <1>1, <2>4, <3>1, <3>2
    <3> HIDE DEF Ent
    <3>4. Issued \in Seq(Ent) /\ Len(Issued) = last /\ entry \in Ent
      BY <2>5, <2>7 DEF Ent
    <3> QED
      BY <1>1, <3>3, <3>4, AppendIs
  <2>9. entry.order \notin Register!Billed
    <3> SUFFICES ASSUME entry.order \in Register!Billed PROVE FALSE
      OBVIOUS
    <3>1. PICK n \in 1..last : entry.order = Entry(ByNumber(n)).order /\ entry.order # NoOrder
      BY <2>7 DEF Register!Billed, Issued
    <3>2. doc[ByNumber(n)].order = entry.order /\ ByNumber(n) \in Docs
      BY <3>1, ByNumberIs DEF Entry
    <3> QED
      BY <2>1, <2>6, <3>1, <3>2 DEF Invoiced
  <2> QED
    BY <2>5, <2>8, <2>9 DEF Register!Issue
<1> QED
  BY <1>3, <1>4

(* Whatever saves, issues, bills, refusals and failures run together, the  *)
(* shop's invoices only ever grow into a register, one at a time, the n-th *)
(* entry of number n, no entry ever changed and no order billed twice      *)
(* (issue_invoice, issue_invoice_from_order).                              *)
THEOREM IssuingImplementsTheRegister == Spec => ImplementsRegister
BY RegisterInit, RegisterStep, NumberingInvariance, DraftsAreOfNoOrder, PTL
   DEF Spec, ImplementsRegister, Register!Spec

=============================================================================
