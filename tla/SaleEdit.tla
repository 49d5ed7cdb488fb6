------------------------------ MODULE SaleEdit ------------------------------
(***************************************************************************)
(* The screen that edits the lines of an order (lib/hooks/useNewSaleForm,  *)
(* useNewSaleLines and useOrderEditSave).  The draft is taken from the     *)
(* order when the screen opens and stays as the user makes it; the order   *)
(* goes on being read.  Saving sends the differences between the order,    *)
(* as last read, and the draft: one call each, one after another, any of   *)
(* which may fail.                                                         *)
(*                                                                         *)
(* A line has the number the backend gave it, 0 when it has none yet; what *)
(* it sells; and a quantity.  Money, the customer and the notes are left   *)
(* out, except that the call that writes them comes first.                 *)
(*                                                                         *)
(* Bounds: MaxQuantity, MaxId numbers of lines, MaxMeddling changes made   *)
(* by another device.                                                      *)
(***************************************************************************)
EXTENDS Integers, FiniteSets, SequencesExt

CONSTANTS Goods, MaxQuantity, MaxId, MaxMeddling

ASSUME GoodsAssumption == IsFiniteSet(Goods)
ASSUME SaleBoundsAssumption == MaxQuantity \in Nat \ {0} /\ MaxId \in Nat

VARIABLES
  order,     \* lines of the order in the backend
  open,      \* it can still be edited
  seen,      \* its lines as last read
  draft,     \* lines of the screen
  calls,     \* calls the save has still to make, the first one under way
  call,      \* what that one is at
  fresh,     \* it started from the order as it was
  due,       \* how many of each goods should be sold in the end
  rereading, \* a reading of the order, in the background
  lastId,    \* last number given to a line
  meddling,  \* changes made by another device
  left       \* saved: the screen is left

saleVars == <<order, open, seen, draft, fresh, due, calls, call, rereading,
              lastId, meddling, left>>

Lines == [id : 0..MaxId, what : Goods, quantity : 1..MaxQuantity]

Sold(lines, g) ==
  MapThenSumSet(LAMBDA l : l.quantity, {l \in lines : l.what = g})
NothingDue == [g \in Goods |-> 0]

(* `draftFromOrder`: the screen opens on the lines of the order.           *)
SaleInit ==
  /\ \E sold \in SUBSET Goods :
       /\ Cardinality(sold) <= MaxId
       /\ \E number \in [sold -> 1..Cardinality(sold)] :
            /\ \A g, h \in sold : number[g] = number[h] => g = h
            /\ order =
                 {[id |-> number[g], what |-> g, quantity |-> 1] : g \in sold}
       /\ lastId = Cardinality(sold)
  /\ open = TRUE /\ seen = order /\ draft = order
  /\ fresh = FALSE /\ due = NothingDue
  /\ calls = <<>> /\ call = "none" /\ rereading = "none"
  /\ meddling = 0 /\ left = FALSE

-----------------------------------------------------------------------------
(* The draft.  What is typed during a save is left out: it waits for the   *)
(* next save when this one fails, and goes with the screen otherwise.      *)

(* `addItem`: goods already in the draft have one more.                    *)
AddGoods(g) ==
  /\ ~left /\ calls = <<>>
  /\ IF \E l \in draft : l.what = g
       THEN \E l \in draft :
              /\ l.what = g /\ l.quantity < MaxQuantity
              /\ draft' = (draft \ {l}) \cup {[l EXCEPT !.quantity = @ + 1]}
       ELSE draft' = draft \cup {[id |-> 0, what |-> g, quantity |-> 1]}
  /\ UNCHANGED <<order, open, seen, fresh, due, calls, call, rereading, lastId,
                 meddling, left>>

(* Mutant: a quantity of less than one does not take the line away.        *)
ChangeQuantityOnly(l, q) ==
  /\ ~left /\ calls = <<>> /\ l \in draft /\ q # l.quantity
  /\ draft' = (draft \ {l}) \cup {[l EXCEPT !.quantity = q]}
  /\ UNCHANGED <<order, open, seen, fresh, due, calls, call, rereading, lastId,
                 meddling, left>>

(* `updateQty` and `removeItem`: less than one takes the line away.        *)
ChangeQuantity(l, q) ==
  /\ ~left /\ calls = <<>> /\ l \in draft /\ q # l.quantity
  /\ draft' = IF q = 0 THEN draft \ {l}
              ELSE (draft \ {l}) \cup {[l EXCEPT !.quantity = q]}
  /\ UNCHANGED <<order, open, seen, fresh, due, calls, call, rereading, lastId,
                 meddling, left>>

-----------------------------------------------------------------------------
(* Saving *)

Call(op, line) == [op |-> op, line |-> line]
Header == <<Call("header", [id |-> 0, what |-> "", quantity |-> 0])>>
Numbers(lines) == {l.id : l \in lines}

(* Mutant: a line is kept if the draft still has its goods.                *)
RemovalsByGoods ==
  {Call("remove", l) :
     l \in {m \in seen : \A d \in draft : d.what # m.what}}

(* `persist`: the header, the lines not kept, the others that differ.      *)
Removals ==
  {Call("remove", l) : l \in {m \in seen : m.id \notin Numbers(draft)}}
Additions ==
  {Call("add", l) : l \in {m \in draft : m.id \notin Numbers(seen)}}
Changed(l) == \E m \in seen : m.id = l.id /\ m.quantity # l.quantity
Updates == {Call("update", l) : l \in {m \in draft : Changed(m)}}

(* An empty draft is not saved.                                            *)
StartSave ==
  /\ ~left /\ calls = <<>> /\ draft # {}
  /\ calls' = Header \o SetToSeq(Removals) \o SetToSeq(Additions \cup Updates)
  /\ call' = "sent"
  /\ fresh' = (seen = order) /\ due' = [g \in Goods |-> Sold(draft, g)]
  /\ UNCHANGED <<order, open, seen, draft, rereading, lastId, meddling, left>>

Done(op) == calls # <<>> /\ call = "sent" /\ Head(calls).op = op

ApplyHeader ==
  /\ Done("header") /\ open
  /\ UNCHANGED <<order, lastId>>

ApplyRemoval ==
  /\ Done("remove") /\ open
  /\ \E l \in order : l.id = Head(calls).line.id /\ order' = order \ {l}
  /\ UNCHANGED lastId

(* A line that is not one of the order's is added, under a new number.     *)
ApplyAddition ==
  /\ Done("add") /\ open /\ lastId < MaxId
  /\ lastId' = lastId + 1
  /\ order' = order \cup {[Head(calls).line EXCEPT !.id = lastId']}

ApplyUpdate ==
  /\ Done("update") /\ open
  /\ \E l \in order :
       /\ l.id = Head(calls).line.id
       /\ order' = (order \ {l})
                     \cup {[l EXCEPT !.quantity = Head(calls).line.quantity]}
  /\ UNCHANGED lastId

(* The backend makes the change and computes the order again.              *)
ApplyCall ==
  /\ ApplyHeader \/ ApplyRemoval \/ ApplyAddition \/ ApplyUpdate
  /\ call' = "applied"
  /\ UNCHANGED <<open, seen, draft, fresh, due, calls, rereading, meddling,
                 left>>

ForgetSave == fresh' = FALSE /\ due' = NothingDue

(* The answer arrives.  The order is read again, or cannot be, before the  *)
(* next call; after the header without waiting.                            *)
NextCall ==
  /\ call = "applied"
  /\ IF Head(calls).op = "header"
       THEN rereading' = "asked" /\ UNCHANGED seen
       ELSE seen' \in {order, seen} /\ rereading' = "none"
  /\ calls' = Tail(calls)
  /\ call' = IF Len(calls) = 1 THEN "none" ELSE "sent"
  /\ left' = (left \/ Len(calls) = 1)
  /\ IF Len(calls) = 1 THEN ForgetSave ELSE UNCHANGED <<fresh, due>>
  /\ UNCHANGED <<order, open, draft, lastId, meddling>>

(* A call is refused, or its answer is lost: the save stops there, and the *)
(* order is read again.                                                    *)
FailCall ==
  /\ calls # <<>>
  /\ calls' = <<>> /\ call' = "none" /\ ForgetSave
  /\ rereading' = "asked"
  /\ UNCHANGED <<order, open, seen, draft, lastId, meddling, left>>

(* The order has been read, or cannot be.  An order that can no longer be  *)
(* edited closes the screen.                                               *)
Reread ==
  /\ rereading = "asked" /\ rereading' = "none"
  /\ seen' \in {order, seen}
  /\ left' = (left \/ (seen' = order /\ ~open))
  /\ UNCHANGED <<order, open, draft, fresh, due, calls, call, lastId,
                 meddling>>

-----------------------------------------------------------------------------
(* Another device adds or removes a line, or ships the order.              *)
MeddleAdd(g) ==
  /\ ~left /\ meddling < MaxMeddling /\ meddling' = meddling + 1 /\ open
  /\ lastId < MaxId /\ lastId' = lastId + 1
  /\ order' = order \cup {[id |-> lastId', what |-> g, quantity |-> 1]}
  /\ due' = [due EXCEPT ![g] = IF calls = <<>> THEN 0 ELSE @ + 1]
  /\ UNCHANGED <<open, seen, draft, fresh, calls, call, rereading, left>>

MeddleRemove(l) ==
  /\ ~left /\ meddling < MaxMeddling /\ meddling' = meddling + 1 /\ open
  /\ l \in order /\ order' = order \ {l}
  /\ due' = [due EXCEPT ![l.what] = IF calls = <<>> THEN 0 ELSE @ - l.quantity]
  /\ UNCHANGED <<open, seen, draft, fresh, calls, call, rereading, lastId,
                 left>>

MeddleShip ==
  /\ ~left /\ meddling < MaxMeddling /\ meddling' = meddling + 1
  /\ open /\ open' = FALSE
  /\ UNCHANGED <<order, seen, draft, fresh, due, calls, call, rereading,
                 lastId, left>>

-----------------------------------------------------------------------------
SaleNext ==
  \/ \E g \in Goods : AddGoods(g) \/ MeddleAdd(g)
  \/ \E l \in draft, q \in 0..MaxQuantity : ChangeQuantity(l, q)
  \/ StartSave \/ ApplyCall \/ NextCall \/ FailCall \/ Reread
  \/ \E l \in order : MeddleRemove(l)
  \/ MeddleShip

SaleSpec == SaleInit /\ [][SaleNext]_saleVars

-----------------------------------------------------------------------------
SaleTypeOK ==
  /\ order \subseteq Lines /\ seen \subseteq Lines /\ draft \subseteq Lines
  /\ {open, left, fresh} \subseteq BOOLEAN /\ due \in [Goods -> Int]
  /\ \A i \in DOMAIN calls :
       calls[i].op \in {"header", "remove", "add", "update"}
  /\ call \in {"none", "sent", "applied"} /\ rereading \in {"none", "asked"}
  /\ lastId \in 0..MaxId /\ meddling \in 0..MaxMeddling

(* When a save has gone to its end, what the order sells is what the draft *)
(* did when it started, whatever failed before and was tried again, and    *)
(* whatever another device added or removed since: nothing is counted      *)
(* twice, nothing is forgotten and nothing taken away comes back.  The     *)
(* save must have started from the order as it was.                        *)
SavedIsDraft ==
  [][NextCall /\ calls' = <<>> /\ fresh
       => \A g \in Goods : Sold(order, g) = due[g]]_saleVars
=============================================================================
