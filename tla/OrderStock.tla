----------------------------- MODULE OrderStock -----------------------------
(***************************************************************************)
(* Orders and the stock they reserve (apps/orders).                        *)
(*                                                                         *)
(* Creating an order, editing its lines and changing its status each run   *)
(* in one transaction that holds the order's row lock, so each is one      *)
(* action here; the movements they record are StockLedger's transactions.  *)
(* Editing an order's header (discount, shipping, customer) is different:  *)
(* OrderDetailView.update reads the order without a lock or a transaction  *)
(* and its serializer later saves every column of the row that was read.   *)
(* That handler is two actions, PatchRead and PatchSave.                   *)
(***************************************************************************)
EXTENDS Integers

CONSTANTS
  Orders,
  Variants,
  Lines,        \* line slots; a slot with quantity 0 is no line
  LineOrder,    \* LineOrder[l]: the order line l belongs to
  LineVariant,  \* LineVariant[l]: the variant sold, or FreeLine
  FreeLine,     \* a line typed by hand, on no variant
  Sessions,     \* the sessions that PATCH an order's header
  Retypable,    \* the variants whose product may change type
  MaxQty,       \* bound: the largest quantity of a line
  MaxDrift      \* bound: how far held may be from 0 before a further save
                \* of a stale row or change of type

ASSUME LinesAssumption ==
  /\ LineOrder \in [Lines -> Orders]
  /\ LineVariant \in [Lines -> Variants \cup {FreeLine}]
ASSUME FreeLineAssumption == FreeLine \notin Variants
ASSUME BoundsAssumption == MaxQty \in Nat \ {0} /\ MaxDrift \in Nat

VARIABLES
  order,      \* order[o]: the columns status and stock_reserved of o's row
  qty,        \* qty[l]: quantity of line l
  held,       \* held[l]: reserved minus released by the movements of line l
  type,       \* type[v]: the type of v's product
  delivery,   \* the shop's fulfillment_mode is 'delivery'
  copy,       \* copy[s]: the row a session has read, as a set of at most one
  clobbered,  \* history: orders whose row a stale save has overwritten
  retyped     \* history: variants that changed type while lines sold them

vars == <<order, qty, held, type, delivery, copy, clobbered, retyped>>

Statuses == {"to_prepare", "prepared", "shipped", "cancelled"}
Row == [status : Statuses \cup {"none"}, reserved : BOOLEAN]
Copy == [order : Orders, row : Row]

TypeOK ==
  /\ order \in [Orders -> Row]
  /\ qty \in [Lines -> 0..MaxQty]
  /\ held \in [Lines -> Int]
  /\ type \in [Variants -> {"product", "service"}]
  /\ delivery \in BOOLEAN
  /\ copy \in [Sessions -> SUBSET Copy]
  /\ clobbered \in SUBSET Orders
  /\ retyped \in SUBSET Variants

Init ==
  /\ order = [o \in Orders |-> [status |-> "none", reserved |-> FALSE]]
  /\ qty = [l \in Lines |-> 0]
  /\ held = [l \in Lines |-> 0]
  /\ type \in [Variants -> {"product", "service"}]
  /\ delivery \in BOOLEAN
  /\ copy = [s \in Sessions |-> {}]
  /\ clobbered = {}
  /\ retyped = {}

----------------------------------------------------------------------------
LinesOf(o) == {l \in Lines : LineOrder[l] = o}

(* Only a line on a variant whose product is an article moves stock; the   *)
(* type is the one the product has when the movement is considered.        *)
Tracked(l) == LineVariant[l] # FreeLine /\ type[LineVariant[l]] = "product"

(* The status graph; a shop that delivers prepares before it ships.        *)
Transitions ==
  {<<"to_prepare", IF delivery THEN "prepared" ELSE "shipped">>,
   <<"to_prepare", "cancelled">>,
   <<"prepared", "shipped">>, <<"prepared", "cancelled">>,
   <<"prepared", "to_prepare">>,
   <<"shipped", IF delivery THEN "prepared" ELSE "to_prepare">>,
   <<"cancelled", "to_prepare">>}
Allowed(status) == {next \in Statuses : <<status, next>> \in Transitions}

Editable(o) == order[o].status \in {"to_prepare", "prepared"}

(* OrderListCreateView.post: the order, its lines, the reservation and an  *)
(* optional move to shipped, all in one transaction.                       *)
PlaceOrder(o) ==
  /\ order[o].status = "none"
  /\ \E lines \in [LinesOf(o) -> 0..MaxQty], status \in {"to_prepare", "shipped"} :
       /\ \E l \in LinesOf(o) : lines[l] > 0
       /\ qty' = [l \in Lines |-> IF l \in LinesOf(o) THEN lines[l] ELSE qty[l]]
       /\ held' = [l \in Lines |-> IF l \in LinesOf(o) /\ Tracked(l)
                                   THEN held[l] + lines[l] ELSE held[l]]
       /\ order' = [order EXCEPT ![o] = [status |-> status, reserved |-> TRUE]]
  /\ UNCHANGED <<type, delivery, copy, clobbered, retyped>>

(* Mutant: a line added to an order that has reserved is not reserved.     *)
AddItemLater(l) ==
  LET o == LineOrder[l] IN
  /\ qty[l] = 0
  /\ Editable(o)
  /\ \E q \in 1..MaxQty :
       /\ qty' = [qty EXCEPT ![l] = q]
  /\ UNCHANGED <<order, held, type, delivery, copy, clobbered, retyped>>

(* add_item: allowed while the order is editable; moves stock at once when *)
(* the order has reserved its own.                                         *)
AddItem(l) ==
  LET o == LineOrder[l] IN
  /\ qty[l] = 0
  /\ Editable(o)
  /\ \E q \in 1..MaxQty :
       /\ qty' = [qty EXCEPT ![l] = q]
       /\ held' = IF order[o].reserved /\ Tracked(l)
                  THEN [held EXCEPT ![l] = @ + q] ELSE held
  /\ UNCHANGED <<order, type, delivery, copy, clobbered, retyped>>

(* Mutant: the serializer has no min_value.                                *)
UpdateAnyQuantity(l) ==
  LET o == LineOrder[l] IN
  /\ qty[l] > 0
  /\ Editable(o)
  /\ \E q \in -1..MaxQty :
       /\ qty' = [qty EXCEPT ![l] = q]
       /\ held' = IF order[o].reserved /\ Tracked(l)
                  THEN [held EXCEPT ![l] = @ + (q - qty[l])] ELSE held
  /\ UNCHANGED <<order, type, delivery, copy, clobbered, retyped>>

(* update_item_quantity: the difference is reserved or released.           *)
UpdateQuantity(l) ==
  LET o == LineOrder[l] IN
  /\ qty[l] > 0
  /\ Editable(o)
  /\ \E q \in 1..MaxQty :
       /\ qty' = [qty EXCEPT ![l] = q]
       /\ held' = IF order[o].reserved /\ Tracked(l)
                  THEN [held EXCEPT ![l] = @ + (q - qty[l])] ELSE held
  /\ UNCHANGED <<order, type, delivery, copy, clobbered, retyped>>

RemoveItem(l) ==
  LET o == LineOrder[l] IN
  /\ qty[l] > 0
  /\ Editable(o)
  /\ held' = IF order[o].reserved /\ Tracked(l)
             THEN [held EXCEPT ![l] = @ - qty[l]] ELSE held
  /\ qty' = [qty EXCEPT ![l] = 0]
  /\ UNCHANGED <<order, type, delivery, copy, clobbered, retyped>>

(* reserve_stock and _release_stock: one movement per tracked line, unless *)
(* the flag says they have been recorded already.                          *)
Reserve(o) ==
  held' = [l \in Lines |->
             IF l \in LinesOf(o) /\ Tracked(l) /\ ~order[o].reserved
             THEN held[l] + qty[l] ELSE held[l]]

Release(o) ==
  held' = [l \in Lines |->
             IF l \in LinesOf(o) /\ Tracked(l) /\ order[o].reserved
             THEN held[l] - qty[l] ELSE held[l]]

(* transition_status, by what it does to the stock.                        *)
Cancel(o) ==
  /\ "cancelled" \in Allowed(order[o].status)
  /\ Release(o)
  /\ order' = [order EXCEPT ![o] = [status |-> "cancelled", reserved |-> FALSE]]
  /\ UNCHANGED <<qty, type, delivery, copy, clobbered, retyped>>

Reactivate(o) ==
  /\ order[o].status = "cancelled"
  /\ Reserve(o)
  /\ order' = [order EXCEPT ![o] = [status |-> "to_prepare", reserved |-> TRUE]]
  /\ UNCHANGED <<qty, type, delivery, copy, clobbered, retyped>>

Progress(o) ==
  /\ order[o].status \notin {"none", "cancelled"}
  /\ \E status \in Allowed(order[o].status) \ {"cancelled"} :
       order' = [order EXCEPT ![o].status = status]
  /\ UNCHANGED <<qty, held, type, delivery, copy, clobbered, retyped>>

WithinBound == \A l \in Lines : held[l] \in -MaxDrift..MaxDrift

(* OrderDetailView.update, before: the row is read and its status checked. *)
PatchRead(s, o) ==
  /\ copy[s] = {}
  /\ Editable(o)
  /\ copy' = [copy EXCEPT ![s] = {[order |-> o, row |-> order[o]]}]
  /\ UNCHANGED <<order, qty, held, type, delivery, clobbered, retyped>>

(* ... and after: serializer.save() writes back every column that was read.*)
PatchSave(s) ==
  \E c \in copy[s] :
    /\ WithinBound
    /\ order' = [order EXCEPT ![c.order] = c.row]
    /\ clobbered' = IF c.row = order[c.order] THEN clobbered
                    ELSE clobbered \cup {c.order}
    /\ copy' = [copy EXCEPT ![s] = {}]
    /\ UNCHANGED <<qty, held, type, delivery, retyped>>

(* A PUT or PATCH of the product may change its type (ProductSerializer).  *)
ChangeType(v) ==
  /\ v \in Retypable
  /\ WithinBound
  /\ type' = [type EXCEPT ![v] = IF @ = "product" THEN "service" ELSE "product"]
  /\ retyped' = IF \E l \in Lines : LineVariant[l] = v /\ qty[l] > 0
                THEN retyped \cup {v} ELSE retyped
  /\ UNCHANGED <<order, qty, held, delivery, copy, clobbered>>

(* The shop's settings may change its fulfilment mode at any time.         *)
ChangeMode ==
  /\ delivery' = ~delivery
  /\ UNCHANGED <<order, qty, held, type, copy, clobbered, retyped>>

Next ==
  \/ \E o \in Orders : PlaceOrder(o) \/ Cancel(o) \/ Reactivate(o) \/ Progress(o)
  \/ \E l \in Lines : AddItem(l) \/ UpdateQuantity(l) \/ RemoveItem(l)
  \/ \E s \in Sessions : PatchSave(s) \/ \E o \in Orders : PatchRead(s, o)
  \/ \E v \in Variants : ChangeType(v)
  \/ ChangeMode

Spec == Init /\ [][Next]_vars

----------------------------------------------------------------------------
(* Safety                                                                  *)

(* What a line should hold: its quantity while its order has reserved, and *)
(* nothing otherwise.                                                      *)
Due(l) == IF order[LineOrder[l]].reserved /\ Tracked(l) THEN qty[l] ELSE 0

(* The movements of every line add up to what the line should hold, across *)
(* edits, cancellations and reactivations in any order, as long as no stale*)
(* save overwrote the order and no product sold changed its type.          *)
ReservationMatchesLines ==
  \A l \in Lines :
    LineOrder[l] \notin clobbered /\ LineVariant[l] \notin retyped
      => held[l] = Due(l)

(* stock_reserved is set exactly while the order is neither cancelled nor  *)
(* still to be created, unless a stale save overwrote the order.           *)
ReservedWhileLive ==
  \A o \in Orders \ clobbered :
    order[o].reserved <=> order[o].status \notin {"none", "cancelled"}

(* Cancelling an order gives back all the stock it held ("Une commande     *)
(* annulee libere le stock", docs/urs_saas_commercant_mobile.md:1953).     *)
CancelledHoldsNothing ==
  \A l \in Lines : order[LineOrder[l]].status = "cancelled" => held[l] = 0

(* A status moves only along the shop's transition graph                   *)
(* (allowed_transitions): header edits never move it.                      *)
StatusFollowsGraph ==
  [][\A o \in Orders :
       \/ order[o].status \in {order'[o].status, "none"}
       \/ order'[o].status \in Allowed(order[o].status)]_vars
=============================================================================
