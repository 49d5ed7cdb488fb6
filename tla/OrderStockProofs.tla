-------------------------- MODULE OrderStockProofs --------------------------
(***************************************************************************)
(* Proofs about OrderStock, for any orders, lines, variants and sessions.  *)
(*                                                                         *)
(* The reservation of a line is inductive once the history variables are   *)
(* part of it: a stale save puts its order in clobbered, and a type change *)
(* while lines sell the variant puts it in retyped.                        *)
(***************************************************************************)
EXTENDS OrderStock, TLAPS

OrderInv ==
  /\ TypeOK
  /\ ReservationMatchesLines
  /\ ReservedWhileLive

LEMMA InitInv == Init => OrderInv
BY LinesAssumption, BoundsAssumption
   DEF Init, OrderInv, TypeOK, Row, ReservationMatchesLines, ReservedWhileLive,
       Due

(* What the invariant says of one line and of one order.                   *)
LEMMA PlaceOrderInv ==
  ASSUME OrderInv, NEW o \in Orders, PlaceOrder(o)
  PROVE  OrderInv'
<1> USE LinesAssumption, FreeLineAssumption, BoundsAssumption DEF OrderInv
<1>1. PICK lines \in [LinesOf(o) -> 0..MaxQty],
           status \in {"to_prepare", "shipped"} :
        /\ qty' = [l \in Lines |-> IF l \in LinesOf(o) THEN lines[l] ELSE qty[l]]
        /\ held' = [l \in Lines |-> IF l \in LinesOf(o) /\ Tracked(l)
                                    THEN held[l] + lines[l] ELSE held[l]]
        /\ order' = [order EXCEPT ![o] = [status |-> status, reserved |-> TRUE]]
  BY DEF PlaceOrder
<1>2. UNCHANGED <<type, delivery, copy, clobbered, retyped>>
  BY DEF PlaceOrder
<1>3. TypeOK'
  BY <1>1, <1>2 DEF TypeOK, Row, Statuses
<1>4. ReservationMatchesLines'
  <2> SUFFICES ASSUME NEW l \in Lines,
                      LineOrder[l] \notin clobbered, LineVariant[l] \notin retyped
               PROVE  held'[l] = Due(l)'
    BY <1>2 DEF ReservationMatchesLines
  <2>1. held[l] = Due(l) /\ held[l] \in Int /\ qty[l] \in 0..MaxQty
    BY DEF ReservationMatchesLines, TypeOK
  <2>2. Tracked(l)' <=> Tracked(l)
    BY <1>2 DEF Tracked
  <2>3. CASE LineOrder[l] = o
    <3>1. order[o].status = "none" /\ ~order[o].reserved
      BY <2>3 DEF PlaceOrder, ReservedWhileLive
    <3>2. order'[o].reserved /\ l \in LinesOf(o) /\ lines[l] \in 0..MaxQty
      BY <1>1, <2>3 DEF LinesOf, TypeOK
    <3> QED
      BY <1>1, <2>1, <2>2, <2>3, <3>1, <3>2 DEF Due
  <2>4. CASE LineOrder[l] # o
    BY <1>1, <2>1, <2>2, <2>4 DEF Due, LinesOf, TypeOK
  <2> QED
    BY <2>3, <2>4
<1>5. ReservedWhileLive'
  BY <1>1, <1>2 DEF ReservedWhileLive, TypeOK
<1> QED
  BY <1>3, <1>4, <1>5

(* Adding, changing or removing a line moves what the line holds by as much*)
(* as what it should hold.                                                 *)
LEMMA LineStepInv ==
  ASSUME OrderInv, NEW m \in Lines,
         AddItem(m) \/ UpdateQuantity(m) \/ RemoveItem(m)
  PROVE  OrderInv'
<1> USE LinesAssumption, FreeLineAssumption, BoundsAssumption DEF OrderInv
<1>1. UNCHANGED <<order, type, delivery, copy, clobbered, retyped>>
  BY DEF AddItem, UpdateQuantity, RemoveItem
<1>2. PICK q \in 0..MaxQty :
        /\ qty' = [qty EXCEPT ![m] = q]
        /\ held' = IF order[LineOrder[m]].reserved /\ Tracked(m)
                   THEN [held EXCEPT ![m] = @ + (q - qty[m])] ELSE held
  <2> held[m] \in Int /\ qty[m] \in 0..MaxQty
    BY DEF TypeOK
  <2>1. CASE AddItem(m)
    <3>1. PICK q \in 1..MaxQty :
            /\ qty' = [qty EXCEPT ![m] = q]
            /\ held' = IF order[LineOrder[m]].reserved /\ Tracked(m)
                       THEN [held EXCEPT ![m] = @ + q] ELSE held
      BY <2>1 DEF AddItem
    <3>2. qty[m] = 0
      BY <2>1 DEF AddItem
    <3>3. q \in 0..MaxQty /\ q - qty[m] = q
      BY <3>1, <3>2
    <3> QED
      BY <3>1, <3>3
  <2>2. CASE UpdateQuantity(m)
    <3>1. PICK q \in 1..MaxQty :
            /\ qty' = [qty EXCEPT ![m] = q]
            /\ held' = IF order[LineOrder[m]].reserved /\ Tracked(m)
                       THEN [held EXCEPT ![m] = @ + (q - qty[m])] ELSE held
      BY <2>2 DEF UpdateQuantity
    <3>2. q \in 0..MaxQty
      BY <3>1
    <3> QED
      BY <3>1, <3>2
  <2>3. CASE RemoveItem(m)
    <3>1. /\ qty' = [qty EXCEPT ![m] = 0]
          /\ held' = IF order[LineOrder[m]].reserved /\ Tracked(m)
                     THEN [held EXCEPT ![m] = @ - qty[m]] ELSE held
      BY <2>3 DEF RemoveItem
    <3>2. 0 \in 0..MaxQty /\ held[m] - qty[m] = held[m] + (0 - qty[m])
      OBVIOUS
    <3> QED
      BY <3>1, <3>2
  <2> QED
    BY <2>1, <2>2, <2>3
<1>3. TypeOK'
  BY <1>1, <1>2 DEF TypeOK
<1>4. ReservationMatchesLines'
  <2> SUFFICES ASSUME NEW l \in Lines,
                      LineOrder[l] \notin clobbered, LineVariant[l] \notin retyped
               PROVE  held'[l] = Due(l)'
    BY <1>1 DEF ReservationMatchesLines
  <2>1. held[l] = Due(l) /\ held[l] \in Int /\ qty[l] \in 0..MaxQty
    BY DEF ReservationMatchesLines, TypeOK
  <2>2. Tracked(l)' <=> Tracked(l)
    BY <1>1 DEF Tracked
  <2>3. CASE l = m
    BY <1>1, <1>2, <2>1, <2>2, <2>3 DEF Due, TypeOK
  <2>4. CASE l # m
    BY <1>1, <1>2, <2>1, <2>2, <2>4 DEF Due, TypeOK
  <2> QED
    BY <2>3, <2>4
<1>5. ReservedWhileLive'
  BY <1>1 DEF ReservedWhileLive
<1> QED
  BY <1>3, <1>4, <1>5

(* A change of status reserves or releases every line of the order once.   *)
LEMMA TransitionInv ==
  ASSUME OrderInv, NEW o \in Orders, Cancel(o) \/ Reactivate(o) \/ Progress(o)
  PROVE  OrderInv'
<1> USE LinesAssumption, FreeLineAssumption, BoundsAssumption DEF OrderInv
<1>1. UNCHANGED <<qty, type, delivery, copy, clobbered, retyped>>
  BY DEF Cancel, Reactivate, Progress
<1>2. PICK row \in Row :
        /\ order' = [order EXCEPT ![o] = row]
        /\ o \notin clobbered =>
             (row.reserved <=> row.status \notin {"none", "cancelled"})
        /\ held' = [l \in Lines |->
             IF l \in LinesOf(o) /\ Tracked(l)
             THEN IF row.reserved = order[o].reserved THEN held[l]
                  ELSE IF row.reserved THEN held[l] + qty[l]
                  ELSE held[l] - qty[l]
             ELSE held[l]]
  <2>1. CASE Cancel(o)
    <3> DEFINE row == [status |-> "cancelled", reserved |-> FALSE]
    <3>1. row \in Row
      BY DEF Row, Statuses
    <3> QED
      BY <2>1, <3>1 DEF Cancel, Release, TypeOK, Row
  <2>2. CASE Reactivate(o)
    <3> DEFINE row == [status |-> "to_prepare", reserved |-> TRUE]
    <3>1. row \in Row
      BY DEF Row, Statuses
    <3> QED
      BY <2>2, <3>1 DEF Reactivate, Reserve, TypeOK, Row
  <2>3. CASE Progress(o)
    <3>1. PICK status \in Allowed(order[o].status) \ {"cancelled"} :
            order' = [order EXCEPT ![o].status = status]
      BY <2>3 DEF Progress
    <3>2. status \in Statuses \ {"cancelled"} /\ status # "none"
      BY DEF Allowed, Statuses
    <3> DEFINE row == [order[o] EXCEPT !.status = status]
    <3>3. row \in Row /\ order' = [order EXCEPT ![o] = row]
      BY <3>1, <3>2 DEF TypeOK, Row
    <3>4. row.reserved = order[o].reserved /\ row.status = status
      BY DEF TypeOK, Row
    <3>5. held' = [l \in Lines |-> held[l]]
      BY <2>3 DEF Progress, TypeOK
    <3>6. o \notin clobbered => order[o].reserved
      BY <2>3 DEF Progress, ReservedWhileLive
    <3> QED
      BY <3>2, <3>3, <3>4, <3>5, <3>6
  <2> QED
    BY <2>1, <2>2, <2>3
<1>3. TypeOK'
  BY <1>1, <1>2 DEF TypeOK
<1>4. ReservationMatchesLines'
  <2> SUFFICES ASSUME NEW l \in Lines,
                      LineOrder[l] \notin clobbered, LineVariant[l] \notin retyped
               PROVE  held'[l] = Due(l)'
    BY <1>1 DEF ReservationMatchesLines
  <2>1. held[l] = Due(l) /\ held[l] \in Int /\ qty[l] \in 0..MaxQty
    BY DEF ReservationMatchesLines, TypeOK
  <2>2. Tracked(l)' <=> Tracked(l)
    BY <1>1 DEF Tracked
  <2>3. CASE LineOrder[l] = o
    <3>1. order'[o] = row /\ order[o].reserved \in BOOLEAN /\ row.reserved \in BOOLEAN
      BY <1>2 DEF TypeOK, Row
    <3> QED
      BY <1>1, <1>2, <2>1, <2>2, <2>3, <3>1 DEF Due, LinesOf
  <2>4. CASE LineOrder[l] # o
    BY <1>1, <1>2, <2>1, <2>2, <2>4 DEF Due, LinesOf, TypeOK
  <2> QED
    BY <2>3, <2>4
<1>5. ReservedWhileLive'
  BY <1>1, <1>2 DEF ReservedWhileLive, TypeOK
<1> QED
  BY <1>3, <1>4, <1>5

(* Header edits and changes of type or mode leave undisturbed orders alone.*)
LEMMA OutsideInv ==
  ASSUME OrderInv,
         \/ \E s \in Sessions : PatchSave(s) \/ \E o \in Orders : PatchRead(s, o)
         \/ \E v \in Variants : ChangeType(v)
         \/ ChangeMode
  PROVE  OrderInv'
<1> USE LinesAssumption, FreeLineAssumption, BoundsAssumption DEF OrderInv
<1>1. ASSUME NEW s \in Sessions, PatchSave(s) PROVE OrderInv'
  <2>1. PICK c \in copy[s] :
          /\ order' = [order EXCEPT ![c.order] = c.row]
          /\ clobbered' = IF c.row = order[c.order] THEN clobbered
                          ELSE clobbered \cup {c.order}
    BY <1>1 DEF PatchSave
  <2>2. c.order \in Orders /\ c.row \in Row
    BY DEF TypeOK, Copy
  <2>3. UNCHANGED <<qty, held, type, delivery, retyped>>
        /\ copy' = [copy EXCEPT ![s] = {}]
    BY <1>1 DEF PatchSave
  <2>4. TypeOK'
    BY <2>1, <2>2, <2>3 DEF TypeOK
  <2>5. \A o \in Orders : o \notin clobbered' => o \notin clobbered
                                              /\ order'[o] = order[o]
    BY <2>1, <2>2 DEF TypeOK
  <2>6. ReservedWhileLive'
    BY <2>5 DEF ReservedWhileLive
  <2>7. ReservationMatchesLines'
    BY <2>3, <2>5 DEF ReservationMatchesLines, Due, Tracked
  <2> QED
    BY <2>4, <2>6, <2>7
<1>2. ASSUME NEW s \in Sessions, NEW o \in Orders, PatchRead(s, o)
      PROVE  OrderInv'
  BY <1>2 DEF PatchRead, TypeOK, Copy, ReservationMatchesLines, Due, Tracked,
              ReservedWhileLive
<1>3. ASSUME NEW v \in Variants, ChangeType(v) PROVE OrderInv'
  <2>1. UNCHANGED <<order, qty, held, delivery, copy, clobbered>>
        /\ \A w \in Variants : w # v => type'[w] = type[w]
    BY <1>3 DEF ChangeType, TypeOK
  <2>2. TypeOK' /\ retyped \subseteq retyped'
    BY <1>3, <2>1 DEF ChangeType, TypeOK
  <2>3. ASSUME NEW l \in Lines,
               LineOrder[l] \notin clobbered', LineVariant[l] \notin retyped'
        PROVE  held'[l] = Due(l)'
    <3>1. held[l] = Due(l) /\ held'[l] = held[l] /\ qty'[l] = qty[l]
      BY <2>1, <2>2, <2>3 DEF ReservationMatchesLines
    <3>2. CASE LineVariant[l] = v
      <4>1. qty[l] = 0
        BY <1>3, <2>3, <3>2 DEF ChangeType, TypeOK
      <4> QED
        BY <2>1, <3>1, <4>1 DEF Due
    <3>3. CASE LineVariant[l] # v
      BY <2>1, <3>1, <3>3 DEF Due, Tracked
    <3> QED
      BY <3>2, <3>3
  <2>4. ReservationMatchesLines'
    BY <2>3 DEF ReservationMatchesLines
  <2>5. ReservedWhileLive'
    BY <2>1 DEF ReservedWhileLive
  <2> QED
    BY <2>2, <2>4, <2>5
<1>4. CASE ChangeMode
  BY <1>4 DEF ChangeMode, TypeOK, ReservationMatchesLines, Due, Tracked,
              ReservedWhileLive
<1> QED
  BY <1>1, <1>2, <1>3, <1>4

LEMMA NextInv == OrderInv /\ [Next]_vars => OrderInv'
<1> SUFFICES ASSUME OrderInv, [Next]_vars PROVE OrderInv'
  OBVIOUS
<1>1. ASSUME NEW o \in Orders,
             PlaceOrder(o) \/ Cancel(o) \/ Reactivate(o) \/ Progress(o)
      PROVE  OrderInv'
  BY <1>1, PlaceOrderInv, TransitionInv
<1>2. ASSUME NEW l \in Lines, AddItem(l) \/ UpdateQuantity(l) \/ RemoveItem(l)
      PROVE  OrderInv'
  BY <1>2, LineStepInv
<1>3. CASE \/ \E s \in Sessions : PatchSave(s) \/ \E o \in Orders : PatchRead(s, o)
           \/ \E v \in Variants : ChangeType(v)
           \/ ChangeMode
  BY <1>3, OutsideInv
<1>4. CASE UNCHANGED vars
  BY <1>4 DEF vars, OrderInv, TypeOK, ReservationMatchesLines, Due, Tracked,
              ReservedWhileLive
<1> QED
  BY <1>1, <1>2, <1>3, <1>4 DEF Next

THEOREM OrderInvariance == Spec => []OrderInv
BY InitInv, NextInv, PTL DEF Spec

(* OrderStock's variables keep their types.                                *)
THEOREM TypeCorrect == Spec => []TypeOK
BY OrderInvariance, PTL DEF OrderInv

(* What each line holds in stock is what its order has reserved for it,    *)
(* however lines are edited and orders cancelled and reactivated           *)
(* (add_item, update_item_quantity, remove_item, transition_status), except*)
(* for orders a stale save overwrote and variants that changed type.       *)
THEOREM ReservationsMatch == Spec => []ReservationMatchesLines
BY OrderInvariance, PTL DEF OrderInv

(* An order has its stock reserved exactly while it is live, whatever its  *)
(* lines and status go through, unless a stale save overwrote it.          *)
THEOREM ReservedExactlyWhileLive == Spec => []ReservedWhileLive
BY OrderInvariance, PTL DEF OrderInv
=============================================================================
