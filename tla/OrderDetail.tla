----------------------------- MODULE OrderDetail -----------------------------
(***************************************************************************)
(* The page of an order: the gestures it offers from what it has read of   *)
(* the order and of the shop (the table of statuses the frontend keeps is  *)
(* a mirror of the backend's), the sheets and the dialogs some of them     *)
(* open, which stay open while the page reads the order again, and what    *)
(* the backend makes of the request when it comes, other devices and the   *)
(* settings of the shop having moved meanwhile.  It also draws the steps   *)
(* the order went through from the history of its statuses, read apart.    *)
(* Messages, reminders, notes, wording and the lines themselves are left   *)
(* out; amounts are counted in units.                                      *)
(***************************************************************************)
EXTENDS Integers, Sequences

CONSTANTS
  Total,          \* the total of the order
  MaxPaid,        \* bound: what may be recorded as paid
  MaxChanges,     \* bound: changes of status
  MaxBy           \* bound: gestures of the page, and of others

ASSUME DetailAssumption ==
  Total \in Nat \ {0} /\ MaxPaid \in Nat /\ Total <= MaxPaid
    /\ MaxChanges \in Nat \ {0} /\ MaxBy \in Nat

VARIABLES
  sale,     \* the order: status, paid, invoiced, filled, changes of status
  passed,   \* its changes of status, in order
  seat,     \* the shop: its mode, and whether its plan has invoices
  moved,    \* its mode has changed since the order was created
  shows,    \* what the page has read of them: sale, seat, passed (how many)
  act,      \* the gesture under way, and what the page showed when it began
  by        \* how many gestures the page and the others made

detailVars == <<sale, passed, seat, moved, shows, act, by>>

OrderStatuses == {"to_prepare", "prepared", "shipped", "cancelled"}
Modes == {"delivery", "on_site"}    \* a shop without one is as "on_site"

When(condition, offers) == IF condition THEN offers ELSE {}

-----------------------------------------------------------------------------
(* The statuses as the frontend has them.                                  *)

(* Mutant: the steps of a shop that delivers, whatever the shop.           *)
FlowDelivering(mode, status) == <<"to_prepare", "prepared", "shipped">>

FlowStatuses(mode, status) ==
  IF mode = "delivery" \/ status = "prepared"
  THEN <<"to_prepare", "prepared", "shipped">>
  ELSE <<"to_prepare", "shipped">>

NextStatus(status, mode) ==
  LET flow == FlowStatuses(mode, status)
  IN  {flow[i + 1] : i \in {i \in 1..Len(flow) - 1 : flow[i] = status}}

RevertStatus(status, mode) ==
  LET flow == FlowStatuses(mode, status)
  IN  {flow[i - 1] : i \in {i \in 2..Len(flow) : flow[i] = status}}

StatusAllowsCancel == {"to_prepare", "prepared"}
StatusAllowsEdit == StatusAllowsCancel

RemainingDue(s) == IF s.paid < Total THEN Total - s.paid ELSE 0

-----------------------------------------------------------------------------
(* What it offers, by the part of the page that does.                      *)
Kinds == {"none", "status", "pay", "issue", "edit"}
OrderAsks == [does : Kinds, to : OrderStatuses, amount : -MaxPaid..MaxPaid]
Plain(kind) == [does |-> kind, to |-> "to_prepare", amount |-> 0]
To(status) == [Plain("status") EXCEPT !.to = status]
Pay(amount) == [Plain("pay") EXCEPT !.amount = amount]

(* The sheet of payments: what is due or less; another payment once it is  *)
(* settled; less than nothing corrects.                                    *)
PaymentAmounts(s) ==
  {-1} \cup (IF RemainingDue(s) > 0 THEN 1..RemainingDue(s) ELSE {1})

(* The sheet of the invoice; without the plan, it is one that sells it.    *)
InvoiceSheetAsk == Plain("issue")
IssueAllowed(v) == When(v.seat.invoices, {InvoiceSheetAsk})

PrimaryAction(v) ==
  UNION {
    {To(s) : s \in NextStatus(v.sale.status, v.seat.mode)},
    When(v.sale.status = "shipped" /\ RemainingDue(v.sale) > 0,
         {Pay(n) : n \in PaymentAmounts(v.sale)}),
    When(v.sale.status = "cancelled", {To("to_prepare")}),
    When(v.sale.status = "shipped" /\ ~v.sale.invoiced /\ v.sale.filled,
         IssueAllowed(v))}

MenuActions(v) ==
  UNION {
    When(v.sale.status # "cancelled",
         {To(s) : s \in RevertStatus(v.sale.status, v.seat.mode)}),
    When(~v.sale.invoiced /\ v.sale.status # "cancelled" /\ v.sale.filled,
         IssueAllowed(v)),
    When(v.sale.status \in StatusAllowsCancel, {To("cancelled")})}

HeaderActions(v) ==
  When(v.sale.status \in StatusAllowsEdit, {Plain("edit")})

(* To say whose order it is.                                               *)
CustomerActions(v) ==
  When(v.sale.status \in StatusAllowsEdit, {Plain("edit")})

StepperActions(v) ==
  When(v.sale.status = "shipped",
       {To(s) : s \in RevertStatus(v.sale.status, v.seat.mode)})

PaymentActions(v) ==
  When(v.sale.status # "cancelled", {Pay(n) : n \in PaymentAmounts(v.sale)})

InvoiceActions(v) ==
  When(v.sale.status # "cancelled" /\ v.sale.filled /\ ~v.sale.invoiced,
       IssueAllowed(v))

Offered(v) ==
  UNION {PrimaryAction(v), MenuActions(v), HeaderActions(v),
         CustomerActions(v), StepperActions(v), PaymentActions(v),
         InvoiceActions(v)}

-----------------------------------------------------------------------------
(* What the backend accepts, and does.                                     *)
AllowedTransitions(status, mode) ==
  CASE status = "to_prepare" ->
         {IF mode = "delivery" THEN "prepared" ELSE "shipped", "cancelled"}
    [] status = "prepared" -> {"shipped", "cancelled", "to_prepare"}
    [] status = "shipped" ->
         {IF mode = "delivery" THEN "prepared" ELSE "to_prepare"}
    [] status = "cancelled" -> {"to_prepare"}

(* An order that has its invoice is answered with it, which is shown.      *)
Accepts(s, shop, ask) ==
  CASE ask.does = "status" ->
         ask.to \in AllowedTransitions(s.status, shop.mode)
    [] ask.does = "pay" -> s.status # "cancelled"
    [] ask.does = "issue" -> shop.invoices /\ s.filled
    [] ask.does = "edit" -> s.status \in {"to_prepare", "prepared"}

(* Editing may leave it without lines.                                     *)
Results(s, ask, paid) ==
  CASE ask.does = "status" ->
         {[s EXCEPT !.status = ask.to, !.changes = @ + 1]}
    [] ask.does = "pay" -> {[s EXCEPT !.paid = paid]}
    [] ask.does = "issue" -> {[s EXCEPT !.invoiced = TRUE]}
    [] ask.does = "edit" -> {[s EXCEPT !.filled = f] : f \in BOOLEAN}

Perform(ask, paid) ==
  /\ sale' \in Results(sale, ask, paid)
  /\ IF ask.does = "status"
     THEN /\ Len(passed) < MaxChanges
          /\ passed' = Append(passed, [from |-> sale.status, to |-> ask.to])
     ELSE UNCHANGED passed

-----------------------------------------------------------------------------
Unread == [
  sale |-> [status |-> "to_prepare", paid |-> 0, invoiced |-> FALSE,
            filled |-> TRUE, changes |-> 0],
  seat |-> [mode |-> "on_site", invoices |-> TRUE], passed |-> 0]
NoGesture ==
  [ask |-> Plain("none"), sent |-> FALSE, paid |-> 0, seen |-> Unread]

(* A new sale is handed over at once if the switch says so: a shop that    *)
(* delivers has no such switch; what is paid at once is paid just after,   *)
(* here.  The page is shown once it has the order; until it has read the   *)
(* shop, it takes it for one that hands over on the spot, with every       *)
(* feature.                                                                *)
StatusSwitch(mode) ==
  {"to_prepare"} \cup When(mode # "delivery", {"shipped"})

DetailInit ==
  /\ seat \in [mode : Modes, invoices : BOOLEAN]
  /\ passed \in {<<>>, <<[from |-> "to_prepare", to |-> "shipped"]>>}
  /\ sale = [Unread.sale EXCEPT
               !.status = IF passed = <<>> THEN "to_prepare" ELSE "shipped",
               !.changes = Len(passed)]
  /\ sale.status \in StatusSwitch(seat.mode)
  /\ moved = FALSE
  /\ shows = [Unread EXCEPT !.sale = sale]
  /\ act = NoGesture
  /\ by = [page |-> 0, others |-> 0]

(* A gesture begins: it opens a sheet, a dialog or the edit page, or, to   *)
(* move forward or backward, sends at once.                                *)
BeginGesture ==
  /\ act.ask.does = "none" /\ by.page < MaxBy
  /\ \E ask \in Offered(shows) :
       act' = [ask |-> ask, seen |-> shows, paid |-> 0,
               sent |-> /\ ask.does = "status" /\ ask.to # "cancelled"
                        /\ shows.sale.status # "cancelled"]
  /\ by' = [by EXCEPT !.page = @ + 1]
  /\ UNCHANGED <<sale, passed, seat, moved, shows>>

(* What is sent of a payment is the new amount paid, from the one read.    *)
SendAsk ==
  LET paid == shows.sale.paid + act.ask.amount
  IN  /\ act.ask.does # "none" /\ ~act.sent /\ paid <= MaxPaid
      /\ act' = [act EXCEPT !.sent = TRUE,
                             !.paid = IF paid < 0 THEN 0 ELSE paid]
      /\ UNCHANGED <<sale, passed, seat, moved, shows, by>>

LeaveGesture ==
  /\ act.ask.does # "none" /\ ~act.sent
  /\ act' = NoGesture
  /\ UNCHANGED <<sale, passed, seat, moved, shows, by>>

(* The request comes to the backend.                                       *)
AskArrives ==
  /\ act.sent
  /\ IF Accepts(sale, seat, act.ask)
     THEN Perform(act.ask, act.paid)
     ELSE UNCHANGED <<sale, passed>>
  /\ act' = NoGesture
  /\ UNCHANGED <<seat, moved, shows, by>>

(* Another device does what the backend accepts.                           *)
Meanwhile ==
  /\ by.others < MaxBy
  /\ \/ \E status \in OrderStatuses :
          Accepts(sale, seat, To(status)) /\ Perform(To(status), 0)
     \/ \E paid \in 0..Total \ {sale.paid} :
          Accepts(sale, seat, Pay(0)) /\ Perform(Pay(0), paid)
     \/ \E kind \in {"issue", "edit"} :
          Accepts(sale, seat, Plain(kind)) /\ Perform(Plain(kind), 0)
  /\ by' = [by EXCEPT !.others = @ + 1]
  /\ UNCHANGED <<seat, moved, shows, act>>

(* The settings or the plan of the shop change.                            *)
SeatMoves ==
  /\ by.others < MaxBy
  /\ seat' \in [mode : Modes, invoices : BOOLEAN] \ {seat}
  /\ moved' = (moved \/ seat'.mode # seat.mode)
  /\ by' = [by EXCEPT !.others = @ + 1]
  /\ UNCHANGED <<sale, passed, shows, act>>

(* The page reads the order, the shop, or the history, each for itself.    *)
ReadAgain ==
  /\ shows' \in {[shows EXCEPT !.sale = sale],
                 [shows EXCEPT !.seat.mode = seat.mode],
                 [shows EXCEPT !.seat.invoices = seat.invoices],
                 [shows EXCEPT !.passed = Len(passed)]}
  /\ UNCHANGED <<sale, passed, seat, moved, act, by>>

DetailNext ==
  \/ BeginGesture \/ SendAsk \/ LeaveGesture \/ AskArrives
  \/ Meanwhile \/ SeatMoves \/ ReadAgain

-----------------------------------------------------------------------------
(* The steps it draws.                                                     *)
(* Mutant: the first time it got there.                                    *)
FirstTimeTo(changes, status) == {i \in DOMAIN changes :
  /\ changes[i].to = status
  /\ \A j \in DOMAIN changes : j < i => changes[j].to # status}

(* The last time it got there, if it did.                                  *)
LastTimeTo(changes, status) == {i \in DOMAIN changes :
  /\ changes[i].to = status
  /\ \A j \in DOMAIN changes : j > i => changes[j].to # status}

(* The status its steps lead to: for a cancelled order, the one it left.   *)
Reached(v) ==
  LET changes == SubSeq(passed, 1, v.passed)
      initial == IF changes = <<>> THEN v.sale.status ELSE changes[1].from
      left == {changes[i].from : i \in LastTimeTo(changes, "cancelled")}
  IN  IF v.sale.status # "cancelled" THEN v.sale.status
      ELSE IF left = {} THEN initial ELSE CHOOSE status \in left : TRUE

(* When it got to a status: the number of the change, 0 for the creation;  *)
(* or no time.                                                             *)
ReachedAt(v, flow, i) ==
  LET changes == SubSeq(passed, 1, v.passed)
      initial == IF changes = <<>> THEN v.sale.status ELSE changes[1].from
  IN  IF LastTimeTo(changes, flow[i]) # {} THEN LastTimeTo(changes, flow[i])
      ELSE IF \E j \in i..Len(flow) : flow[j] = initial THEN {0} ELSE {}

(* The steps said to be done, with their times.                            *)
OrderSteps(v) ==
  LET flow == FlowStatuses(v.seat.mode, Reached(v))
      cancelled == v.sale.status = "cancelled"
      at == {i \in DOMAIN flow : flow[i] = Reached(v)}
      Done(i) == \E k \in IF at = {} THEN {1} ELSE at :
                   i < k \/ (i = k /\ (k = Len(flow) \/ cancelled))
  IN  {[step |-> flow[i], at |-> ReachedAt(v, flow, i)] :
         i \in {i \in DOMAIN flow : Done(i)}}

-----------------------------------------------------------------------------
ShownShop == [mode : Modes, invoices : BOOLEAN]
Sales == [status : OrderStatuses, paid : 0..MaxPaid, invoiced : BOOLEAN,
          filled : BOOLEAN, changes : 0..MaxChanges]
Readings == [sale : Sales, seat : ShownShop, passed : 0..MaxChanges]

DetailTypeOK ==
  /\ sale \in Sales /\ seat \in ShownShop /\ moved \in BOOLEAN
  /\ passed \in Seq([from : OrderStatuses, to : OrderStatuses])
  /\ sale.changes = Len(passed)
  /\ shows \in Readings
  /\ act \in
       [ask : OrderAsks, sent : BOOLEAN, paid : 0..MaxPaid, seen : Readings]
  /\ by \in [page : 0..MaxBy, others : 0..MaxBy]

(* What a gesture rests on: a payment elsewhere, for one, is no reason to  *)
(* refuse a change of status.                                              *)
RestsOn(ask, s, shop) ==
  CASE ask.does = "status" -> <<s.status, shop.mode>>
    [] ask.does \in {"pay", "edit"} -> s.status
    [] ask.does = "issue" -> <<s.filled, shop.invoices>>

(* A gesture the page offered is never refused for what it is: a request   *)
(* on its way would be refused only if what it rests on has changed since  *)
(* the page offered it, whatever the mode of the shop is and was (an order *)
(* left ready by a shop that no longer delivers included), and however     *)
(* long its sheet or its dialog has been open.                             *)
OfferedFits ==
  act.sent =>
    \/ Accepts(sale, seat, act.ask)
    \/ RestsOn(act.ask, act.seen.sale, act.seen.seat)
         # RestsOn(act.ask, sale, seat)

(* Where the order was after so many changes, from the history.            *)
StatusAfter(k) == IF k = 0
         THEN IF passed = <<>> THEN sale.status ELSE passed[1].from
         ELSE passed[k].to
Rank(status) == CHOOSE n \in 1..4 :
  <<"to_prepare", "prepared", "shipped", "cancelled">>[n] = status

(* The steps drawn are the life of the order: when the page has read the   *)
(* order, its history and the shop as they are, and the shop has not       *)
(* changed its mode, each step it says done has a time, the order did get  *)
(* there then, and it has never gone back to it, or to an earlier step,    *)
(* since; so that their times follow each other.                           *)
StepsAsLived ==
  (~moved /\ shows = [sale |-> sale, seat |-> seat, passed |-> Len(passed)]) =>
    \A step \in OrderSteps(shows) :
      \E k \in step.at :
        /\ StatusAfter(k) = step.step
        /\ \A j \in k + 1..Len(passed) : Rank(StatusAfter(j)) > Rank(step.step)
=============================================================================
