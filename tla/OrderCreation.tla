--------------------------- MODULE OrderCreation ---------------------------
(***************************************************************************)
(* Orders created in one shop by concurrent requests: the monthly limit of *)
(* the shop's plan (enforce_orders_per_month_limit) and the order's number *)
(* (generate_order_number), in the transaction of OrderListCreateView.post.*)
(*                                                                         *)
(* Where a request stands tells the locks it holds.  With a limit the      *)
(* shop's row is locked for the whole creation; without, the only lock is  *)
(* on the row of the last order of the year, and the last order is that of *)
(* the statement's snapshot, whatever is committed while its lock is       *)
(* waited for.                                                             *)
(***************************************************************************)
EXTENDS Integers, FiniteSets

CONSTANTS
  Creators,       \* the requests, each sent once
  Limits,         \* the orders a plan may allow in a month
  NoLimit,        \* the limit of a plan that has none (NULL)
  Base, Wide,     \* 10 and 1000 in the code: a number has three digits, four
                  \* from Wide on; smaller values bring the fourth closer
  MonthsPerYear,  \* 12
  MaxMonth        \* bound: the last month

ASSUME LimitAssumption == Limits \subseteq Nat /\ NoLimit \notin Nat
ASSUME NumberAssumption == Base \in Nat \ {0} /\ Wide \in Nat
ASSUME MonthAssumption == MonthsPerYear \in Nat \ {0} /\ MaxMonth \in Nat

VARIABLES
  limit,     \* the limit of the shop's plan, the same throughout
  orders,    \* the shop's orders, committed
  month,     \* months since the first January
  pc,        \* pc[c]: where request c stands
  year,      \* year[c]: the year it numbers in
  last,      \* last[c]: the last number it has found, 0 if none
  inserted   \* inserted[c]: the order it has inserted and not committed

creationVars == <<limit, orders, month, pc, year, last, inserted>>

Year(m) == m \div MonthsPerYear
Order == [by : Creators, created : 0..MaxMonth, year : 0..Year(MaxMonth), seq : Nat]
CreationEnded == {"done", "failed"}
CreationRunning == {"limit", "number", "found", "insert", "inserted"}

CreationTypeOK ==
  /\ limit \in Limits \cup {NoLimit}
  /\ orders \subseteq Order
  /\ month \in 0..MaxMonth
  /\ pc \in [Creators -> {"idle"} \cup CreationRunning \cup CreationEnded]
  /\ year \in [Creators -> 0..Year(MaxMonth)]
  /\ last \in [Creators -> Nat]
  /\ inserted \in [Creators -> SUBSET Order]

CreationInit ==
  /\ limit \in Limits \cup {NoLimit}
  /\ orders = {}
  /\ month = 0
  /\ pc = [c \in Creators |-> "idle"]
  /\ year = [c \in Creators |-> 0]
  /\ last = [c \in Creators |-> 0]
  /\ inserted = [c \in Creators |-> {}]

----------------------------------------------------------------------------
(* The calendar, and a request arriving.                                   *)

NewMonth ==
  /\ month < MaxMonth
  /\ month' = month + 1
  /\ UNCHANGED <<limit, orders, pc, year, last, inserted>>

Begin(c) ==
  /\ pc[c] = "idle"
  /\ pc' = [pc EXCEPT ![c] = IF limit = NoLimit THEN "number" ELSE "limit"]
  /\ UNCHANGED <<limit, orders, month, year, last, inserted>>

----------------------------------------------------------------------------
(* enforce_orders_per_month_limit: the shop's row lock, then the count.    *)

(* Mutant: no lock before counting.                                        *)
NoShopLock == TRUE

ShopFree ==
  limit # NoLimit => \A c \in Creators : pc[c] \notin {"number", "found", "insert", "inserted"}

OverLimit == Cardinality({o \in orders : o.created = month}) >= limit

PassLimit(c) ==
  /\ pc[c] = "limit"
  /\ ShopFree
  /\ ~OverLimit
  /\ pc' = [pc EXCEPT ![c] = "number"]
  /\ UNCHANGED <<limit, orders, month, year, last, inserted>>

RefuseOverLimit(c) ==
  /\ pc[c] = "limit"
  /\ ShopFree
  /\ OverLimit
  /\ pc' = [pc EXCEPT ![c] = "failed"]
  /\ UNCHANGED <<limit, orders, month, year, last, inserted>>

----------------------------------------------------------------------------
(* generate_order_number.                                                  *)

(* Numbers are compared as strings: one of four digits comes before one of *)
(* three that is greater than its first three.                             *)
Before(m, n) ==
  \/ (m < Wide <=> n < Wide) /\ m < n
  \/ m < Wide /\ n >= Wide /\ m <= n \div Base
  \/ m >= Wide /\ n < Wide /\ m \div Base < n

NumbersOf(y) == {o.seq : o \in {o \in orders : o.year = y}}
IsLast(n, y) ==
  IF NumbersOf(y) = {} THEN n = 0
  ELSE n \in NumbersOf(y) /\ \A m \in NumbersOf(y) \ {n} : Before(m, n)

FindLast(c) ==
  /\ pc[c] = "number"
  /\ \E n \in NumbersOf(Year(month)) \cup {0} :
       /\ IsLast(n, Year(month))
       /\ last' = [last EXCEPT ![c] = n]
  /\ year' = [year EXCEPT ![c] = Year(month)]
  /\ pc' = [pc EXCEPT ![c] = "found"]
  /\ UNCHANGED <<limit, orders, month, inserted>>

(* The row lock of the last order, if there is one.                        *)
LastFree(c) ==
  last[c] > 0 =>
    \A d \in Creators :
      pc[d] \in {"insert", "inserted"} => <<year[d], last[d]>> # <<year[c], last[c]>>

LockLast(c) ==
  /\ pc[c] = "found"
  /\ LastFree(c)
  /\ pc' = [pc EXCEPT ![c] = "insert"]
  /\ UNCHANGED <<limit, orders, month, year, last, inserted>>

----------------------------------------------------------------------------
(* The order's INSERT, under its unique number, to the end of the          *)
(* transaction.                                                            *)

OrderRow(c) == [by |-> c, created |-> month, year |-> year[c], seq |-> last[c] + 1]
SameNumber(o, p) == o.year = p.year /\ o.seq = p.seq

Used(c) == \E o \in orders : SameNumber(o, OrderRow(c))

(* It waits for a transaction that has inserted the same number.           *)
KeyFree(c) == \A d \in Creators : \A o \in inserted[d] : ~SameNumber(o, OrderRow(c))

Insert(c) ==
  /\ pc[c] = "insert"
  /\ KeyFree(c)
  /\ ~Used(c)
  /\ inserted' = [inserted EXCEPT ![c] = {OrderRow(c)}]
  /\ pc' = [pc EXCEPT ![c] = "inserted"]
  /\ UNCHANGED <<limit, orders, month, year, last>>

(* IntegrityError, answered as a conflict (api_exception_handler).          *)
RefuseDuplicate(c) ==
  /\ pc[c] = "insert"
  /\ KeyFree(c)
  /\ Used(c)
  /\ pc' = [pc EXCEPT ![c] = "failed"]
  /\ UNCHANGED <<limit, orders, month, year, last, inserted>>

Commit(c) ==
  /\ pc[c] = "inserted"
  /\ orders' = orders \cup inserted[c]
  /\ inserted' = [inserted EXCEPT ![c] = {}]
  /\ pc' = [pc EXCEPT ![c] = "done"]
  /\ UNCHANGED <<limit, month, year, last>>

(* A line, a payment or a reservation is refused, or the worker dies.      *)
RollBack(c) ==
  /\ pc[c] \in CreationRunning
  /\ inserted' = [inserted EXCEPT ![c] = {}]
  /\ pc' = [pc EXCEPT ![c] = "failed"]
  /\ UNCHANGED <<limit, orders, month, year, last>>

----------------------------------------------------------------------------
CreationStep(c) ==
  \/ PassLimit(c) \/ RefuseOverLimit(c) \/ FindLast(c) \/ LockLast(c)
  \/ Insert(c) \/ RefuseDuplicate(c) \/ Commit(c)

CreationNext ==
  \/ NewMonth
  \/ \E c \in Creators : Begin(c) \/ CreationStep(c) \/ RollBack(c)

CreationSpec == CreationInit /\ [][CreationNext]_creationVars

----------------------------------------------------------------------------
(* Properties                                                              *)

(* No month has more orders than the plan allows, even when several        *)
(* devices create at once or a month begins in between (_lock_shop).       *)
WithinLimit ==
  limit # NoLimit =>
    \A m \in 0..MaxMonth : Cardinality({o \in orders : o.created = m}) <= limit

(* Where the plan has a limit, the number generated for an order is no     *)
(* other order's: its shop lock keeps two creations apart, and none is     *)
(* refused for its number (generate_order_number's docstring).             *)
GeneratedNumberIsFree ==
  limit # NoLimit => \A c \in Creators : pc[c] = "insert" => ~Used(c)

=============================================================================
