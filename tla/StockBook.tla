----------------------------- MODULE StockBook -----------------------------
(***************************************************************************)
(* What stock movements promise a shop (apps/stock/services.py): each      *)
(* request is applied to the stock in one indivisible step, all of its     *)
(* lines or none, in some order of the requests.  StockLedger is shown to  *)
(* implement this book.                                                    *)
(***************************************************************************)
EXTENDS Integers, Sequences, FiniteSetsExt

CONSTANTS Requests, Variants, Kind, Lines, Start

VARIABLES
  stock,   \* stock[v]: the stock the shop sees
  fate     \* fate[r]: open, applied, or dropped without effect

Init ==
  /\ stock = Start
  /\ fate = [r \in Requests |-> "open"]

(* Total quantity of request r on variant v.                               *)
Quantity(r, v) ==
  MapThenSumSet(LAMBDA i : Lines[r][i].qty,
                {i \in DOMAIN Lines[r] : Lines[r][i].variant = v})

Counted(r) == {Lines[r][i].variant : i \in DOMAIN Lines[r]}

After(r) ==
  [v \in Variants |->
     CASE Kind[r] \in {"entry", "release"} -> stock[v] + Quantity(r, v)
       [] Kind[r] \in {"exit", "reserve"} -> stock[v] - Quantity(r, v)
       [] OTHER -> IF v \in Counted(r) THEN Quantity(r, v) ELSE stock[v]]

(* An exit is applied only when the stock covers it; a sale always is.     *)
Covered(r) ==
  Kind[r] = "exit" =>
    \A v \in Variants : Quantity(r, v) = 0 \/ Quantity(r, v) <= stock[v]

Apply(r) ==
  /\ fate[r] = "open"
  /\ Covered(r)
  /\ stock' = After(r)
  /\ fate' = [fate EXCEPT ![r] = "applied"]

Drop(r) ==
  /\ fate[r] = "open"
  /\ fate' = [fate EXCEPT ![r] = "dropped"]
  /\ UNCHANGED stock

Next == \E r \in Requests : Apply(r) \/ Drop(r)

Spec == Init /\ [][Next]_<<stock, fate>>
=============================================================================
