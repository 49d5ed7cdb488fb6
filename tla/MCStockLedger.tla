--------------------------- MODULE MCStockLedger ---------------------------
(* Small instances of StockLedger for TLC.                                 *)
EXTENDS StockLedger, TLC

CONSTANTS v1, v2, count, sale, exit, entry, return

ln(v, q) == [variant |-> v, qty |-> q]

(* A two-line sale and a two-line count that take the same two variants in *)
(* opposite orders, an exit that takes one variant twice and that the sale *)
(* may undercut, and a release of a cancelled order.                       *)
RaceVariants == {v1, v2}
RaceRequests == {sale, count, exit, return}
RaceKind ==
  sale :> "reserve" @@ count :> "count" @@ exit :> "exit" @@ return :> "release"
RaceLines ==
  sale :> <<ln(v1, 2), ln(v2, 1)>> @@ count :> <<ln(v2, 1), ln(v1, 3)>>
    @@ exit :> <<ln(v1, 1), ln(v1, 1)>> @@ return :> <<ln(v2, 1)>>
RaceStart == v1 :> 3 @@ v2 :> 1

(* An entry and an exit, and the same sale and count, while sheets are     *)
(* being edited.                                                           *)
EditVariants == {v1, v2}
EditRequests == {entry, exit, count, sale}
EditKind ==
  entry :> "entry" @@ exit :> "exit" @@ count :> "count" @@ sale :> "reserve"
EditLines ==
  entry :> <<ln(v1, 2)>> @@ exit :> <<ln(v1, 2)>>
    @@ count :> <<ln(v2, 1), ln(v1, 3)>> @@ sale :> <<ln(v1, 2), ln(v2, 1)>>
EditStart == v1 :> 3 @@ v2 :> 1

(* StockBook sees the committed movements and how each request ended.      *)
Fate(r) ==
  CASE pc[r] = "done" -> "applied"
    [] pc[r] \in {"refused", "aborted"} -> "dropped"
    [] OTHER -> "open"

Book == INSTANCE StockBook WITH
  stock <- ledger, fate <- [r \in Requests |-> Fate(r)]

(* Without sheet edits, the transactions of StockLedger look as if each    *)
(* request were applied at once: all of its lines or none of them.         *)
ImplementsBook == Book!Spec
=============================================================================
