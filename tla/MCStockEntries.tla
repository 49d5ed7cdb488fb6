--------------------------- MODULE MCStockEntries ---------------------------
(***************************************************************************)
(* What enters the stock, checked in one run: the requests that race on    *)
(* the movements, and the supplier's invoices read before they become one  *)
(* of these requests.  Recording the lines of an invoice is one step here: *)
(* StockLedger is where its movements are made.                            *)
(***************************************************************************)
EXTENDS MCStockLedger, InvoiceReading

VARIABLE topic

entriesVars == <<topic, vars, readingVars>>

MCInit == Init /\ ReadingInit /\ topic \in {"movements", "invoices"}

MCNext ==
  /\ UNCHANGED topic
  /\ IF topic = "movements" THEN Next ELSE UNCHANGED vars
  /\ IF topic = "invoices" THEN ReadingNext ELSE UNCHANGED readingVars

Moves(r) ==
  topic = "movements" /\ Step(r) /\ UNCHANGED <<topic, readingVars>>

(* Movements make progress as in StockLedger, where they are the topic;    *)
(* where invoices are not, nothing of ReadingFairness is ever enabled.     *)
MCFairSpec ==
  /\ MCInit /\ [][MCNext]_entriesVars
  /\ ReadingFairness /\ \A r \in Requests : WF_vars(Moves(r))
=============================================================================
