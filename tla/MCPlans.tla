------------------------------ MODULE MCPlans ------------------------------
(***************************************************************************)
(* The parts of the system that are about a shop's plan, checked in one    *)
(* run: the limit of its orders, the page it subscribes and changes plan   *)
(* on, the copy of its subscription, what it is told when it does not pay, *)
(* and the scans it has a month.  They share nothing here: each behaviour  *)
(* is one of theirs, chosen at the start, while the others stay as they    *)
(* begin.                                                                  *)
(***************************************************************************)
EXTENDS OrderCreation, PlanPage, Billing, Arrears, ScanQuota

VARIABLE topic

vars == <<topic, creationVars, planVars, billingVars, arrearsVars,
          quotaVars>>

Topics == {"limit", "page", "billing", "arrears", "scans"}

(* The scans of a small plan.                                              *)
TwoTexts == [text |-> 2, vision |-> 1]

(* The choices of those that stay as they begin are fixed.                 *)
Init ==
  /\ topic \in Topics
  /\ CreationInit /\ (topic # "limit" => limit = NoLimit)
  /\ PlanInit /\ (topic # "page" => atStripe = Free /\ inRow = Free)
  /\ BillingInit /\ (topic # "billing" => shop.status = "free")
  /\ ArrearsInit /\ QuotaInit

Next ==
  /\ UNCHANGED topic
  /\ IF topic = "limit" THEN CreationNext ELSE UNCHANGED creationVars
  /\ IF topic = "page" THEN PlanNext ELSE UNCHANGED planVars
  /\ IF topic = "billing" THEN BillingNext ELSE UNCHANGED billingVars
  /\ IF topic = "arrears" THEN ArrearsNext ELSE UNCHANGED arrearsVars
  /\ IF topic = "scans" THEN QuotaNext ELSE UNCHANGED quotaVars

(* Only the copy of the subscription is said to make progress: where it    *)
(* stays as it begins, nothing its fairness speaks of is ever enabled.     *)
Spec == Init /\ [][Next]_vars /\ BillingFairness

TypeOK ==
  /\ CreationTypeOK /\ PlanTypeOK /\ BillingTypeOK /\ ArrearsTypeOK
  /\ QuotaTypeOK
=============================================================================
