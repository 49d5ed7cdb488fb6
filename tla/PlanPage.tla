------------------------------ MODULE PlanPage ------------------------------
(***************************************************************************)
(* The subscription page of the frontend, with what the backend and Stripe *)
(* make of it: subscribing, changing plan, cancelling and resuming.        *)
(*                                                                         *)
(* Stripe has the subscription; the backend copies it in a row each time   *)
(* it asks for it, and every page that is open shows the row as it was     *)
(* when last read.  A change is shown with its amount first, and confirmed *)
(* by sending the amount back; the backend computes it again before it     *)
(* lets Stripe charge it.  Anything may happen in between, and an answer   *)
(* may be lost while its request goes on.                                  *)
(*                                                                         *)
(* An amount is all it depends on: the plans, the date it is computed for  *)
(* and the rest (prices, taxes, credit, the paid period), which is a       *)
(* number that changes.  At Stripe a shop has one subscription at most.    *)
(* Plans granted by an administrator and the billing portal are left out.  *)
(*                                                                         *)
(* Bounds: MaxClock the date and MaxAge that of an amount, MaxMoves what   *)
(* happens at Stripe, MaxGestures those of the users.                      *)
(***************************************************************************)
EXTENDS Naturals, FiniteSets

CONSTANTS Pages, MaxPlan, MaxClock, MaxAge, MaxMoves, MaxGestures

ASSUME PlansAssumption == MaxPlan \in Nat \ {0}
ASSUME ClockAssumption == MaxClock \in Nat /\ MaxAge \in Nat
ASSUME MovesAssumption == MaxMoves \in Nat /\ MaxGestures \in Nat

VARIABLES
  atStripe,   \* the subscription at Stripe
  inRow,      \* its copy in the database
  pages,      \* what each page shows
  changes,    \* the confirmed changes the backend works on
  outcomes,   \* of the updates Stripe was asked for, by idempotency key
  bills,      \* what was charged for a change
  today, rate, gestures

planVars ==
  <<atStripe, inRow, pages, changes, outcomes, bills, today, rate, gestures>>

Periods == {"month", "year"}
PlanChoices == [plan : 1..MaxPlan, period : Periods]
NoPlan == [plan |-> 0, period |-> "none"]

(* A subscription; `trial` and `expired` are in the database only.         *)
Plan(status, choice) ==
  [status |-> status, choice |-> choice, ending |-> FALSE, next |-> NoPlan]

Free == Plan("free", NoPlan)

PlanStatuses == {"free", "trial", "expired", "active", "past_due"}
PlanSubscriptions ==
  [status : PlanStatuses, choice : PlanChoices \cup {NoPlan}, ending : BOOLEAN,
   next : PlanChoices \cup {NoPlan}]

StripeManaged(sub) == sub.status \in {"active", "past_due"}

(* The plan in force: an expired trial is worth nothing before the daily   *)
(* task notices it.                                                        *)
EffectivePlan(sub) == IF sub.status = "expired" THEN 0 ELSE sub.choice.plan

PlanAmounts ==
  [from : PlanChoices, to : PlanChoices, date : 0..MaxClock,
   rate : 0..MaxMoves]

-----------------------------------------------------------------------------
(* What the page offers.                                                   *)

(* Mutant: a cancelled subscription is forgotten.                          *)
PlanLockedOverdue(sub) == StripeManaged(sub) /\ sub.status = "past_due"

(* The cards are disabled as a whole.                                      *)
PlanLocked(sub) ==
  StripeManaged(sub) /\ (sub.status = "past_due" \/ sub.ending)

(* The shop has that very plan: on the other period it may switch.         *)
IsCurrent(sub, choice) ==
  /\ choice.plan = EffectivePlan(sub) /\ sub.status # "trial"
  /\ StripeManaged(sub) => choice.period = sub.choice.period

OffersChoice(sub, choice) == ~PlanLocked(sub) /\ ~IsCurrent(sub, choice)

OffersCancel(sub) ==
  /\ EffectivePlan(sub) # 0
  /\ ~(StripeManaged(sub) /\ sub.ending /\ sub.status # "past_due")

OffersResume(sub) == sub.status = "active" /\ sub.ending

OffersUndo(sub) ==
  sub.status = "active" /\ ~sub.ending /\ sub.next # NoPlan

(* The features the menus and the pages open with a plan, by the first     *)
(* that has them.                                                          *)
MenuFeatures ==
  [products |-> 0, stock |-> 0, notes |-> 0, reminders |-> 0, orders |-> 0,
   zakat |-> 0, invoices |-> 1, whatsapp |-> 1, zakat_history |-> 1,
   auto_reminders |-> 1, multi_user |-> 2, roles_permissions |-> 2,
   invoice_branding |-> 2, daily_digest |-> 2, exports |-> 2,
   public_pages |-> 2, loyalty |-> 2, ocr |-> 2, visual_inventory |-> 2,
   qr_codes |-> 2, partnerships |-> 2, audit_log |-> 3,
   priority_support |-> 3]

OffersFeature(sub, feature) == EffectivePlan(sub) >= MenuFeatures[feature]

(* A counter of the plan in force, and its limit if it has one: there, the *)
(* buttons that would go over it show the plans instead.                   *)
Counters == [count : 0..MaxPlan, limit : {{}} \cup {{n} : n \in 0..MaxPlan}]
OffersOneMore(counter) == \A n \in counter.limit : counter.count < n

-----------------------------------------------------------------------------
(* What the backend makes of it.                                           *)

(* The row after Stripe was asked for its subscription: the end of it only *)
(* matters to a row that has it.                                           *)
Copied ==
  CASE atStripe # Free -> atStripe
    [] atStripe = Free /\ StripeManaged(inRow) -> Free
    [] OTHER -> inRow

(* Dearer, or paid for a year: at once.  The rank is that of the price.    *)
Classified(sub, choice) ==
  CASE choice = sub.choice -> "no change"
    [] choice.plan = sub.choice.plan /\ choice.period = "year" -> "immediate"
    [] choice.plan = sub.choice.plan /\ choice.period = "month" -> "scheduled"
    [] choice.plan < sub.choice.plan -> "scheduled"
    [] /\ choice.plan > sub.choice.plan
       /\ sub.choice.period = "year" /\ choice.period = "month"
         -> "not supported"
    [] OTHER -> "immediate"

(* The answer to a change asked for, the row being copied first.           *)
ChangeContext(choice) ==
  CASE ~StripeManaged(inRow) -> "use checkout"
    [] StripeManaged(inRow) /\ ~StripeManaged(Copied) -> "use checkout"
    [] StripeManaged(inRow) /\ Copied.status = "past_due" -> "overdue"
    [] StripeManaged(inRow) /\ Copied.status = "active" /\ Copied.ending
         -> "cancelled"
    [] OTHER -> Classified(Copied, choice)

(* Without a subscription to Stripe in the row, it is not even asked.      *)
RowAfterContext == IF StripeManaged(inRow) THEN Copied ELSE inRow

Supported == {"immediate", "scheduled"}

Amount(choice, date) ==
  [from |-> atStripe.choice, to |-> choice, date |-> date, rate |-> rate]

(* The features the backend serves, none that it does not list.            *)
PlanFeatures ==
  [products |-> 0, stock |-> 0, notes |-> 0, reminders |-> 0, orders |-> 0,
   zakat |-> 0, product_scan |-> 0, invoices |-> 1, whatsapp |-> 1,
   zakat_history |-> 1, auto_reminders |-> 1, multi_user |-> 2,
   roles_permissions |-> 2, invoice_branding |-> 2, daily_digest |-> 2,
   exports |-> 2, public_pages |-> 2, loyalty |-> 2, ocr |-> 2,
   visual_inventory |-> 2, qr_codes |-> 2, partnerships |-> 2,
   audit_log |-> 3, priority_support |-> 3]

ServesFeature(sub, feature) ==
  /\ feature \in DOMAIN PlanFeatures
  /\ EffectivePlan(sub) >= PlanFeatures[feature]

(* What a creation that counts is refused at.                              *)
RefusesOneMore(counter) == \E n \in counter.limit : counter.count >= n

-----------------------------------------------------------------------------
(* The state of a page: the choice a sheet is open for, the amount it      *)
(* shows, what it waits for, and whether it comes back from a payment.     *)
NoPreview == [kind |-> "none"]
Previews == {NoPreview} \cup [kind : Supported, amount : PlanAmounts]

PageAtRest(sub) ==
  [shown |-> sub, sheet |-> NoPlan, preview |-> NoPreview,
   waits |-> "nothing", error |-> "none", back |-> "no"]

PageStates ==
  [shown : PlanSubscriptions, sheet : PlanChoices \cup {NoPlan},
   preview : Previews, waits : {"nothing", "preview", "change", "payment"},
   error : {"none", "payment", "failed", "blocked"},
   back : {"no", "confirming", "pending"}]

Changes ==
  [page : Pages, kind : Supported, amount : PlanAmounts,
   at : {"sent", "checked"}, moved : BOOLEAN, heard : BOOLEAN]

PlanInit ==
  /\ atStripe \in {Free} \cup {Plan("active", c) : c \in PlanChoices}
  /\ inRow \in IF atStripe = Free
               THEN {Free, Plan("trial", [plan |-> 1, period |-> "month"])}
               ELSE {atStripe}
  /\ pages = [p \in Pages |-> PageAtRest(inRow)]
  /\ changes = {} /\ outcomes = {} /\ bills = {}
  /\ today = 0 /\ rate = 0 /\ gestures = 0

Gesture == gestures < MaxGestures /\ gestures' = gestures + 1

(* The sheet is the one of the subscription shown: to pay it for the first *)
(* time, or to change it, which asks for the amount at once.               *)
Showing(page, sub) ==
  IF page.sheet = NoPlan \/ StripeManaged(page.shown) = StripeManaged(sub)
  THEN [page EXCEPT !.shown = sub]
  ELSE [page EXCEPT !.shown = sub, !.preview = NoPreview, !.error = "none",
          !.waits = IF StripeManaged(sub) THEN "preview" ELSE "nothing"]

(* The page is read again, on its own or because of an answer.             *)
RereadPlan(p) ==
  /\ pages[p].waits # "payment" /\ pages[p].shown # inRow
  /\ pages' = [pages EXCEPT ![p] = Showing(@, inRow)]
  /\ UNCHANGED <<atStripe, inRow, changes, outcomes, bills, today, rate,
                 gestures>>

-----------------------------------------------------------------------------
(* Changing the plan.                                                      *)

ChoosePlan(p, choice) ==
  /\ pages[p].sheet = NoPlan /\ pages[p].waits # "payment"
  /\ OffersChoice(pages[p].shown, choice)
  /\ Gesture
  /\ pages' = [pages EXCEPT
       ![p].sheet = choice, ![p].preview = NoPreview, ![p].error = "none",
       ![p].waits = IF StripeManaged(pages[p].shown) THEN "preview" ELSE @]
  /\ UNCHANGED <<atStripe, inRow, changes, outcomes, bills, today, rate>>

(* Not while it pays; what comes of an amount asked for is not awaited.    *)
ClosePlanSheet(p) ==
  /\ pages[p].sheet # NoPlan /\ pages[p].waits \in {"nothing", "preview"}
  /\ pages' = [pages EXCEPT ![p].sheet = NoPlan, ![p].preview = NoPreview,
                 ![p].waits = "nothing", ![p].error = "none"]
  /\ UNCHANGED <<atStripe, inRow, changes, outcomes, bills, today, rate,
                 gestures>>

(* What a refusal leaves: an amount to confirm or to ask for again, or     *)
(* nothing but closing.  Some have the page read again: RereadPlan.        *)
PlanRefused(page, kind) ==
  [page EXCEPT !.waits = "nothing",
     !.error = IF kind = "unreachable" THEN "failed" ELSE "blocked"]

AnswerPreview(p) ==
  /\ pages[p].waits = "preview"
  /\ LET context == ChangeContext(pages[p].sheet) IN
     \/ /\ inRow' = RowAfterContext
        /\ pages' = [pages EXCEPT ![p] =
             IF context \in Supported
             THEN [@ EXCEPT !.waits = "nothing", !.preview =
                     [kind |-> context,
                      amount |-> Amount(pages[p].sheet, today)]]
             ELSE PlanRefused(@, context)]
     \/ /\ pages' = [pages EXCEPT ![p] = PlanRefused(@, "unreachable")]
        /\ UNCHANGED inRow
  /\ UNCHANGED <<atStripe, changes, outcomes, bills, today, rate, gestures>>

(* After a payment that failed, or without an amount.                      *)
RetryChange(p) ==
  /\ pages[p].sheet # NoPlan /\ pages[p].waits = "nothing"
  /\ \/ pages[p].error = "payment"
     \/ pages[p].error = "failed" /\ pages[p].preview = NoPreview
  /\ Gesture
  /\ pages' = [pages EXCEPT ![p].waits = "preview", ![p].error = "none",
                 ![p].preview = NoPreview]
  /\ UNCHANGED <<atStripe, inRow, changes, outcomes, bills, today, rate>>

(* What is sent is the amount shown.                                       *)
ConfirmChange(p) ==
  /\ pages[p].waits = "nothing" /\ pages[p].preview # NoPreview
  /\ pages[p].error \notin {"payment", "blocked"}
  /\ Gesture
  /\ pages' = [pages EXCEPT ![p].waits = "change", ![p].error = "none"]
  /\ changes' = changes \cup
       {[page |-> p, kind |-> pages[p].preview.kind,
         amount |-> pages[p].preview.amount, at |-> "sent", moved |-> FALSE,
         heard |-> TRUE]}
  /\ UNCHANGED <<atStripe, inRow, outcomes, bills, today, rate>>

(* The page does not learn what becomes of its change: it may confirm the  *)
(* same amount again.                                                      *)
LoseAnswer(r) ==
  /\ r.heard
  /\ changes' = (changes \ {r}) \cup {[r EXCEPT !.heard = FALSE]}
  /\ pages' = [pages EXCEPT ![r.page] =
       IF @.waits = "change" THEN PlanRefused(@, "unreachable") ELSE @]
  /\ UNCHANGED <<atStripe, inRow, outcomes, bills, today, rate, gestures>>

(* A page that still waits for its answer becomes what it makes of it.     *)
Answered(r, answered) ==
  [pages EXCEPT ![r.page] =
     IF r.heard /\ @.waits = "change" THEN answered ELSE @]

-----------------------------------------------------------------------------
(* Mutant: its age is enough.                                              *)
AgreedRecent(amount) == today - amount.date <= MaxAge

(* The amount may be too old, or not what it is now.                       *)
Agreed(amount) ==
  /\ today - amount.date <= MaxAge
  /\ amount = Amount(amount.to, amount.date)

(* The first half of a change: the row is copied, and what was confirmed   *)
(* is compared with what it would be now; if it differs, the new amount is *)
(* shown in its place, for the user to confirm.                            *)
CheckChange(r) ==
  /\ r.at = "sent"
  /\ inRow' = RowAfterContext
  /\ LET context == ChangeContext(r.amount.to)
         page == pages[r.page]
         again ==
           [page EXCEPT !.waits = "nothing", !.preview =
              [kind |-> "immediate", amount |->
                 Amount(r.amount.to, IF today - r.amount.date <= MaxAge
                                     THEN r.amount.date ELSE today)]]
     IN CASE context \notin Supported ->
               /\ changes' = changes \ {r}
               /\ pages' = Answered(r, PlanRefused(page, context))
          [] context = "immediate" /\ ~Agreed(r.amount) ->
               changes' = changes \ {r} /\ pages' = Answered(r, again)
          [] OTHER ->
               /\ changes' = (changes \ {r}) \cup
                    {[r EXCEPT !.at = "checked", !.kind = context]}
               /\ UNCHANGED pages
  /\ UNCHANGED <<atStripe, outcomes, bills, today, rate, gestures>>

(* Mutant: a key for each request.                                         *)
KeyOfRequest(r) ==
  [date |-> r.amount.date, choice |-> r.amount.to, seen |-> r.heard]

(* The idempotency key of an update: Stripe answers a key it has seen as   *)
(* it did then, and does nothing.                                          *)
Key(r) == [date |-> r.amount.date, choice |-> r.amount.to]

PlanChanged(choice) ==
  [atStripe EXCEPT !.choice = choice, !.next = NoPlan]

(* Those that a change of Stripe's subscription finds checked.             *)
Moving(others) ==
  {IF r.at = "checked" THEN [r EXCEPT !.moved = TRUE] ELSE r : r \in others}

(* It succeeds: the subscription is copied and shown, the sheet closed; or *)
(* it is not copied after all, and the page only knows that it failed.     *)
Settle(r) ==
  \/ /\ inRow' = atStripe'
     /\ pages' = [pages EXCEPT ![r.page] =
          IF r.heard
          THEN [PageAtRest(inRow') EXCEPT !.back = pages[r.page].back]
          ELSE @]
  \/ /\ UNCHANGED inRow
     /\ pages' = Answered(r, PlanRefused(pages[r.page], "unreachable"))

(* Or not, for want of money or of an answer.                              *)
FailUpdate(r, error) ==
  /\ inRow' = IF error = "payment" THEN Copied ELSE inRow
  /\ pages' = Answered(r, [pages[r.page] EXCEPT !.waits = "nothing",
                                                !.error = error])
  /\ changes' = changes \ {r} /\ UNCHANGED <<atStripe, bills>>

(* The second half: Stripe updates the subscription and charges what it    *)
(* computes by then.                                                       *)
ChargeChange(r) ==
  /\ r.at = "checked" /\ r.kind = "immediate" /\ atStripe # Free
  /\ \/ /\ \A o \in outcomes : o.key # Key(r)
        /\ \/ /\ atStripe' = PlanChanged(r.amount.to)
              /\ bills' = bills \cup
                   {[nth |-> Cardinality(bills) + 1, seen |-> r.amount,
                     billed |-> Amount(r.amount.to, r.amount.date),
                     moved |-> r.moved]}
              /\ outcomes' = outcomes \cup {[key |-> Key(r), paid |-> TRUE]}
              /\ changes' = Moving(changes \ {r}) /\ Settle(r)
           \/ /\ outcomes' = outcomes \cup {[key |-> Key(r), paid |-> FALSE]}
              /\ FailUpdate(r, "payment")
     \/ /\ \E o \in outcomes : o.key = Key(r) /\ o.paid
        /\ changes' = changes \ {r} /\ UNCHANGED <<atStripe, bills, outcomes>>
        /\ Settle(r)
     \/ /\ \E o \in outcomes : o.key = Key(r) /\ ~o.paid
        /\ FailUpdate(r, "payment") /\ UNCHANGED outcomes
  /\ UNCHANGED <<today, rate, gestures>>

(* Nothing is charged for a change at the end of the period, and one that *)
(* was planned is replaced.                                                *)
PlanChange(r) ==
  /\ r.at = "checked" /\ r.kind = "scheduled" /\ atStripe # Free
  /\ atStripe' = [atStripe EXCEPT !.next = r.amount.to]
  /\ changes' = Moving(changes \ {r})
  /\ Settle(r)
  /\ UNCHANGED <<outcomes, bills, today, rate, gestures>>

(* Stripe does not answer, or knows of no such subscription any more.      *)
FailChange(r) ==
  /\ FailUpdate(r, "failed")
  /\ UNCHANGED <<outcomes, today, rate, gestures>>

-----------------------------------------------------------------------------
(* Cancelling, resuming and undoing.  Each asks Stripe first, does what is *)
(* left to do and copies the result; the page that hears of it reads the   *)
(* row again, as does one that is told there is nothing left to do.        *)
Ask(p, offered, sub) ==
  /\ pages[p].waits # "payment" /\ pages[p].sheet = NoPlan
  /\ offered /\ Gesture
  /\ atStripe' = sub
  /\ changes' = IF sub # atStripe THEN Moving(changes) ELSE changes
  /\ inRow' = CASE ~StripeManaged(inRow) -> inRow
                [] sub = Free -> Free
                [] OTHER -> sub
  /\ UNCHANGED <<pages, outcomes, bills, today, rate>>

(* In arrears it ends at once, otherwise with the period.                  *)
CancelAtStripe ==
  CASE atStripe.status = "past_due" -> Free
    [] atStripe.status = "active" /\ ~atStripe.ending ->
         [atStripe EXCEPT !.ending = TRUE, !.next = NoPlan]
    [] OTHER -> atStripe

CancelPlanHere(p) ==
  /\ StripeManaged(pages[p].shown)
  /\ Ask(p, OffersCancel(pages[p].shown),
         IF StripeManaged(inRow) THEN CancelAtStripe ELSE atStripe)

Resume(p) ==
  Ask(p, OffersResume(pages[p].shown),
      IF StripeManaged(inRow) THEN [atStripe EXCEPT !.ending = FALSE]
      ELSE atStripe)

UndoChange(p) ==
  Ask(p, OffersUndo(pages[p].shown),
      IF StripeManaged(inRow) THEN [atStripe EXCEPT !.next = NoPlan]
      ELSE atStripe)

(* Without Stripe, a trial is given up at once; but a row that has a       *)
(* subscription by then cancels that one.                                  *)
LeaveTrial(p) ==
  /\ ~StripeManaged(pages[p].shown) /\ OffersCancel(pages[p].shown)
  /\ pages[p].waits # "payment" /\ pages[p].sheet = NoPlan /\ Gesture
  /\ IF StripeManaged(inRow)
     THEN /\ atStripe' = CancelAtStripe /\ inRow' = CancelAtStripe
          /\ changes' = Moving(changes)
     ELSE inRow' = Free /\ UNCHANGED <<atStripe, changes>>
  /\ UNCHANGED <<pages, outcomes, bills, today, rate>>

-----------------------------------------------------------------------------
(* Subscribing: the browser leaves for Stripe's page, unless the row has a *)
(* subscription by now, which is then copied.                              *)
StartCheckout(p) ==
  /\ pages[p].sheet # NoPlan /\ ~StripeManaged(pages[p].shown)
  /\ pages[p].waits = "nothing" /\ pages[p].error # "blocked" /\ Gesture
  /\ IF StripeManaged(inRow)
     THEN pages' = [pages EXCEPT ![p].error = "blocked"] /\ inRow' = Copied
     ELSE pages' = [pages EXCEPT ![p].waits = "payment"] /\ UNCHANGED inRow
  /\ UNCHANGED <<atStripe, changes, outcomes, bills, today, rate>>

(* Back from it, paid or not: Stripe is asked, and the page read every two *)
(* seconds, for thirty seconds, until it shows the subscription.           *)
ReturnFromCheckout(p) ==
  /\ pages[p].waits = "payment"
  /\ \/ /\ atStripe = Free
        /\ atStripe' = Plan("active", pages[p].sheet)
        /\ inRow' \in {inRow, atStripe'}
     \/ UNCHANGED <<atStripe, inRow>>
  /\ pages' = [pages EXCEPT ![p] =
       [PageAtRest(inRow) EXCEPT !.back =
          IF atStripe' # atStripe THEN "confirming" ELSE "no"]]
  /\ UNCHANGED <<changes, outcomes, bills, today, rate, gestures>>

(* Once it shows it, it has no more to wait for; later it may be asked to  *)
(* look at Stripe again.                                                   *)
ConfirmPayment(p) ==
  /\ pages[p].back # "no"
  /\ \/ /\ StripeManaged(pages[p].shown)
        /\ pages' = [pages EXCEPT ![p].back = "no"] /\ UNCHANGED inRow
     \/ /\ pages[p].back = "confirming" /\ ~StripeManaged(pages[p].shown)
        /\ pages' = [pages EXCEPT ![p].back = "pending"] /\ UNCHANGED inRow
     \/ pages[p].back = "pending" /\ inRow' = Copied /\ UNCHANGED pages
  /\ UNCHANGED <<atStripe, changes, outcomes, bills, today, rate, gestures>>

-----------------------------------------------------------------------------
(* An event of Stripe, or the daily task, copies the subscription.         *)
Copy ==
  /\ inRow # Copied /\ inRow' = Copied
  /\ UNCHANGED <<atStripe, pages, changes, outcomes, bills, today, rate,
                 gestures>>

(* The period ends, a payment fails or comes, a price or a tax changes.    *)
Move ==
  /\ rate < MaxMoves /\ rate' = rate + 1
  /\ \/ (atStripe.ending \/ atStripe.status = "past_due") /\ atStripe' = Free
     \/ /\ atStripe.next # NoPlan
        /\ atStripe' = [atStripe EXCEPT !.choice = atStripe.next,
                          !.next = NoPlan]
     \/ /\ atStripe.status \in {"active", "past_due"}
        /\ \E s \in {"active", "past_due"} :
             atStripe' = [atStripe EXCEPT !.status = s]
  /\ changes' = Moving(changes)
  /\ UNCHANGED <<inRow, pages, outcomes, bills, today, gestures>>

ExpireTrial ==
  /\ inRow.status \in {"trial", "expired"}
  /\ inRow' = IF inRow.status = "expired" THEN Free
              ELSE [inRow EXCEPT !.status = "expired"]
  /\ UNCHANGED <<atStripe, pages, changes, outcomes, bills, today, rate,
                 gestures>>

PassTime ==
  /\ today < MaxClock /\ today' = today + 1
  /\ UNCHANGED <<atStripe, inRow, pages, changes, outcomes, bills, rate,
                 gestures>>

PlanNext ==
  \/ \E p \in Pages :
       \/ RereadPlan(p) \/ ClosePlanSheet(p) \/ AnswerPreview(p)
       \/ RetryChange(p) \/ ConfirmChange(p) \/ CancelPlanHere(p)
       \/ Resume(p) \/ UndoChange(p) \/ LeaveTrial(p)
       \/ StartCheckout(p) \/ ReturnFromCheckout(p) \/ ConfirmPayment(p)
       \/ \E choice \in PlanChoices : ChoosePlan(p, choice)
  \/ \E r \in changes :
       \/ LoseAnswer(r) \/ CheckChange(r) \/ ChargeChange(r) \/ PlanChange(r)
       \/ FailChange(r)
  \/ Copy \/ Move \/ ExpireTrial \/ PassTime

-----------------------------------------------------------------------------
PlanTypeOK ==
  /\ atStripe \in PlanSubscriptions /\ inRow \in PlanSubscriptions
  /\ pages \in [Pages -> PageStates]
  /\ changes \subseteq Changes
  /\ \A b \in bills : b.seen \in PlanAmounts /\ b.billed \in PlanAmounts
  /\ today \in 0..MaxClock /\ rate \in 0..MaxMoves
  /\ gestures \in 0..MaxGestures

(* What a change costs is the amount its user was shown, and it is paid    *)
(* once, whatever answers are lost, whatever another page does and however *)
(* old the amount: unless Stripe's subscription changed in the moment      *)
(* between the backend's check and Stripe's update.                        *)
PaysWhatWasShown ==
  /\ \A b \in bills : b.billed = b.seen \/ b.moved
  /\ \A b, c \in bills :
       b.seen.date = c.seen.date /\ b.seen.to = c.seen.to => b = c

(* A change that takes two steps, a dearer plan and the monthly period, is *)
(* offered all the same, and refused.                                      *)
TwoSteps(sub, choice) ==
  choice.plan > sub.choice.plan /\ sub.choice.period = "year"
    /\ choice.period = "month"

(* What the page offers, the backend accepts, as long as the page shows    *)
(* the subscription as it is at Stripe: the rules of the one are those of  *)
(* the other.                                                              *)
OfferedIsAccepted ==
  \A p \in Pages :
    LET sub == pages[p].shown IN
      sub = inRow /\ sub = Copied =>
        /\ \A choice \in PlanChoices :
             OffersChoice(sub, choice) =>
               IF StripeManaged(sub)
               THEN \/ ChangeContext(choice) \in Supported
                    \/ TwoSteps(sub, choice)
               ELSE ~StripeManaged(inRow)
        /\ OffersCancel(sub) /\ StripeManaged(sub) => CancelAtStripe # atStripe
        /\ OffersResume(sub) => atStripe.ending
        /\ OffersUndo(sub) => atStripe.next # NoPlan
        /\ \A feature \in DOMAIN MenuFeatures :
             OffersFeature(sub, feature) => ServesFeature(inRow, feature)
        /\ \A counter \in Counters :
             OffersOneMore(counter) => ~RefusesOneMore(counter)
=============================================================================
