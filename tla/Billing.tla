------------------------------ MODULE Billing -------------------------------
(***************************************************************************)
(* The backend in step with Stripe.                                        *)
(*                                                                         *)
(* Stripe's subscriptions are copied in the row of the shop when an event  *)
(* says one has changed, once a day, and before the backend ends one.  A   *)
(* copy is read first and written later, whatever was written meanwhile.   *)
(* An event is delivered until a transaction that handles it commits; once *)
(* more after that, it changes nothing.  And the end of a trial writes the *)
(* row whatever it has become.                                             *)
(*                                                                         *)
(* A shop has one subscription alive at a time at Stripe, of MaxRemotes.   *)
(* Bounds: MaxArrived events, MaxCopies under way at a time.               *)
(***************************************************************************)
EXTENDS Naturals, FiniteSets

CONSTANTS MaxRemotes, MaxArrived, MaxCopies

ASSUME BillingAssumption ==
  /\ MaxRemotes \in Nat \ {0} /\ MaxArrived \in Nat
  /\ MaxCopies \in Nat \ {0}

VARIABLES
  remotes,    \* the status of each subscription at Stripe
  shop,       \* the row
  expiring,   \* the daily task has read that the trial is over
  events,     \* of Stripe, not handled yet
  arrived,    \* how many there were
  copies      \* read from Stripe, not written yet

billingVars == <<remotes, shop, expiring, events, arrived, copies>>

Remotes == 1..MaxRemotes
Live == {"active", "past_due"}

(* A plan that is free though it is linked is what the end of a trial may  *)
(* leave.                                                                  *)
ShopRows == [status : Live \cup {"free", "trial"}, link : 0..MaxRemotes]

(* The status a subscription was read with, and for which event: 0 if the  *)
(* backend asked on its own.                                               *)
Copies ==
  [of : Remotes, read : Live \cup {"canceled"}, event : 0..MaxArrived]

BillingInit ==
  /\ shop \in {[status |-> "free", link |-> 0],
               [status |-> "trial", link |-> 0],
               [status |-> "active", link |-> 1]}
  /\ remotes = [i \in Remotes |-> IF i = shop.link THEN "active" ELSE "none"]
  /\ expiring = FALSE /\ events = {} /\ arrived = 0 /\ copies = {}

-----------------------------------------------------------------------------
(* Stripe: a status changes, and an event says so.                         *)
Arrive(i, status) ==
  /\ arrived < MaxArrived /\ arrived' = arrived + 1
  /\ remotes' = [remotes EXCEPT ![i] = status]
  /\ events' = events \cup {[nth |-> arrived + 1, of |-> i]}

(* It is paid for, late, paid again, or ended.                             *)
StripeMoves ==
  /\ \E i \in Remotes :
       \/ /\ \A j \in Remotes : remotes[j] \notin Live
          /\ remotes[i] = "none" /\ Arrive(i, "active")
       \/ \E status \in (Live \cup {"canceled"}) \ {remotes[i]} :
            remotes[i] \in Live /\ Arrive(i, status)
  /\ UNCHANGED <<shop, expiring, copies>>

-----------------------------------------------------------------------------
(* Copying.                                                                *)

(* Mutant: whichever subscription ended.                                   *)
AnyLinked(of) == shop.link # 0

(* Only the end of the linked subscription is one for the shop.            *)
IsLinked(of) == shop.link = of

(* What the row becomes when a subscription is found to have a status.     *)
Written(of, status) ==
  CASE status = "canceled" /\ IsLinked(of) -> [status |-> "free", link |-> 0]
    [] status = "canceled" /\ ~IsLinked(of) -> shop
    [] status \in Live -> [status |-> status, link |-> of]

Read(i, nth) ==
  /\ Cardinality(copies) < MaxCopies
  /\ copies' = copies \cup [of : {i}, read : {remotes[i]}, event : {nth}]
  /\ UNCHANGED <<remotes, shop, expiring, events, arrived>>

(* One delivery of an event at a time: its row is locked.                  *)
ReadForEvent(e) == (\A c \in copies : c.event # e.nth) /\ Read(e.of, e.nth)

(* Mutant: only the rows whose status is one of Stripe's.                  *)
ReconciledLive == shop.link # 0 /\ shop.status \in Live

(* The rows the daily task is about: whatever they say, if they are linked. *)
(* So are those that are copied before a subscription is ended.            *)
Reconciled == shop.link # 0

ReadAgain == Reconciled /\ Read(shop.link, 0)

WriteCopy(c) ==
  /\ shop' = Written(c.of, c.read)
  /\ copies' = copies \ {c}
  /\ events' = {e \in events : e.nth # c.event}
  /\ UNCHANGED <<remotes, expiring, arrived>>

(* The transaction is undone, that the event was handled included.         *)
FailCopy(c) ==
  /\ copies' = copies \ {c}
  /\ UNCHANGED <<remotes, shop, expiring, events, arrived>>

(* A daily task too: it reads that the trial is over and writes the fields *)
(* of a free plan, the link not among them.                                *)
ReadExpired ==
  /\ shop.status = "trial" /\ ~expiring /\ expiring' = TRUE
  /\ UNCHANGED <<remotes, shop, events, arrived, copies>>

WriteExpired ==
  /\ expiring /\ expiring' = FALSE
  /\ shop' = [shop EXCEPT !.status = "free"]
  /\ UNCHANGED <<remotes, events, arrived, copies>>

BillingNext ==
  \/ StripeMoves \/ ReadAgain \/ ReadExpired \/ WriteExpired
  \/ \E e \in events : ReadForEvent(e)
  \/ \E c \in copies : WriteCopy(c) \/ FailCopy(c)

(* The daily tasks are run again and again and Stripe delivers its events  *)
(* until they are handled; neither fails for ever.                         *)
BillingFairness ==
  /\ WF_billingVars(ReadAgain) /\ WF_billingVars(WriteExpired)
  /\ WF_billingVars(\E e \in events : ReadForEvent(e))
  /\ SF_billingVars(\E c \in copies : c.event = 0 /\ WriteCopy(c))
  /\ SF_billingVars(\E c \in copies : c.event # 0 /\ WriteCopy(c))

-----------------------------------------------------------------------------
BillingTypeOK ==
  /\ remotes \in [Remotes -> Live \cup {"none", "canceled"}]
  /\ shop \in ShopRows /\ expiring \in BOOLEAN
  /\ events \subseteq [nth : 1..MaxArrived, of : Remotes]
  /\ arrived \in 0..MaxArrived
  /\ copies \subseteq Copies

(* Once Stripe's subscriptions stop changing, a row ends up with the       *)
(* status of the one it is linked to, whatever copies were written late or *)
(* failed and whatever the end of a trial has overwritten; and with a link *)
(* when one is alive, unless another had ended before: a late copy of that *)
(* one may link the row to it again, and its end then unlink it for good.  *)
InStepInTheEnd ==
  <>[](/\ shop.link # 0 => shop.status = remotes[shop.link]
       /\ shop.link = 0 /\ (\E i \in Remotes : remotes[i] \in Live)
            => \E i \in Remotes : remotes[i] = "canceled")
=============================================================================
