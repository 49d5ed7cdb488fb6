------------------------------ MODULE Arrears -------------------------------
(***************************************************************************)
(* What the owner of a shop that does not pay is told, and the end of the  *)
(* subscription.                                                           *)
(*                                                                         *)
(* Workers run the task of the arrears: a reminder at each stage but the   *)
(* last and, then, the end of the subscription and a last message.  What   *)
(* is sent is claimed first, by an update of the row that only one of them *)
(* can make, and given back when sending fails.  A worker may die anywhere, *)
(* and Stripe's subscription be copied in the row between any two steps,   *)
(* with whatever status (Billing).                                         *)
(*                                                                         *)
(* Bounds: MaxSpells the arrears of the row, which number them; MaxDeaths. *)
(***************************************************************************)
EXTENDS Naturals

CONSTANTS
  Tasks,        \* the workers
  LastStage,    \* 4 in the code: three reminders, and the end
  MaxSpells, MaxDeaths

ASSUME ArrearsAssumption ==
  LastStage \in Nat \ {0} /\ MaxSpells \in Nat \ {0} /\ MaxDeaths \in Nat

VARIABLES
  account,   \* the row
  stage,     \* the stage its arrears have reached
  spells,    \* how many it has had
  tasks,     \* what each worker is at, and what it has read of the row
  told,      \* told[s][t]: the messages sent of stage t of the arrears s
  deaths

arrearsVars == <<account, stage, spells, tasks, told, deaths>>

Stages == 1..LastStage
Reminded == 0..(LastStage - 1)

(* `since` numbers the arrears, `reminded` is the last stage told, `ending` *)
(* the arrears for which the end was asked: 0 if there are none.           *)
Accounts ==
  [status : {"free", "active", "past_due"}, linked : BOOLEAN,
   since : 0..MaxSpells, reminded : Reminded, ending : 0..MaxSpells]

Idle == [at |-> "rest", since |-> 0, from |-> 0, stage |-> 0]

TaskStates ==
  [at : {"rest", "claim", "send", "mark", "check", "cancel", "tell"},
   since : 0..MaxSpells, from : Reminded, stage : 0..LastStage]

ArrearsInit ==
  /\ account = [status |-> "active", linked |-> TRUE, since |-> 0,
                reminded |-> 0, ending |-> 0]
  /\ stage = 0 /\ spells = 0 /\ deaths = 0
  /\ tasks = [w \in Tasks |-> Idle]
  /\ told = [s \in 1..MaxSpells |-> [t \in Stages |-> 0]]

-----------------------------------------------------------------------------
(* The row, once a subscription is found to have a status: arrears start   *)
(* with the first copy that is late, and all is forgotten with the first   *)
(* that is not.  Its end leaves the mark that it was asked.                *)
Copying(status) ==
  CASE status = "canceled" /\ account.linked ->
         [account EXCEPT !.status = "free", !.linked = FALSE, !.since = 0,
                         !.reminded = 0]
    [] status = "canceled" /\ ~account.linked -> account
    [] status = "past_due" ->
         [account EXCEPT !.status = status, !.linked = TRUE,
                         !.since = IF @ = 0 THEN spells + 1 ELSE @]
    [] status = "active" ->
         [account EXCEPT !.status = status, !.linked = TRUE, !.since = 0,
                         !.reminded = 0, !.ending = 0]

CopyAccount(status) ==
  /\ account' = Copying(status)
  /\ IF account'.since \notin {0, account.since}
     THEN spells < MaxSpells /\ spells' = spells + 1 /\ stage' = 1
     ELSE UNCHANGED <<spells, stage>>

Found == {"active", "past_due", "canceled"}

CopyMeanwhile ==
  /\ \E status \in Found : CopyAccount(status)
  /\ UNCHANGED <<tasks, told, deaths>>

DaysPass ==
  /\ account.since # 0 /\ stage < LastStage /\ stage' = stage + 1
  /\ UNCHANGED <<account, spells, tasks, told, deaths>>

-----------------------------------------------------------------------------
At(w, at) == tasks[w].at = at
Goes(w, at) == tasks' = [tasks EXCEPT ![w].at = at]
Stops(w) == tasks' = [tasks EXCEPT ![w] = Idle]
Tells(w, t) == told' = [told EXCEPT ![tasks[w].since][t] = @ + 1]

(* A reminder that is due, that of the stage reached; or the end, asked    *)
(* for before or not.                                                      *)
ReadAccount(w) ==
  /\ At(w, "rest") /\ account.status = "past_due" /\ account.since # 0
  /\ stage = LastStage => account.linked
  /\ stage # LastStage => stage > account.reminded
  /\ tasks' = [tasks EXCEPT ![w] =
       [at |-> CASE stage # LastStage -> "claim"
                 [] stage = LastStage /\ account.ending = 0 -> "mark"
                 [] stage = LastStage /\ account.ending # 0 -> "check",
        since |-> account.since, from |-> account.reminded, stage |-> stage]]
  /\ UNCHANGED <<account, stage, spells, told, deaths>>

(* Mutant: what was told is not compared.                                  *)
UnclaimedSince(w) == account.since = tasks[w].since

(* The row still is as it was read.                                        *)
Unclaimed(w) ==
  account.since = tasks[w].since /\ account.reminded = tasks[w].from

Claim(w) ==
  /\ At(w, "claim")
  /\ IF Unclaimed(w)
     THEN /\ account' = [account EXCEPT !.reminded = tasks[w].stage]
          /\ Goes(w, "send")
     ELSE UNCHANGED account /\ Stops(w)
  /\ UNCHANGED <<stage, spells, told, deaths>>

SendReminder(w) ==
  /\ At(w, "send") /\ Stops(w)
  /\ \/ Tells(w, tasks[w].stage) /\ UNCHANGED account
     \/ /\ account' = IF /\ account.since = tasks[w].since
                         /\ account.reminded = tasks[w].stage
                      THEN [account EXCEPT !.reminded = tasks[w].from]
                      ELSE account
        /\ UNCHANGED told
  /\ UNCHANGED <<stage, spells, deaths>>

(* The first attempt to end the subscription is written down.              *)
MarkEnding(w) ==
  /\ At(w, "mark")
  /\ IF /\ account.ending = 0 /\ account.status = "past_due"
        /\ account.since = tasks[w].since
     THEN /\ account' = [account EXCEPT !.ending = account.since]
          /\ Goes(w, "check")
     ELSE UNCHANGED account /\ Stops(w)
  /\ UNCHANGED <<stage, spells, told, deaths>>

(* It is copied again first: it may have been paid, or ended.  Or Stripe   *)
(* does not answer.                                                        *)
CheckEnding(w) ==
  /\ At(w, "check")
  /\ \/ \E status \in Found :
          /\ CopyAccount(status)
          /\ IF status = "past_due" THEN Goes(w, "cancel") ELSE Stops(w)
     \/ Stops(w) /\ UNCHANGED <<account, stage, spells>>
  /\ UNCHANGED <<told, deaths>>

(* It is ended, and copied; one or the other may fail.                     *)
CancelLate(w) ==
  /\ At(w, "cancel") /\ Stops(w)
  /\ CopyAccount("canceled") \/ UNCHANGED <<account, stage, spells>>
  /\ UNCHANGED <<told, deaths>>

(* The end is told once the row shows it: the mark is claimed by taking it *)
(* away.                                                                   *)
ClaimEnd(w) ==
  /\ At(w, "rest") /\ account.ending # 0
  /\ ~account.linked /\ account.status = "free"
  /\ account' = [account EXCEPT !.ending = 0]
  /\ tasks' = [tasks EXCEPT ![w] =
       [Idle EXCEPT !.at = "tell", !.since = account.ending]]
  /\ UNCHANGED <<stage, spells, told, deaths>>

TellEnd(w) ==
  /\ At(w, "tell") /\ Stops(w)
  /\ \/ Tells(w, LastStage) /\ UNCHANGED account
     \/ /\ account' = IF account.ending = 0 /\ ~account.linked
                      THEN [account EXCEPT !.ending = tasks[w].since]
                      ELSE account
        /\ UNCHANGED told
  /\ UNCHANGED <<stage, spells, deaths>>

Die(w) ==
  /\ ~At(w, "rest") /\ Stops(w)
  /\ deaths < MaxDeaths /\ deaths' = deaths + 1
  /\ UNCHANGED <<account, stage, spells, told>>

ArrearsNext ==
  \/ CopyMeanwhile \/ DaysPass
  \/ \E w \in Tasks :
       \/ ReadAccount(w) \/ Claim(w) \/ SendReminder(w) \/ MarkEnding(w)
       \/ CheckEnding(w) \/ CancelLate(w) \/ ClaimEnd(w) \/ TellEnd(w)
       \/ Die(w)

-----------------------------------------------------------------------------
ArrearsTypeOK ==
  /\ account \in Accounts /\ stage \in 0..LastStage
  /\ spells \in 0..MaxSpells /\ deaths \in 0..MaxDeaths
  /\ tasks \in [Tasks -> TaskStates]
  /\ told \in [1..MaxSpells -> [Stages -> 0..2]]

(* The owner is told of each stage of an arrears once at most, the end of  *)
(* the subscription included: whichever workers run the task, fail to send *)
(* or die, and whenever the subscription is copied.                        *)
ToldOnce ==
  \A s \in 1..MaxSpells, t \in Stages : told[s][t] <= 1
=============================================================================
