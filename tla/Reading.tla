------------------------------- MODULE Reading -------------------------------
(***************************************************************************)
(* What a part of a screen says while the backend is asked for what it     *)
(* shows: nothing yet, what it has, that there is nothing, that reading    *)
(* failed.  The network comes and goes, an answer may be late, fail or     *)
(* find nothing; the user turns from one thing to another and back.        *)
(*                                                                         *)
(* How the state of its query becomes what it says is the choice of each,  *)
(* its row in PanelRows (those of the frontend are in Panels):             *)
(*   one      it shows one thing, that may be gone: that is a failure      *)
(*   keeps    it goes on with the previous thing until the next is there   *)
(*   waits    when it says to wait: never, while there is nothing and it   *)
(*            is being read ("loading"), or has not been ("pending"), or   *)
(*            whenever something is being read ("fetching")                *)
(*   tells    it says that reading failed: "first", whatever it has,       *)
(*            "otherwise", if it has nothing, or "never"                   *)
(*   absent   what it says with nothing else to say: that there is         *)
(*            "nothing", that it is "waiting", or it stays "blank"         *)
(*                                                                         *)
(* A query that begins without network is paused: it is not loading and    *)
(* did not fail (`networkMode` is the library's default).                  *)
(***************************************************************************)

EXTENDS Naturals

CONSTANTS
  PanelRows,
  Presuming,   \* rows that say there is nothing without knowing
  Forever      \* rows that wait for ever when the first reading fails

PanelKinds ==
  [one : BOOLEAN, keeps : BOOLEAN,
   waits : {"never", "loading", "pending", "fetching"},
   tells : {"first", "otherwise", "never"},
   absent : {"nothing", "waiting", "blank"}]

(* A row that says there is nothing only when it knows: with nothing to    *)
(* say, it waits for an answer and then tells that reading failed; and     *)
(* what it keeps of the previous thing is never that there was none.       *)
Knowing(row) ==
  /\ row.absent = "nothing" => row.waits = "pending" /\ row.tells # "never"
  /\ row.keeps => row.one

ASSUME PanelsAssumption ==
  /\ \A p \in DOMAIN PanelRows : PanelRows[p] \in PanelKinds
  /\ Presuming \cup Forever \subseteq DOMAIN PanelRows
  /\ \A p \in DOMAIN PanelRows \ Presuming : Knowing(PanelRows[p])

VARIABLES
  part,      \* the part of a screen, one of PanelRows
  subject,   \* what it is to show: a thing, a tab, a search
  held,      \* what the cache has of each: "unread", "some", "none"
  wrong,     \* its last reading: "no", "failed", "missing" (there is none)
  loading,   \* and the present one: "idle", "fetching", "paused"
  earlier,   \* what was held of the previous subject
  online

panelVars == <<part, subject, held, wrong, loading, earlier, online>>

Subjects == 1..2
Of == PanelRows[part]

(* What the library gives the panel.                                       *)
Given ==
  IF held[subject] = "unread" /\ wrong[subject] = "no" /\ Of.keeps
  THEN earlier ELSE held[subject]

Waiting ==
  CASE Of.waits = "loading" ->
         loading[subject] = "fetching" /\ Given = "unread"
           /\ wrong[subject] = "no"
    [] Of.waits = "pending" -> Given = "unread" /\ wrong[subject] = "no"
    [] Of.waits = "fetching" ->
         loading[subject] = "fetching" /\ Given # "some"
    [] Of.waits = "never" -> FALSE

Says ==
  CASE Of.tells = "first" /\ wrong[subject] # "no" -> "failure"
    [] Waiting -> "waiting"
    [] Given = "some" -> "something"
    [] Of.tells = "otherwise" /\ wrong[subject] # "no" -> "failure"
    [] Given = "none" -> "nothing"
    [] OTHER -> Of.absent

-----------------------------------------------------------------------------
(* A reading starts; with nothing held, the last failure is forgotten.     *)
Begun(s) ==
  /\ loading' = [loading EXCEPT ![s] = IF online THEN "fetching" ELSE "paused"]
  /\ wrong' = [wrong EXCEPT ![s] = IF held[s] = "unread" THEN "no" ELSE @]

PanelInit ==
  /\ part \in DOMAIN PanelRows
  /\ subject = 1 /\ online \in BOOLEAN
  /\ held = [s \in Subjects |-> "unread"]
  /\ wrong = [s \in Subjects |-> "no"]
  /\ loading = [s \in Subjects |->
                  IF s # 1 THEN "idle" ELSE IF online THEN "fetching"
                  ELSE "paused"]
  /\ earlier = "unread"

(* Read a moment ago, for runs about something else.                       *)
PanelStill ==
  /\ subject = 1 /\ online = TRUE /\ earlier = "unread"
  /\ held = [s \in Subjects |-> "some"]
  /\ wrong = [s \in Subjects |-> "no"]
  /\ loading = [s \in Subjects |-> "idle"]

(* Another thing: it is read unless it was less than a minute ago.         *)
ShowOther(s) ==
  /\ s # subject /\ subject' = s
  /\ earlier' = IF Of.keeps /\ held[subject] # "unread" THEN held[subject]
                ELSE earlier
  /\ \/ loading[s] = "idle" /\ Begun(s)
     \/ /\ held[s] # "unread" \/ loading[s] # "idle"
        /\ UNCHANGED <<wrong, loading>>
  /\ UNCHANGED <<part, held, online>>

(* Read again: it is a minute old, was changed here, or the user asks.     *)
AskAgain ==
  /\ loading[subject] = "idle" /\ Begun(subject)
  /\ UNCHANGED <<part, subject, held, earlier, online>>

TellSome(s) ==
  /\ loading[s] = "fetching" /\ online
  /\ held' = [held EXCEPT ![s] = "some"] /\ wrong' = [wrong EXCEPT ![s] = "no"]
  /\ loading' = [loading EXCEPT ![s] = "idle"]
  /\ UNCHANGED <<part, subject, earlier, online>>

(* Mutant: that a thing is missing is no failure.                          *)
TellNoneAnyway(s) ==
  /\ loading[s] = "fetching" /\ online
  /\ held' = [held EXCEPT ![s] = "none"] /\ wrong' = [wrong EXCEPT ![s] = "no"]
  /\ loading' = [loading EXCEPT ![s] = "idle"]
  /\ UNCHANGED <<part, subject, earlier, online>>

TellNone(s) ==
  /\ loading[s] = "fetching" /\ online
  /\ IF Of.one
     THEN wrong' = [wrong EXCEPT ![s] = "missing"] /\ UNCHANGED held
     ELSE /\ held' = [held EXCEPT ![s] = "none"]
          /\ wrong' = [wrong EXCEPT ![s] = "no"]
  /\ loading' = [loading EXCEPT ![s] = "idle"]
  /\ UNCHANGED <<part, subject, earlier, online>>

(* The second failure in a row; the first is only tried again.             *)
FailTwice(s) ==
  /\ loading[s] = "fetching"
  /\ wrong' = [wrong EXCEPT ![s] = "failed"]
  /\ loading' = [loading EXCEPT ![s] = "idle"]
  /\ UNCHANGED <<part, subject, held, earlier, online>>

(* Tried again without network, a reading waits for it.                    *)
Pause(s) ==
  /\ loading[s] = "fetching" /\ ~online
  /\ loading' = [loading EXCEPT ![s] = "paused"]
  /\ UNCHANGED <<part, subject, held, wrong, earlier, online>>

Cut ==
  /\ online /\ online' = FALSE
  /\ UNCHANGED <<part, subject, held, wrong, loading, earlier>>

(* Mutant: what was paused is not resumed.                                 *)
NotResumed(at) == at

Resumed(at) == IF at = "paused" THEN "fetching" ELSE at

(* With the network back, what was paused goes on, and what is shown is    *)
(* read again, unless it was less than a minute ago.                       *)
Restore ==
  /\ ~online /\ online' = TRUE
  /\ LET resumed == [s \in Subjects |-> Resumed(loading[s])]
     IN \/ loading' = resumed /\ UNCHANGED wrong
        \/ /\ resumed[subject] = "idle"
           /\ loading' = [resumed EXCEPT ![subject] = "fetching"]
           /\ wrong' = [wrong EXCEPT ![subject] =
                          IF held[subject] = "unread" THEN "no" ELSE @]
  /\ UNCHANGED <<part, subject, held, earlier>>

(* What is not shown for five minutes is forgotten.                        *)
LetGo(s) ==
  /\ s # subject /\ loading[s] = "idle"
  /\ held' = [held EXCEPT ![s] = "unread"] /\ wrong' = [wrong EXCEPT ![s] = "no"]
  /\ UNCHANGED <<part, subject, loading, earlier, online>>

PanelNext ==
  \/ AskAgain \/ Cut \/ Restore
  \/ \E s \in Subjects :
       \/ ShowOther(s) \/ LetGo(s)
       \/ TellSome(s) \/ TellNone(s) \/ FailTwice(s) \/ Pause(s)

(* The network comes back, and a request on its way ends, if only because  *)
(* the browser gives its connection up.                                    *)
PanelFairness ==
  /\ WF_panelVars(Restore)
  /\ \A s \in Subjects :
       SF_panelVars(TellSome(s) \/ TellNone(s) \/ FailTwice(s))

PanelTypeOK ==
  /\ part \in DOMAIN PanelRows /\ subject \in Subjects /\ online \in BOOLEAN
  /\ held \in [Subjects -> {"unread", "some", "none"}]
  /\ wrong \in [Subjects -> {"no", "failed", "missing"}]
  /\ loading \in [Subjects -> {"idle", "fetching", "paused"}]
  /\ earlier \in {"unread", "some", "none"}

(* Nothing is said to be empty, or not to exist, that may not be: the last *)
(* answer said so.  A paused, failed or unfinished reading is not one.     *)
(* The parts of Presuming take any of these for an empty list or a missing *)
(* page, as their code does.                                               *)
NothingOnlyIfSo ==
  Says = "nothing" =>
    \/ held[subject] = "none" \/ wrong[subject] = "missing"
    \/ part \in Presuming

(* No skeleton for ever: what says to wait ends with something, nothing, a *)
(* failure or an empty place, unless the user turns to something else.     *)
(* The parts of Forever have nothing for the failure of a first reading.   *)
WaitingEnds ==
  \A s \in Subjects :
    (subject = s /\ Says = "waiting" /\ part \notin Forever)
      ~> (Says # "waiting" \/ subject # s)

=============================================================================
