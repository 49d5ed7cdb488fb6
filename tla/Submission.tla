----------------------------- MODULE Submission -----------------------------
(***************************************************************************)
(* A sheet, a dialog or a page of the frontend that sends what was put in  *)
(* it once, and is done with when the backend has answered.                *)
(*                                                                         *)
(* They all work alike but for a few choices, which their answers, late or *)
(* lost, make matter.  Those of a form are its row in FormRows (those of   *)
(* the frontend are in Dialogs):                                           *)
(*   locked   it cannot be closed while it sends                           *)
(*   inside   what it sends with is its own: closed and opened again, it   *)
(*            does not know of what it was sending                         *)
(*   awaits   what follows the answer is run even if it was closed         *)
(*   waits    it cannot be opened again while it sends                     *)
(*   checks   it reads something first, and its button works meanwhile     *)
(*   adds     the backend records a content twice that it is sent twice    *)
(*   ends     how: at once, closed or cleared by the answer, or with the   *)
(*            page by the navigation the answer starts                     *)
(*   again    its button works until that page is left                     *)
(*   silent   it ends when sending fails too                               *)
(*                                                                         *)
(* A content is all that is put in the form between two sendings; bounds:  *)
(* MaxContents of them, MaxOpenings openings, MaxSendings at a time.       *)
(***************************************************************************)
EXTENDS Naturals

CONSTANTS FormRows, MaxContents, MaxOpenings, MaxSendings

Rows ==
  [locked : BOOLEAN, inside : BOOLEAN, awaits : BOOLEAN, waits : BOOLEAN,
   checks : BOOLEAN, adds : BOOLEAN, again : BOOLEAN, silent : BOOLEAN,
   ends : {"at once", "closed", "cleared", "left"}]

ASSUME FormsAssumption == \A f \in DOMAIN FormRows : FormRows[f] \in Rows

(* A dialog that holds its user until the answer is not a page; a form     *)
(* that leaves the application does whatever became of it.                 *)
ASSUME HoldingAssumption ==
  \A f \in DOMAIN FormRows :
    LET row == FormRows[f] IN
      /\ row.locked \/ row.waits
           => ~row.checks /\ row.ends \in {"closed", "cleared"}
      /\ row.ends = "left" /\ ~row.again => row.awaits

ASSUME MaxContentsAssumption == MaxContents \in Nat
ASSUME MaxOpeningsAssumption == MaxOpenings \in Nat
ASSUME MaxSendingsAssumption == MaxSendings \in Nat

VARIABLES
  form,      \* the form, one of FormRows
  visible,   \* it is open
  opening,   \* the last one, counted from 1
  content,   \* what is put in it, 0 for nothing yet
  contents,  \* how many there were
  sendings,  \* not answered yet, and at: "checking", "sent", "recorded"
  recorded,  \* how many times the backend has each content: 0, 1, more
  unsure,    \* the contents whose sending failed though it was recorded
  leaving,   \* the opening the answer of which leaves the page, or 0
  endedBy    \* the opening the answer of which ended this one, or 0

submissionVars == <<form, visible, opening, content, contents, sendings,
                    recorded, unsure, leaving, endedBy>>

Inputs == 1..MaxContents
Openings == 1..MaxOpenings
Row == FormRows[form]
Sendings == [nth : 1..MaxSendings, opening : Openings, content : Inputs,
             at : {"checking", "sent", "recorded"}]

SubmissionInit ==
  /\ form \in DOMAIN FormRows
  /\ visible = FALSE /\ opening = 0 /\ content = 0 /\ contents = 0
  /\ sendings = {} /\ recorded = [c \in Inputs |-> 0] /\ unsure = {}
  /\ leaving = 0 /\ endedBy = 0

-----------------------------------------------------------------------------
(* Mutant: the button does not wait.                                       *)
NeverSending == FALSE

(* `isPending`, as the form shown sees it.                                 *)
Sending ==
  \E s \in sendings :
    s.at # "checking" /\ (Row.inside => s.opening = opening)

OpenForm ==
  /\ ~visible /\ opening < MaxOpenings
  /\ Row.waits => ~Sending
  /\ visible' = TRUE /\ opening' = opening + 1 /\ content' = 0 /\ endedBy' = 0
  /\ leaving' = IF Row.again THEN 0 ELSE leaving
  /\ UNCHANGED <<form, contents, sendings, recorded, unsure>>

(* Input, also while an earlier one is being sent.                         *)
PutIn ==
  /\ visible /\ contents < MaxContents
  /\ contents' = contents + 1 /\ content' = contents + 1
  /\ UNCHANGED <<form, visible, opening, sendings, recorded, unsure, leaving,
                 endedBy>>

Submit ==
  /\ visible /\ content # 0 /\ ~Sending
  /\ leaving # 0 => Row.again
  /\ \E n \in 1..MaxSendings :
       /\ \A s \in sendings : s.nth # n
       /\ sendings' = sendings \cup
            {[nth |-> n, opening |-> opening, content |-> content,
              at |-> IF Row.checks THEN "checking" ELSE "sent"]}
  /\ IF Row.ends = "at once" THEN visible' = FALSE /\ content' = 0
     ELSE UNCHANGED <<visible, content>>
  /\ UNCHANGED <<form, opening, contents, recorded, unsure, leaving, endedBy>>

(* The user closes it, or goes to another page: in the application, that   *)
(* replaces a navigation under way.                                        *)
CloseForm ==
  /\ visible /\ ~(Row.locked /\ Sending)
  /\ visible' = FALSE /\ content' = 0
  /\ leaving' = IF Row.again THEN 0 ELSE leaving
  /\ UNCHANGED <<form, opening, contents, sendings, recorded, unsure, endedBy>>

-----------------------------------------------------------------------------
(* What was read first lets it be sent, or the user gives up.              *)
CheckFirst(s) ==
  /\ s.at = "checking"
  /\ \/ sendings' = (sendings \ {s}) \cup {[s EXCEPT !.at = "sent"]}
     \/ sendings' = sendings \ {s}
  /\ UNCHANGED <<form, visible, opening, content, contents, recorded, unsure,
                 leaving, endedBy>>

Record(s) ==
  /\ s.at = "sent"
  /\ sendings' = (sendings \ {s}) \cup {[s EXCEPT !.at = "recorded"]}
  /\ recorded' = [recorded EXCEPT ![s.content] =
                    IF @ = 0 THEN 1 ELSE IF Row.adds THEN 2 ELSE @]
  /\ UNCHANGED <<form, visible, opening, content, contents, unsure, leaving,
                 endedBy>>

(* Mutant: what follows the answer is always run.                          *)
HeardAnyway(s) == TRUE

(* Whether what follows the end of a sending is run.                       *)
Heard(s) == Row.awaits \/ ~Row.inside \/ (visible /\ opening = s.opening)

(* What ends the form is told to whatever is shown in its place.           *)
EndForm(s) ==
  CASE Row.ends = "left" ->
         leaving' = s.opening /\ UNCHANGED <<visible, content, endedBy>>
    [] Row.ends = "cleared" ->
         /\ content' = 0 /\ endedBy' = IF visible THEN s.opening ELSE endedBy
         /\ UNCHANGED <<visible, leaving>>
    [] Row.ends = "closed" ->
         /\ visible' = FALSE /\ content' = 0
         /\ endedBy' = IF visible THEN s.opening ELSE endedBy
         /\ UNCHANGED leaving
    [] Row.ends = "at once" -> UNCHANGED <<visible, content, leaving, endedBy>>

Answer(s) ==
  /\ s.at = "recorded" /\ sendings' = sendings \ {s}
  /\ IF Heard(s) THEN EndForm(s)
     ELSE UNCHANGED <<visible, content, leaving, endedBy>>
  /\ UNCHANGED <<form, opening, contents, recorded, unsure>>

(* It is refused, does not arrive, or its answer is lost.                  *)
FailSending(s) ==
  /\ s.at # "checking" /\ sendings' = sendings \ {s}
  /\ unsure' = IF s.at = "recorded" THEN unsure \cup {s.content} ELSE unsure
  /\ IF Row.silent /\ Heard(s) THEN EndForm(s)
     ELSE UNCHANGED <<visible, content, leaving, endedBy>>
  /\ UNCHANGED <<form, opening, contents, recorded>>

(* The next page is there, whatever this one shows by then.                *)
LeavePage ==
  /\ leaving # 0 /\ leaving' = 0
  /\ visible' = FALSE /\ content' = 0
  /\ endedBy' = IF visible THEN leaving ELSE endedBy
  /\ UNCHANGED <<form, opening, contents, sendings, recorded, unsure>>

SubmissionNext ==
  \/ OpenForm \/ PutIn \/ Submit \/ CloseForm \/ LeavePage
  \/ \E s \in sendings :
       CheckFirst(s) \/ Record(s) \/ Answer(s) \/ FailSending(s)

SubmissionSpec == SubmissionInit /\ [][SubmissionNext]_submissionVars

-----------------------------------------------------------------------------
SubmissionTypeOK ==
  /\ form \in DOMAIN FormRows
  /\ visible \in BOOLEAN /\ opening \in 0..MaxOpenings
  /\ contents \in 0..MaxContents /\ content \in 0..contents
  /\ sendings \subseteq Sendings
  /\ recorded \in [Inputs -> 0..2] /\ unsure \subseteq Inputs
  /\ leaving \in 0..MaxOpenings /\ endedBy \in 0..MaxOpenings
  /\ visible => opening # 0

(* The forms that may send a content again although its first sending is   *)
(* well: while it is being checked, or while the page is being left.       *)
SendsAgain == Row.checks \/ Row.again

(* A content is recorded once whatever the clicks, the closings and the    *)
(* failures, unless an answer was lost; the forms that send again rely on  *)
(* the backend for it.                                                     *)
RecordedOnce ==
  \A c \in Inputs :
    recorded[c] > 1 => c \in unsure \/ (Row.adds /\ SendsAgain)

(* The forms that may be opened again while their first answer, which they *)
(* will follow, is on its way.                                             *)
HearsLate == ~Row.locked /\ ~Row.waits /\ (Row.awaits \/ ~Row.inside)

(* A form is ended by its own answer, never by that of an earlier opening, *)
(* which would lose what has been put in it since; but for those above.    *)
EndedByItsOwn == endedBy \in {0, opening} \/ HearsLate
=============================================================================
