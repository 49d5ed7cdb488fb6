---------------------------- MODULE ZakatAutosave ----------------------------
(***************************************************************************)
(* The sheet of a zakat calculation saves itself while it is filled        *)
(* (components/zakat/wizard/useZakatAutosave.ts): edits are shown at once, *)
(* merged, sent one request at a time after a pause, under the version of  *)
(* the sheet the cache has.  Whoever fills it changes step, asks again     *)
(* after a failure, and another device may edit the same sheet.            *)
(*                                                                         *)
(* An amount is the number of the edit that typed it: the later, the       *)
(* greater.                                                                *)
(*                                                                         *)
(* Bounds: MaxAmount edits, MaxElsewhere edits by another device.          *)
(***************************************************************************)
EXTENDS PendingEdits, Naturals, FiniteSets

CONSTANTS Amounts, MaxAmount, MaxElsewhere

ASSUME AmountsAssumption == IsFiniteSet(Amounts) /\ Amounts # {}
ASSUME MaxAmountAssumption == MaxAmount \in Nat /\ MaxElsewhere \in Nat

VARIABLES
  sheet,      \* the sheet of the backend: amounts and version
  page,       \* the sheet of the cache, which the page shows
  pending,    \* edits not sent yet: a function of some of the amounts
  timer,      \* the pause after an edit is running
  flush,      \* what each call of `flush` is at
  request,    \* the request under way
  reload,     \* the reading after a conflict or a refusal
  refresh,    \* a reading in the background, and what it has read
  status,     \* "saved", "saving" or "error", as the page says
  edits,      \* edits made
  latest,       \* the last edit of each amount that nobody has undone
  elsewhere,  \* edits made by the other device
  excused,    \* a conflict may be of this page: an answer was lost, or an
              \* older sheet read in the background came after a save
  conflicted  \* this page was told of a conflict that nobody else caused

zakatVars == <<sheet, page, pending, timer, flush, request, reload, refresh,
               status, edits, latest, elsewhere, excused, conflicted>>

(* The timer may call again while its last call waits.                     *)
Callers == {"timer", "timer again", "step"}

Sheet == [amounts : [Amounts -> 0..MaxAmount], version : Nat]
NewSheet == [amounts |-> [a \in Amounts |-> 0], version |-> 1]
NoRequest == [state |-> "none", changes |-> NoEdit, version |-> 0,
              answer |-> NewSheet]
NoRefresh == [state |-> "none", sheet |-> NewSheet]

ZakatInit ==
  /\ sheet = NewSheet /\ page = NewSheet
  /\ pending = NoEdit /\ timer = FALSE
  /\ flush = [c \in Callers |-> "idle"]
  /\ request = NoRequest /\ reload = "none" /\ refresh = NoRefresh
  /\ status = "saved" /\ edits = 0 /\ latest = NewSheet.amounts
  /\ elsewhere = 0 /\ excused = FALSE /\ conflicted = FALSE

-----------------------------------------------------------------------------
(* `apply`: the sheet with edits it does not have yet.                     *)
Applied(s, changes) ==
  [s EXCEPT !.amounts = Merged(s.amounts, changes)]

(* Mutant: an edit made during a request starts no pause.                  *)
EditAmountWhileSending(a) ==
  /\ edits < MaxAmount /\ edits' = edits + 1
  /\ latest' = [latest EXCEPT ![a] = edits']
  /\ page' = Applied(page, [x \in {a} |-> edits'])
  /\ pending' = Merged(pending, [x \in {a} |-> edits'])
  /\ status' = "saving" /\ timer' = (timer \/ request.state = "none")
  /\ UNCHANGED <<sheet, flush, request, reload, refresh, elsewhere,
                excused, conflicted>>

(* `save`: shown, kept, and sent after the pause.                          *)
EditAmount(a) ==
  /\ edits < MaxAmount /\ edits' = edits + 1
  /\ latest' = [latest EXCEPT ![a] = edits']
  /\ page' = Applied(page, [x \in {a} |-> edits'])
  /\ pending' = Merged(pending, [x \in {a} |-> edits'])
  /\ status' = "saving" /\ timer' = TRUE
  /\ UNCHANGED <<sheet, flush, request, reload, refresh, elsewhere,
                excused, conflicted>>

(* `flush` is called: when the pause ends, to change step or to try again. *)
(* It stops the timer, and waits for the request under way.                *)
CallFlush(c) ==
  /\ flush[c] = "idle"
  /\ c = "step" \/ timer
  /\ timer' = FALSE
  /\ flush' = [flush EXCEPT ![c] = "waiting"]
  /\ UNCHANGED <<sheet, page, pending, request, reload, refresh, status,
                 edits, latest, elsewhere, excused, conflicted>>

Busy == \E c \in Callers : flush[c] = "sending"

(* Nothing is under way any more: it sends what waits, if anything.        *)
Send(c) ==
  /\ flush[c] = "waiting" /\ ~Busy
  /\ IF pending = NoEdit
       THEN /\ flush' = [flush EXCEPT ![c] = "idle"]
            /\ UNCHANGED <<pending, request, status>>
       ELSE /\ flush' = [flush EXCEPT ![c] = "sending"]
            /\ request' = [state |-> "sent", changes |-> pending,
                           version |-> page.version, answer |-> NewSheet]
            /\ pending' = NoEdit /\ status' = "saving"
  /\ UNCHANGED <<sheet, page, timer, reload, refresh, edits, latest, elsewhere,
                excused, conflicted>>

-----------------------------------------------------------------------------
(* The backend writes the changes under the version they were made for.    *)
WriteSheet ==
  /\ request.state = "sent"
  /\ IF request.version = sheet.version
       THEN /\ sheet' = [Applied(sheet, request.changes)
                           EXCEPT !.version = sheet.version + 1]
            /\ request' = [request EXCEPT !.state = "written",
                                          !.answer = sheet']
       ELSE /\ request' = [request EXCEPT !.state = "conflict"]
            /\ UNCHANGED sheet
  /\ UNCHANGED <<page, pending, timer, flush, reload, refresh, status, edits,
                 latest, elsewhere, excused, conflicted>>

(* It refuses what it is sent.                                             *)
RefuseSheet ==
  /\ request.state = "sent"
  /\ request' = [request EXCEPT !.state = "refused"]
  /\ UNCHANGED <<sheet, page, pending, timer, flush, reload, refresh, status,
                 edits, latest, elsewhere, excused, conflicted>>

(* The call of `flush` that sent the request returns.                      *)
Return == flush' = [c \in Callers |->
                     IF flush[c] = "sending" THEN "idle" ELSE flush[c]]

(* Mutant: the version of the answer is not kept.                          *)
SavedKeepingVersion ==
  /\ request.state = "written"
  /\ page' = Applied([request.answer EXCEPT !.version = page.version],
                     pending)
  /\ status' = IF pending = NoEdit THEN "saved" ELSE "saving"
  /\ request' = NoRequest /\ Return
  /\ excused' = (\/ excused
                 \/ /\ refresh.state = "read"
                    /\ refresh.sheet.version < request.answer.version)
  /\ UNCHANGED <<sheet, pending, timer, reload, refresh, edits, latest,
                elsewhere, conflicted>>

(* Written: the answer is the sheet of the page, with what was typed since.*)
Saved ==
  /\ request.state = "written"
  /\ page' = Applied(request.answer, pending)
  /\ status' = IF pending = NoEdit THEN "saved" ELSE "saving"
  /\ request' = NoRequest /\ Return
  /\ excused' = (\/ excused
                 \/ /\ refresh.state = "read"
                    /\ refresh.sheet.version < request.answer.version)
  /\ UNCHANGED <<sheet, pending, timer, reload, refresh, edits, latest,
                elsewhere, conflicted>>

(* Mutant: what was sent does not wait for another try.                    *)
FailSheetForgetting ==
  /\ request.state \in {"sent", "written"}
  /\ pending' = pending
  /\ latest' = Merged(latest, pending')
  /\ status' = "error"
  /\ excused' = (excused \/ request.state = "written")
  /\ request' = NoRequest /\ Return
  /\ UNCHANGED <<sheet, page, timer, reload, refresh, edits, elsewhere,
                conflicted>>

(* No answer, or an error of the backend: what was sent waits for another  *)
(* try, under what was typed since.                                        *)
FailSheet ==
  /\ request.state \in {"sent", "written"}
  /\ pending' = Merged(request.changes, pending)
  /\ latest' = Merged(latest, pending')
  /\ status' = "error"
  /\ excused' = (excused \/ request.state = "written")
  /\ request' = NoRequest /\ Return
  /\ UNCHANGED <<sheet, page, timer, reload, refresh, edits, elsewhere,
                conflicted>>

(* A conflict or a refusal: what waits is given up, the sheet is read      *)
(* again, alone, and `flush` still waits for it.                           *)
GiveUp ==
  /\ request.state \in {"conflict", "refused"} /\ reload = "none"
  /\ pending' = NoEdit /\ reload' = "asked" /\ latest' = sheet.amounts
  /\ conflicted' = (\/ conflicted
                    \/ request.state = "conflict" /\ elsewhere = 0 /\ ~excused)
  /\ refresh' = NoRefresh
  /\ UNCHANGED <<sheet, page, timer, flush, request, status, edits,
                elsewhere, excused>>

(* The sheet is read again, or cannot be; the fields start from it.  What  *)
(* was typed during the reading is not shown any more, but waits.          *)
Reload ==
  /\ reload = "asked"
  /\ page' \in {sheet, page}
  /\ reload' = "none" /\ status' = "saved"
  /\ request' = NoRequest /\ Return
  /\ UNCHANGED <<sheet, pending, timer, refresh, edits, latest, elsewhere,
                excused, conflicted>>

-----------------------------------------------------------------------------
(* The sheet is read in the background, when the page opens on a sheet     *)
(* already known.                                                          *)
AskRefresh ==
  /\ edits = 0 /\ refresh.state = "none"
  /\ refresh' = [state |-> "asked", sheet |-> NewSheet]
  /\ UNCHANGED <<sheet, page, pending, timer, flush, request, reload, status,
                 edits, latest, elsewhere, excused, conflicted>>

ReadRefresh ==
  /\ refresh.state = "asked"
  /\ refresh' = [state |-> "read", sheet |-> sheet]
  /\ UNCHANGED <<sheet, page, pending, timer, flush, request, reload, status,
                 edits, latest, elsewhere, excused, conflicted>>

(* What it has read is the sheet of the page, whatever was saved since.    *)
ArriveRefresh ==
  /\ refresh.state = "read"
  /\ page' = refresh.sheet /\ refresh' = NoRefresh
  /\ UNCHANGED <<sheet, pending, timer, flush, request, reload, status, edits,
                 latest, elsewhere, excused, conflicted>>

OtherEdit(a) ==
  /\ elsewhere < MaxElsewhere /\ elsewhere' = elsewhere + 1
  /\ sheet' = [sheet EXCEPT !.amounts[a] = 0, !.version = @ + 1]
  /\ latest' = IF \/ a \in DOMAIN pending
                  \/ request.state = "sent" /\ a \in DOMAIN request.changes
                THEN latest ELSE [latest EXCEPT ![a] = 0]
  /\ UNCHANGED <<page, pending, timer, flush, request, reload, refresh,
                 status, edits, excused, conflicted>>

-----------------------------------------------------------------------------
ZakatNext ==
  \/ \E a \in Amounts : EditAmount(a) \/ OtherEdit(a)
  \/ \E c \in Callers : CallFlush(c) \/ Send(c)
  \/ WriteSheet \/ RefuseSheet \/ Saved \/ FailSheet \/ GiveUp \/ Reload
  \/ AskRefresh \/ ReadRefresh \/ ArriveRefresh

(* The pause ends, requests end one way or another; what failed is tried   *)
(* again only if the user asks.                                            *)
ZakatFairness ==
  /\ WF_zakatVars(CallFlush("timer") \/ CallFlush("timer again"))
  /\ \A c \in Callers : WF_zakatVars(Send(c))
  /\ WF_zakatVars(WriteSheet) /\ WF_zakatVars(Saved \/ FailSheet)
  /\ WF_zakatVars(GiveUp) /\ WF_zakatVars(Reload)

ZakatSpec == ZakatInit /\ [][ZakatNext]_zakatVars /\ ZakatFairness

-----------------------------------------------------------------------------
ZakatTypeOK ==
  /\ {sheet, page} \subseteq Sheet
  /\ \E X \in SUBSET Amounts : pending \in [X -> 1..MaxAmount]
  /\ timer \in BOOLEAN /\ excused \in BOOLEAN /\ conflicted \in BOOLEAN
  /\ flush \in [Callers -> {"idle", "waiting", "sending"}]
  /\ request.state \in {"none", "sent", "written", "conflict", "refused"}
  /\ reload \in {"none", "asked"}
  /\ refresh.state \in {"none", "asked", "read"} /\ refresh.sheet \in Sheet
  /\ status \in {"saved", "saving", "error"}
  /\ edits \in 0..MaxAmount /\ latest \in [Amounts -> 0..edits]
  /\ elsewhere \in 0..MaxElsewhere

(* Whoever fills the sheet alone is never told that it was changed         *)
(* elsewhere, which would throw away what was typed: the edits of a page   *)
(* do not meet each other.  A lost answer, and a reading in the background *)
(* that a save overtakes, are told as a conflict all the same.             *)
NoConflictAlone == ~conflicted

(* No edit is lost, nor comes back after a later one: when nothing waits   *)
(* and nothing is under way, the backend has the last edit of each amount, *)
(* whatever failed in between, unless a conflict or a refusal was told or  *)
(* the other device has edited it since.                                   *)
LastEditStored ==
  pending = NoEdit /\ request.state = "none" => sheet.amounts = latest

(* What is typed does not wait for ever unless the page says so.           *)
EditsSettle == pending # NoEdit ~> pending = NoEdit \/ status = "error"
=============================================================================
