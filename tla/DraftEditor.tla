---------------------------- MODULE DraftEditor ----------------------------
(***************************************************************************)
(* The invoice editor (components/invoices/editor): what the user types is *)
(* saved by itself, 800 ms after the last key, into a draft that other     *)
(* tabs and devices may edit too.  Saves are chained; each carries the     *)
(* version it started from and is refused when the draft has another.      *)
(* Issuing and deleting first save what is waiting.                        *)
(*                                                                         *)
(* An editor is one open page (a tab, a device).  What it shows is one     *)
(* content: 0 is the blank form, every key typed makes a new one.  The     *)
(* backend's handlers are single steps here; InvoiceNumbering opens them.  *)
(*                                                                         *)
(* Bounds: Docs drafts, MaxTyped inputs, each editor opened once.          *)
(***************************************************************************)
EXTENDS Naturals, Sequences

CONSTANTS
  Editors,
  Fresh,     \* the editors opened on a new invoice
  Docs, MaxTyped

ASSUME DraftEditorAssumption ==
  Fresh \subseteq Editors /\ Docs \in Nat \ {0} /\ MaxTyped \in Nat

VARIABLES
  doc,      \* each draft of the backend: status and every version stored
  ed,       \* each editor page
  keys,     \* how many inputs have been typed
  screens,  \* what each editor has ever shown
  created,  \* how many drafts each opening of a blank form has created
  unheard   \* an answer of the backend was lost

editorVars == <<doc, ed, keys, screens, created, unheard>>

Forms == 0..MaxTyped
DocIds == 1..Docs

(* What is queued behind the save that runs: a save of its own, or the     *)
(* issuing or the deletion that waits for it.                              *)
Tags == {"save", "issue", "delete"}

NoAnswer == [id |-> 0, version |-> 0]

Closed == [place |-> "closed", id |-> 0, version |-> 0, form |-> 0,
           dirty |-> FALSE, status |-> "idle", timer |-> FALSE,
           chain |-> <<>>, call |-> "none", carried |-> 0,
           answer |-> NoAnswer, step |-> "none"]

Statuses == {"idle", "pending", "saving", "saved", "error", "conflict"}
Calls == {"none", "sent", "ok"}
Steps == {"none", "flushing", "checking", "shown", "issuing", "removing"}

EditorInit ==
  /\ doc = [d \in DocIds |-> [status |-> "none", stored |-> <<>>]]
  /\ ed = [e \in Editors |->
       IF e \in Fresh THEN [Closed EXCEPT !.place = "open"] ELSE Closed]
  /\ keys = 0
  /\ screens = [e \in Editors |-> IF e \in Fresh THEN {0} ELSE {}]
  /\ created = [e \in Editors |-> 0]
  /\ unheard = FALSE

Version(d) == Len(doc[d].stored)
Set(e, r) == ed' = [ed EXCEPT ![e] = r]

-----------------------------------------------------------------------------
(* Opening and typing *)

(* A draft is opened.  The copy may be one this browser cached a minute    *)
(* ago: that is the same as having opened it then and typed nothing since. *)
Open(e) ==
  /\ ed[e].place = "closed"
  /\ \E d \in DocIds :
       LET content == doc[d].stored[Version(d)].content IN
       /\ doc[d].status = "draft"
       /\ Set(e, [Closed EXCEPT !.place = "open", !.id = d,
                                !.version = Version(d), !.form = content])
       /\ screens' = [screens EXCEPT ![e] = @ \cup {content}]
  /\ UNCHANGED <<doc, keys, created, unheard>>

(* The fields are disabled by a conflict and hidden by a sheet.            *)
Modal(e) == ed[e].step \notin {"none", "flushing", "checking"}
            \/ \E i \in DOMAIN ed[e].chain : ed[e].chain[i] = "delete"

(* Mutant: a key typed during a save arms no timer.                        *)
TypeWhileSaving(e) ==
  /\ ed[e].place = "open" /\ ed[e].status # "conflict" /\ ~Modal(e)
  /\ keys < MaxTyped
  /\ keys' = keys + 1
  /\ Set(e, [ed[e] EXCEPT !.form = keys + 1, !.dirty = TRUE,
                          !.timer = @ \/ ed[e].status # "saving",
                          !.status = IF @ = "saving" THEN @ ELSE "pending"])
  /\ screens' = [screens EXCEPT ![e] = @ \cup {keys + 1}]
  /\ UNCHANGED <<doc, created, unheard>>

(* A key is typed: `schedule` (the timer is armed again).                  *)
Type(e) ==
  /\ ed[e].place = "open" /\ ed[e].status # "conflict" /\ ~Modal(e)
  /\ keys < MaxTyped
  /\ keys' = keys + 1
  /\ Set(e, [ed[e] EXCEPT !.form = keys + 1, !.dirty = TRUE, !.timer = TRUE,
                          !.status = IF @ = "saving" THEN @ ELSE "pending"])
  /\ screens' = [screens EXCEPT ![e] = @ \cup {keys + 1}]
  /\ UNCHANGED <<doc, created, unheard>>

-----------------------------------------------------------------------------
(* Saving *)

(* `flush`: the timer is cleared and a save is chained.                    *)
Flushed(r, tag) ==
  [r EXCEPT !.timer = FALSE, !.chain = Append(@, tag),
            !.step = IF tag \in {"issue", "delete"} THEN "flushing" ELSE @]

TimerFires(e) ==
  /\ ed[e].timer
  /\ Set(e, Flushed(ed[e], "save"))
  /\ UNCHANGED <<doc, keys, screens, created, unheard>>

(* What waited for the save goes on: with a draft, the check before        *)
(* issuing or the removal; without one (`null`) nothing but the removal.   *)
Finish(r, saved) ==
  [r EXCEPT !.chain = Tail(@), !.call = "none",
            !.carried = 0, !.answer = NoAnswer,
            !.step = IF Head(r.chain) = "issue"
                       THEN IF saved THEN "checking" ELSE "none"
                     ELSE IF Head(r.chain) = "delete" THEN "removing" ELSE @]

(* `persist`, at the head of the chain: nothing after a conflict, nothing  *)
(* to save, or a request with what the form holds now.                     *)
Persist(e) ==
  LET r == ed[e] IN
  /\ r.chain # <<>> /\ r.call = "none"
  /\ \/ r.status = "conflict" /\ Set(e, Finish(r, FALSE))
     \/ /\ r.status # "conflict" /\ ~r.dirty /\ r.id # 0
        /\ Set(e, Finish(r, TRUE))
     \/ /\ r.status # "conflict" /\ (r.dirty \/ r.id = 0)
        /\ Set(e, [r EXCEPT !.dirty = FALSE, !.status = "saving",
                            !.call = "sent", !.carried = r.form])
  /\ UNCHANGED <<doc, keys, screens, created, unheard>>

(* The backend creates the draft.                                          *)
Create(e) ==
  /\ ed[e].call = "sent" /\ ed[e].id = 0
  /\ \E d \in DocIds :
       /\ doc[d].status = "none"
       /\ \A x \in 1..(d - 1) : doc[x].status # "none"
       /\ doc' = [doc EXCEPT ![d] =
            [status |-> "draft",
             stored |-> <<[content |-> ed[e].carried, by |-> e]>>]]
       /\ Set(e, [ed[e] EXCEPT !.call = "ok",
                               !.answer = [id |-> d, version |-> 1]])
  /\ created' = [created EXCEPT ![e] = @ + 1]
  /\ UNCHANGED <<keys, screens, unheard>>

(* Mutant: the version is not compared.                                    *)
AnyVersionHere(e) == TRUE

(* The version the editor read is still the one stored.                    *)
Current(e) == ed[e].version = Version(ed[e].id)

(* The backend saves the draft.                                            *)
Save(e) ==
  /\ ed[e].call = "sent" /\ ed[e].id # 0
  /\ LET d == ed[e].id IN
       /\ doc[d].status = "draft" /\ Current(e)
       /\ doc' = [doc EXCEPT ![d].stored =
                    Append(@, [content |-> ed[e].carried, by |-> e])]
       /\ Set(e, [ed[e] EXCEPT !.call = "ok",
                   !.answer = [id |-> d, version |-> Version(d) + 1]])
  /\ UNCHANGED <<keys, screens, created, unheard>>

(* Mutant: an answer that comes after a key was typed is not kept.         *)
SaveAnsweredNameless(e) ==
  /\ ed[e].call = "ok"
  /\ Set(e, IF ed[e].dirty
              THEN Finish([ed[e] EXCEPT !.status = "pending"], FALSE)
              ELSE Finish([ed[e] EXCEPT !.status = "saved",
                             !.id = ed[e].answer.id,
                             !.version = ed[e].answer.version], TRUE))
  /\ UNCHANGED <<doc, keys, screens, created, unheard>>

(* The answer to a save arrives: the draft's identity and its version.     *)
SaveAnswered(e) ==
  /\ ed[e].call = "ok"
  /\ Set(e, Finish([ed[e] EXCEPT
       !.id = ed[e].answer.id, !.version = ed[e].answer.version,
       !.status = IF ed[e].dirty THEN "pending" ELSE "saved"], TRUE))
  /\ UNCHANGED <<doc, keys, screens, created, unheard>>

(* The backend refuses: the draft was modified elsewhere, which stops the  *)
(* saves; it has been issued, and the invoice is opened instead; it is     *)
(* gone.  What was typed stays to be saved.                                *)
Refused(e) ==
  /\ ed[e].call = "sent" /\ ed[e].id # 0
  /\ LET d == ed[e].id
         r == [ed[e] EXCEPT !.dirty = TRUE] IN
       \/ /\ doc[d].status = "draft" /\ ~Current(e)
          /\ Set(e, Finish([r EXCEPT !.status = "conflict"], FALSE))
       \/ /\ doc[d].status = "issued"
          /\ Set(e, Finish([r EXCEPT !.status = "saved", !.place = "left"],
                           FALSE))
       \/ /\ doc[d].status = "deleted"
          /\ Set(e, Finish([r EXCEPT !.status = "error"], FALSE))
  /\ UNCHANGED <<doc, keys, screens, created, unheard>>

(* The request did not reach the backend, or its answer was lost.          *)
Unreachable(e) ==
  /\ ed[e].call # "none"
  /\ Set(e, Finish([ed[e] EXCEPT !.dirty = TRUE, !.status = "error"], FALSE))
  /\ unheard' = (unheard \/ ed[e].call = "ok")
  /\ UNCHANGED <<doc, keys, screens, created>>

(* After a conflict the draft is read again; what was typed is dropped.    *)
ReloadDraft(e) ==
  /\ ed[e].place = "open" /\ ed[e].status = "conflict"
  /\ LET d == ed[e].id IN
       /\ doc[d].status # "deleted"
       /\ Set(e, [ed[e] EXCEPT
            !.version = Version(d), !.dirty = FALSE, !.status = "saved",
            !.form = doc[d].stored[Version(d)].content])
       /\ screens' = [screens EXCEPT
            ![e] = @ \cup {doc[d].stored[Version(d)].content}]
  /\ UNCHANGED <<doc, keys, created, unheard>>

-----------------------------------------------------------------------------
(* Issuing, deleting, leaving *)

(* "Issue" and "Delete" save what waits, then go on (Finish).              *)
Begin(e, tag) ==
  /\ ed[e].place = "open" /\ ed[e].step = "none"
  /\ IF tag = "issue" THEN ed[e].status # "conflict" ELSE ed[e].id # 0
  /\ Set(e, Flushed(ed[e], tag))
  /\ UNCHANGED <<doc, keys, screens, created, unheard>>

(* The check before issuing is read and its sheet opens, or it fails.      *)
Check(e) ==
  /\ ed[e].step = "checking"
  /\ \/ /\ doc[ed[e].id].status = "draft" /\ ed[e].place = "open"
        /\ Set(e, [ed[e] EXCEPT !.step = "shown"])
     \/ Set(e, [ed[e] EXCEPT !.step = "none"])
  /\ UNCHANGED <<doc, keys, screens, created, unheard>>

(* The sheet is closed, perhaps to complete something, or the issuing is   *)
(* confirmed.                                                              *)
CloseSheet(e) ==
  /\ ed[e].step = "shown"
  /\ \/ Set(e, [ed[e] EXCEPT !.step = "none"])
     \/ Set(e, [ed[e] EXCEPT !.step = "issuing"])
  /\ UNCHANGED <<doc, keys, screens, created, unheard>>

(* The backend issues the draft as it is stored and the invoice is opened, *)
(* unless the answer is lost; it was issued already; or something else     *)
(* has to be completed: the sheet stays.                                   *)
Issue(e) ==
  /\ ed[e].step = "issuing"
  /\ LET d == ed[e].id
         away == [ed[e] EXCEPT !.place = "left", !.step = "none"]
         back == [ed[e] EXCEPT !.step = "shown"] IN
       \/ /\ doc[d].status = "draft"
          /\ doc' = [doc EXCEPT ![d].status = "issued"]
          /\ Set(e, away) \/ Set(e, back)
       \/ doc[d].status = "issued" /\ Set(e, away) /\ UNCHANGED doc
       \/ Set(e, back) /\ UNCHANGED doc
  /\ UNCHANGED <<keys, screens, created, unheard>>

(* The backend deletes the draft and the list is opened, unless the answer *)
(* is lost; or it refuses: the draft has been issued.                      *)
RemoveDraft(e) ==
  /\ ed[e].step = "removing"
  /\ LET d == ed[e].id
         here == [ed[e] EXCEPT !.step = "none"] IN
       \/ /\ doc[d].status = "draft"
          /\ doc' = [doc EXCEPT ![d].status = "deleted"]
          /\ Set(e, [here EXCEPT !.place = "left"]) \/ Set(e, here)
       \/ Set(e, here) /\ UNCHANGED doc
  /\ UNCHANGED <<keys, screens, created, unheard>>

(* Leaving by a link: what waits is saved without asking; the user is      *)
(* asked only when the last save failed.                                   *)
Leave(e) ==
  /\ ed[e].place = "open" /\ ~Modal(e)
  /\ LET r == [ed[e] EXCEPT !.place = "left", !.step = "none"] IN
       IF r.status = "pending" THEN Set(e, Flushed(r, "save")) ELSE Set(e, r)
  /\ UNCHANGED <<doc, keys, screens, created, unheard>>

(* Nothing of the editor is left running.  It is not opened again.         *)
Forget(e) ==
  /\ ed[e].place = "left" /\ ~ed[e].timer /\ ed[e].chain = <<>>
  /\ Set(e, [Closed EXCEPT !.place = "done"])
  /\ UNCHANGED <<doc, keys, screens, created, unheard>>

-----------------------------------------------------------------------------
(* What runs by itself once begun.                                         *)
Respond(e) ==
  Create(e) \/ Save(e) \/ SaveAnswered(e) \/ Refused(e) \/ Unreachable(e)

EditorNext ==
  \E e \in Editors :
    \/ Open(e) \/ Type(e) \/ TimerFires(e) \/ Persist(e)
    \/ Respond(e) \/ ReloadDraft(e)
    \/ \E tag \in {"issue", "delete"} : Begin(e, tag)
    \/ Check(e) \/ CloseSheet(e) \/ Issue(e) \/ RemoveDraft(e)
    \/ Leave(e) \/ Forget(e)

(* Timers fire, chained saves run and a request ends, answered or not.     *)
EditorFairness ==
  \A e \in Editors :
    /\ WF_editorVars(TimerFires(e)) /\ WF_editorVars(Persist(e))
    /\ WF_editorVars(Respond(e))

EditorSpec == EditorInit /\ [][EditorNext]_editorVars /\ EditorFairness

-----------------------------------------------------------------------------
EditorTypeOK ==
  /\ doc \in [DocIds -> [status : {"none", "draft", "issued", "deleted"},
                         stored : Seq([content : Forms, by : Editors])]]
  /\ ed \in [Editors ->
       [place : {"closed", "open", "left", "done"}, id : 0..Docs,
        version : Nat,
        form : Forms, dirty : BOOLEAN, status : Statuses, timer : BOOLEAN,
        chain : Seq(Tags), call : Calls, carried : Forms,
        answer : [id : 0..Docs, version : Nat], step : Steps]]
  /\ keys \in Forms
  /\ screens \in [Editors -> SUBSET Forms]
  /\ created \in [Editors -> Nat]
  /\ unheard \in BOOLEAN

(* No save replaces what its editor never showed: the version before the   *)
(* one an editor stored had been on its screen, so a change made on        *)
(* another device is never overwritten unseen.                             *)
NoSilentOverwrite ==
  \A d \in DocIds : \A v \in DOMAIN doc[d].stored :
    v > 1 => doc[d].stored[v - 1].content \in screens[doc[d].stored[v].by]

(* A blank form creates one draft, however its saves, its "Issue" and its  *)
(* leaving overlap: once one is created no other is asked for, unless the  *)
(* answer to the creation was lost.                                        *)
OneDraft ==
  \A e \in Editors :
    ed[e].call = "sent" /\ ed[e].id = 0 /\ created[e] > 0 => unheard

(* What waits to be saved is saved, or the editor says why not, even when  *)
(* the page is left while a save runs.                                     *)
InputSettles ==
  \A e \in Editors :
    ed[e].status = "pending" ~> ed[e].status \in {"saved", "error", "conflict"}
=============================================================================
