---------------------------- MODULE SettingsForm ----------------------------
(***************************************************************************)
(* The forms that stay open over data that is read again under them        *)
(* (components/form/resetKeepingEdits.ts): the settings of the shop, its   *)
(* invoices and its messages, the profile, the identity of the public      *)
(* page.  Whoever fills such a form must lose none of it, although the     *)
(* data is read again while it is typed, while it is being saved and when  *)
(* it has been saved, another device changing it too.                      *)
(*                                                                         *)
(* A value stands for the content of a field: 0 and 1 are stored as typed, *)
(* 2 is stored as 1, the backend trimming and normalising what it is sent. *)
(*                                                                         *)
(* Bound: MaxOthers changes made by other devices.                         *)
(***************************************************************************)
EXTENDS Integers, FiniteSets

CONSTANTS Fields, MaxOthers

ASSUME FieldsAssumption == IsFiniteSet(Fields) /\ Fields # {}
ASSUME MaxOthersAssumption == MaxOthers \in Nat

Contents == 0..2
Stored(v) == IF v = 2 THEN 1 ELSE v
Kept(vs) == [f \in Fields |-> Stored(vs[f])]

VARIABLES
  followed,  \* the form follows the data (all of them but the messages)
  row,       \* what the backend stores
  cached,    \* what the cache of queries has of it
  base,      \* what the form compares the fields with to say they are edited
  typed,     \* what the fields show
  wanted,    \* the last edit of a field, neither saved nor given up; or None
  saving,    \* the save under way, if any
  sent,      \* the values it sent
  answer,    \* and those it was answered
  reading,   \* a reading under way: none, asked of, or read in, the backend
  read,      \* what it has read
  others     \* changes made by other devices

formVars == <<followed, row, cached, base, typed, wanted, saving, sent, answer,
              reading, read, others>>

Blank == [f \in Fields |-> 0]
None == -1
Nothing == [f \in Fields |-> None]

FormInit ==
  /\ followed \in BOOLEAN
  /\ row = Blank /\ cached = Blank /\ base = Blank /\ typed = Blank
  /\ wanted = Nothing /\ saving = "none" /\ sent = Blank /\ answer = Blank
  /\ reading = "none" /\ read = Blank /\ others = 0

-----------------------------------------------------------------------------
Dirty == {f \in Fields : typed[f] # base[f]}

(* `resetKeepingEdits`: the form takes the values of the backend, except   *)
(* the fields `kept`, which keep what is typed.                            *)
ResetKeeping(kept, next) ==
  /\ base' = next
  /\ typed' = [f \in Fields |-> IF f \in kept THEN typed[f] ELSE next[f]]

(* The fields stay open during a save.  A field back at what the form took *)
(* from the backend is no longer an edit.                                  *)
TypeField(f, v) ==
  /\ v # typed[f]
  /\ typed' = [typed EXCEPT ![f] = v]
  /\ wanted' = [wanted EXCEPT ![f] = IF v = base[f] THEN None ELSE v]
  /\ UNCHANGED <<followed, row, cached, base, saving, sent, answer, reading,
                 read, others>>

(* "Annuler": back to the data.  The bar of the settings shuts it during a *)
(* save, the card of the public page does not; the others leave the page.  *)
CancelForm ==
  /\ followed /\ Dirty # {}
  /\ base' = cached /\ typed' = cached /\ wanted' = Nothing
  /\ UNCHANGED <<followed, row, cached, saving, sent, answer, reading, read,
                 others>>

(* All the fields are sent, the edited ones and the others.                *)
SubmitForm ==
  /\ saving = "none" /\ Dirty # {}
  /\ saving' = "sent" /\ sent' = typed
  /\ UNCHANGED <<followed, row, cached, base, typed, wanted, answer, reading,
                 read, others>>

(* The backend stores them all.                                            *)
StoreForm ==
  /\ saving = "sent"
  /\ row' = Kept(sent)
  /\ saving' = "stored" /\ answer' = Kept(sent)
  /\ UNCHANGED <<followed, cached, base, typed, wanted, sent, reading, read,
                 others>>

(* It refuses them, or its answer is lost: the form is left as it is.      *)
FailSave ==
  /\ saving \in {"sent", "stored"}
  /\ saving' = "none" /\ sent' = Blank /\ answer' = Blank
  /\ UNCHANGED <<followed, row, cached, base, typed, wanted, reading, read,
                 others>>

(* The answer arrives: the data is read again before the form knows        *)
(* (`onSuccess` returns the reading); the messages have the answer put in  *)
(* the cache first.                                                        *)
AnswerSave ==
  /\ saving = "stored"
  /\ saving' = "reading" /\ reading' = "asked" /\ read' = Blank
  /\ cached' = IF followed THEN cached ELSE answer
  /\ UNCHANGED <<followed, row, base, typed, wanted, sent, answer, others>>

(* Mutant: the form takes the answer whatever was typed since.             *)
FinishSaveOver ==
  /\ saving = "reading" /\ reading = "none"
  /\ ResetKeeping({}, answer)
  /\ wanted' = [f \in Fields |-> IF wanted[f] \in {sent[f], answer[f]}
                                 THEN None ELSE wanted[f]]
  /\ saving' = "none" /\ sent' = Blank /\ answer' = Blank
  /\ UNCHANGED <<followed, row, cached, reading, read, others>>

(* The data has been read again, or could not be: the form takes the       *)
(* answer, except for what was typed since it was sent.                    *)
FinishSave ==
  LET since == {f \in Fields : typed[f] # sent[f]} IN
  /\ saving = "reading" /\ reading = "none"
  /\ ResetKeeping(since, answer)
  /\ wanted' = [f \in Fields |-> IF wanted[f] \in {sent[f], answer[f]}
                                 THEN None ELSE wanted[f]]
  /\ saving' = "none" /\ sent' = Blank /\ answer' = Blank
  /\ UNCHANGED <<followed, row, cached, reading, read, others>>

(* The connection comes back, or another screen has the data read again.   *)
AskForm ==
  /\ reading = "none" /\ saving # "reading"
  /\ reading' = "asked"
  /\ UNCHANGED <<followed, row, cached, base, typed, wanted, saving, sent,
                 answer, read, others>>

ReadForm ==
  /\ reading = "asked"
  /\ reading' = "read" /\ read' = row
  /\ UNCHANGED <<followed, row, cached, base, typed, wanted, saving, sent,
                 answer, others>>

(* New data runs the effect of the form: the fields not edited take it.    *)
ArriveForm ==
  /\ reading = "read"
  /\ reading' = "none" /\ read' = Blank /\ cached' = read
  /\ IF followed /\ read # cached
       THEN /\ ResetKeeping(Dirty, read)
            /\ wanted' = [f \in Fields |->
                            IF wanted[f] = read[f] THEN None ELSE wanted[f]]
       ELSE UNCHANGED <<base, typed, wanted>>
  /\ UNCHANGED <<followed, row, saving, sent, answer, others>>

FailReading ==
  /\ reading # "none"
  /\ reading' = "none" /\ read' = Blank
  /\ UNCHANGED <<followed, row, cached, base, typed, wanted, saving, sent,
                 answer, others>>

OtherDevice(f, v) ==
  /\ others < MaxOthers /\ others' = others + 1
  /\ row[f] # v /\ row' = [row EXCEPT ![f] = v]
  /\ UNCHANGED <<followed, cached, base, typed, wanted, saving, sent, answer,
                 reading, read>>

-----------------------------------------------------------------------------
FormNext ==
  \/ \E f \in Fields, v \in Contents : TypeField(f, v)
  \/ CancelForm \/ SubmitForm \/ StoreForm \/ FailSave \/ AnswerSave
  \/ FinishSave \/ AskForm \/ ReadForm \/ ArriveForm \/ FailReading
  \/ \E f \in Fields, v \in {0, 1} : OtherDevice(f, v)

FormSpec == FormInit /\ [][FormNext]_formVars

-----------------------------------------------------------------------------
FormTypeOK ==
  /\ followed \in BOOLEAN
  /\ {row, cached, base, answer, read} \subseteq [Fields -> {0, 1}]
  /\ {typed, sent} \subseteq [Fields -> Contents]
  /\ wanted \in [Fields -> Contents \cup {None}]
  /\ saving \in {"none", "sent", "stored", "reading"}
  /\ reading \in {"none", "asked", "read"}
  /\ others \in 0..MaxOthers

(* What has been typed in a field, and neither saved nor given up, is what *)
(* the field shows: neither a reading, nor an answer, nor a save that      *)
(* fails takes it away.  A field put back at what the form has of the      *)
(* backend is not an edit, even while another content of it is being saved.*)
TypedIsKept == \A f \in Fields : wanted[f] # None => typed[f] = wanted[f]
=============================================================================
