--------------------------- MODULE InvoiceReading ---------------------------
(***************************************************************************)
(* A supplier's invoice read into the stock.                               *)
(*                                                                         *)
(* The page sends a photo; the backend stores it as a row to be read and   *)
(* leaves a message to the OCR workers; the page asks for the row until it *)
(* is read, shows its lines, and sends them back once checked: they enter  *)
(* the stock and the row is validated in the same transaction, under the   *)
(* lock of the row.  A message may be delivered twice, and is forgotten as *)
(* soon as a worker takes it: a worker that dies leaves its row as it is.  *)
(*                                                                         *)
(* Bounds: MaxPhotos photos, MaxEntries submissions, MaxTwice messages     *)
(* delivered twice, MaxLost photos a worker died on.                       *)
(***************************************************************************)
EXTENDS Naturals, Sequences, FiniteSets

CONSTANTS Readers, MaxPhotos, MaxEntries, MaxTwice, MaxLost

ASSUME ReadingAssumption ==
  /\ MaxPhotos \in Nat /\ MaxEntries \in Nat
  /\ MaxTwice \in Nat /\ MaxLost \in Nat

VARIABLES
  rows,         \* the analyses: their status, and which reading they hold
  messages,     \* how many messages ask for each to be read
  readers,      \* what each worker is at
  flow,         \* the page
  submissions,  \* of its lines to the backend
  stocked,      \* stocked[d]: the readings whose lines entered the stock
  twice,        \* the messages delivered twice so far
  interrupted   \* the analyses a worker died on

readingVars ==
  <<rows, messages, readers, flow, submissions, stocked, twice, interrupted>>

Photos == 1..MaxPhotos
Submissions == 1..MaxEntries
RowStatuses == {"none", "pending", "processing", "done", "failed", "validated"}

(* `begun` counts the readings begun, `reading` is the one that was kept.  *)
NoRow == [status |-> "none", begun |-> 0, reading |-> 0]
AtRest == [at |-> "rest", doc |-> 0, reading |-> 0]
NoEntry == [at |-> "none", doc |-> 0, lines |-> 0]

(* `answer` is what the backend was last asked and has not been heard yet, *)
(* `shown` what was: NoRow before.  `lines` is the reading the form on     *)
(* screen was filled from, `sending` the submission it waits for.          *)
Left ==
  [upload |-> "none", failed |-> FALSE, doc |-> 0, answer |-> NoRow,
   shown |-> NoRow, lines |-> 0, sending |-> 0]

ReadingInit ==
  /\ rows = [d \in Photos |-> NoRow]
  /\ messages = [d \in Photos |-> 0]
  /\ readers = [w \in Readers |-> AtRest]
  /\ flow = Left
  /\ submissions = [e \in Submissions |-> NoEntry]
  /\ stocked = [d \in Photos |-> <<>>]
  /\ twice = 0 /\ interrupted = {}

-----------------------------------------------------------------------------
(* What the page is at.                                                    *)
Stage ==
  CASE flow.failed -> "failed"
    [] ~flow.failed /\ flow.upload \in {"sent", "created", "refused"} ->
         "uploading"
    [] ~flow.failed /\ flow.upload = "none" -> "empty"
    [] ~flow.failed /\ flow.upload = "heard" ->
         IF flow.shown.status \in {"none", "pending", "processing"}
         THEN "reading" ELSE flow.shown.status

Busy == Stage \in {"uploading", "reading"}
Created == {d \in Photos : rows[d].status # "none"}

(* Another photo takes the place of the one before, unless it is being     *)
(* sent or read.  A photo whose page is left has been stored or has not.   *)
SendPhoto ==
  /\ ~Busy /\ Created # Photos
  /\ flow' = [Left EXCEPT !.upload = "sent"]
  /\ UNCHANGED <<rows, messages, readers, submissions, stocked, twice,
                 interrupted>>

LeavePage ==
  /\ flow # Left /\ flow' = Left
  /\ UNCHANGED <<rows, messages, readers, submissions, stocked, twice,
                 interrupted>>

(* The row is committed, then the message is left.  The broker that could  *)
(* not be reached may have it all the same.                                *)
StorePhoto ==
  LET d == CHOOSE n \in Photos \ Created : 1..(n - 1) \subseteq Created IN
  /\ flow.upload = "sent" /\ Created # Photos
  /\ rows' = [rows EXCEPT ![d].status = "pending"]
  /\ \/ /\ messages' = [messages EXCEPT ![d] = 1]
        /\ flow' = [flow EXCEPT !.upload = "created", !.doc = d]
     \/ /\ messages' \in {messages, [messages EXCEPT ![d] = 1]}
        /\ flow' = [flow EXCEPT !.upload = "refused"]
  /\ UNCHANGED <<readers, submissions, stocked, twice, interrupted>>

(* The document is not one, or the storage does not take it.               *)
RefusePhoto ==
  /\ flow.upload = "sent" /\ flow' = [flow EXCEPT !.upload = "refused"]
  /\ UNCHANGED <<rows, messages, readers, submissions, stocked, twice,
                 interrupted>>

HearUpload ==
  /\ \/ /\ flow.upload = "created"
        /\ flow' = [flow EXCEPT !.upload = "heard"]
     \/ /\ flow.upload \in {"created", "refused"}
        /\ flow' = [Left EXCEPT !.upload = "heard", !.failed = TRUE]
  /\ UNCHANGED <<rows, messages, readers, submissions, stocked, twice,
                 interrupted>>

-----------------------------------------------------------------------------
(* Mutant: a row that is being read is no longer asked for.                *)
TerminalOnceBegun == RowStatuses \ {"none", "pending"}

TerminalStatuses == {"done", "failed", "validated"}

(* The row is asked for again and again until it is read, then only when   *)
(* the connection comes back.                                              *)
AskRow ==
  /\ flow.upload = "heard" /\ ~flow.failed /\ flow.answer = NoRow
  /\ flow' = [flow EXCEPT !.answer = rows[flow.doc]]
  /\ UNCHANGED <<rows, messages, readers, submissions, stocked, twice,
                 interrupted>>

PollRow == flow.shown.status \notin TerminalStatuses /\ AskRow

(* The form is filled when its lines first show, and only then.            *)
ShowRow ==
  /\ flow.answer # NoRow
  /\ LET now == [flow EXCEPT !.answer = NoRow, !.shown = flow.answer] IN
       flow' = IF flow.answer.status # "done"
               THEN [now EXCEPT !.lines = 0, !.sending = 0]
               ELSE [now EXCEPT
                       !.lines = IF @ = 0 THEN flow.answer.reading ELSE @]
  /\ UNCHANGED <<rows, messages, readers, submissions, stocked, twice,
                 interrupted>>

-----------------------------------------------------------------------------
(* The workers.                                                            *)
RowFree(d) ==
  \A e \in Submissions : submissions[e].at = "held" => submissions[e].doc # d

DeliverTwice(d) ==
  /\ messages[d] = 1 /\ twice < MaxTwice
  /\ messages' = [messages EXCEPT ![d] = 2] /\ twice' = twice + 1
  /\ UNCHANGED <<rows, readers, flow, submissions, stocked, interrupted>>

TakeMessage(w, d) ==
  /\ readers[w] = AtRest /\ messages[d] > 0
  /\ messages' = [messages EXCEPT ![d] = @ - 1]
  /\ readers' = [readers EXCEPT ![w].at = "taken", ![w].doc = d]
  /\ UNCHANGED <<rows, flow, submissions, stocked, twice, interrupted>>

(* Mutant: whatever is not recorded yet is read again.                     *)
ToReadAgain(row) == row.status # "validated"

ToRead(row) == row.status = "pending"

(* The message of a row that is no longer to be read is ignored.           *)
BeginReading(w) ==
  LET d == readers[w].doc IN
  /\ readers[w].at = "taken" /\ RowFree(d)
  /\ IF ToRead(rows[d])
     THEN /\ rows' = [rows EXCEPT ![d].status = "processing",
                                  ![d].begun = @ + 1]
          /\ readers' = [readers EXCEPT ![w].at = "reads",
                                        ![w].reading = rows[d].begun + 1]
     ELSE UNCHANGED rows /\ readers' = [readers EXCEPT ![w] = AtRest]
  /\ UNCHANGED <<messages, flow, submissions, stocked, twice, interrupted>>

(* It is read, or the storage, the reading or its structure failed; and    *)
(* neither is written on a row that is no longer being read.               *)
EndReading(w) ==
  LET d == readers[w].doc IN
  /\ readers[w].at = "reads" /\ RowFree(d)
  /\ readers' = [readers EXCEPT ![w] = AtRest]
  /\ IF rows[d].status = "processing"
     THEN \/ rows' = [rows EXCEPT ![d].status = "done",
                                  ![d].reading = readers[w].reading]
          \/ rows' = [rows EXCEPT ![d].status = "failed"]
     ELSE UNCHANGED rows
  /\ UNCHANGED <<messages, flow, submissions, stocked, twice, interrupted>>

(* Its row stays as it is; so it does when the outcome cannot be written.  *)
ReaderDies(w) ==
  /\ readers[w] # AtRest /\ readers' = [readers EXCEPT ![w] = AtRest]
  /\ interrupted' = interrupted \cup {readers[w].doc}
  /\ Cardinality(interrupted') <= MaxLost
  /\ UNCHANGED <<rows, messages, flow, submissions, stocked, twice>>

-----------------------------------------------------------------------------
(* The lines, checked, enter the stock.                                    *)
SubmitLines(e) ==
  /\ Stage = "done" /\ flow.lines # 0 /\ flow.sending = 0
  /\ submissions[e] = NoEntry
  /\ submissions' = [submissions EXCEPT
       ![e] = [at |-> "sent", doc |-> flow.doc, lines |-> flow.lines]]
  /\ flow' = [flow EXCEPT !.sending = e]
  /\ UNCHANGED <<rows, messages, readers, stocked, twice, interrupted>>

OpenRow(e) ==
  LET d == submissions[e].doc IN
  /\ submissions[e].at = "sent" /\ RowFree(d)
  /\ submissions' = [submissions EXCEPT
       ![e].at = IF rows[d].status = "done" THEN "held" ELSE "refused"]
  /\ UNCHANGED <<rows, messages, readers, flow, stocked, twice, interrupted>>

RecordLines(e) ==
  LET d == submissions[e].doc IN
  /\ submissions[e].at = "held"
  /\ stocked' = [stocked EXCEPT ![d] = Append(@, submissions[e].lines)]
  /\ rows' = [rows EXCEPT ![d].status = "validated"]
  /\ submissions' = [submissions EXCEPT ![e].at = "recorded"]
  /\ UNCHANGED <<messages, readers, flow, twice, interrupted>>

(* One line is refused: none is recorded.                                  *)
UndoLines(e) ==
  /\ submissions[e].at = "held"
  /\ submissions' = [submissions EXCEPT ![e].at = "refused"]
  /\ UNCHANGED <<rows, messages, readers, flow, stocked, twice, interrupted>>

(* The answer is heard, or lost whatever became of the submission.         *)
HearSubmission ==
  /\ flow.sending # 0
  /\ \/ submissions[flow.sending].at = "recorded" /\ flow' = Left
     \/ flow' = [flow EXCEPT !.sending = 0]
  /\ UNCHANGED <<rows, messages, readers, submissions, stocked, twice,
                 interrupted>>

(* A review of its own (not one of the pages') validates it and records    *)
(* nothing.                                                                *)
ReviewElsewhere(d) ==
  /\ rows[d].status = "done" /\ RowFree(d)
  /\ rows' = [rows EXCEPT ![d].status = "validated"]
  /\ UNCHANGED <<messages, readers, flow, submissions, stocked, twice,
                 interrupted>>

-----------------------------------------------------------------------------
ReadingNext ==
  \/ SendPhoto \/ LeavePage \/ StorePhoto \/ RefusePhoto \/ HearUpload
  \/ AskRow \/ ShowRow \/ HearSubmission
  \/ \E d \in Photos : DeliverTwice(d) \/ ReviewElsewhere(d)
  \/ \E w \in Readers :
       \/ BeginReading(w) \/ EndReading(w) \/ ReaderDies(w)
       \/ \E d \in Photos : TakeMessage(w, d)
  \/ \E e \in Submissions :
       SubmitLines(e) \/ OpenRow(e) \/ RecordLines(e) \/ UndoLines(e)

(* Requests are answered, the page asks again on a timer, messages left    *)
(* are taken by workers that run, and transactions end.                    *)
ReadingFairness ==
  /\ WF_readingVars(StorePhoto \/ RefusePhoto) /\ WF_readingVars(HearUpload)
  /\ WF_readingVars(PollRow) /\ WF_readingVars(ShowRow)
  /\ \A w \in Readers :
       /\ WF_readingVars(BeginReading(w)) /\ WF_readingVars(EndReading(w))
       /\ WF_readingVars(\E d \in Photos : TakeMessage(w, d))
  /\ \A e \in Submissions : WF_readingVars(RecordLines(e) \/ UndoLines(e))

-----------------------------------------------------------------------------
Rows == [status : RowStatuses, begun : 0..2, reading : 0..2]

ReadingTypeOK ==
  /\ rows \in [Photos -> Rows] /\ messages \in [Photos -> 0..2]
  /\ readers \in [Readers ->
       [at : {"rest", "taken", "reads"}, doc : 0..MaxPhotos, reading : 0..2]]
  /\ flow \in
       [upload : {"none", "sent", "created", "refused", "heard"},
        failed : BOOLEAN, doc : 0..MaxPhotos, answer : Rows, shown : Rows,
        lines : 0..2, sending : 0..MaxEntries]
  /\ submissions \in [Submissions ->
       [at : {"none", "sent", "held", "recorded", "refused"},
        doc : 0..MaxPhotos, lines : 0..2]]
  /\ stocked \in [Photos -> Seq(0..2)]
  /\ twice \in 0..MaxTwice /\ interrupted \subseteq Photos

(* An invoice enters the stock once at most, as the reading it still holds *)
(* and its page showed, and only once it is validated: though its message  *)
(* came twice, a worker died, an answer was lost and the lines were sent   *)
(* again ("deux validations simultanees de la meme facture ne peuvent pas  *)
(* ajouter deux fois le stock": record_invoice_entry).                     *)
StockedAsShown ==
  \A d \in Photos :
    stocked[d] # <<>> =>
      stocked[d] = <<rows[d].reading>> /\ rows[d].status = "validated"

(* The page does not wait for ever, its button with it: a photo ends up    *)
(* read, refused or failed, unless a worker died on it, which nothing      *)
(* makes up for (useOcrResult, process_invoice_ocr).                       *)
ReadingEnds ==
  Busy ~> (~Busy \/ flow.doc \in interrupted)
=============================================================================
