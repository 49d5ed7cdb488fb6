------------------------- MODULE StockLedgerProofs -------------------------
(***************************************************************************)
(* Proofs about StockLedger, for any requests, lines, variants, editors    *)
(* and starting stock, then about InvoiceReading, for any photos, workers  *)
(* and submissions.                                                        *)
(*                                                                         *)
(* That the cached stock is the sum of the movements is not inductive: it  *)
(* needs to know that only the holder of a variant's row lock has movements*)
(* or a rewritten cache of that variant in flight, and that the rewritten  *)
(* cache counts them all except between the INSERT and the refresh.        *)
(***************************************************************************)
EXTENDS StockLedger, InvoiceReading, WellFoundedInduction, TLAPS

(* Between its INSERT and its refresh, r's rewritten cache of v is behind. *)
Midway(r, v) == pc[r] = "refresh" /\ Current(r).variant = v

LineIsLocked ==
  \A r \in Requests : pc[r] \in {"record", "refresh"} =>
    /\ HasLine(r)
    /\ owner[Current(r).variant] = r

WritesUnderLock ==
  \A r \in Requests, v \in Variants :
    v \in touched[r] \/ pending[r][v] # 0 => owner[v] = r

DraftIsSum ==
  \A r \in Requests, v \in Variants :
    v \in touched[r] /\ ~Midway(r, v) => draft[r][v] = ledger[v] + pending[r][v]

PendingIsDrafted ==
  \A r \in Requests, v \in Variants :
    pending[r][v] # 0 /\ ~Midway(r, v) => v \in touched[r]

LedgerInv ==
  /\ TypeOK
  /\ LineIsLocked
  /\ WritesUnderLock
  /\ DraftIsSum
  /\ PendingIsDrafted
  /\ CacheIsLedger

----------------------------------------------------------------------------
(* The line a request works on is one of its lines.                        *)
LEMMA CurrentType ==
  ASSUME TypeOK, NEW r \in Requests, HasLine(r)
  PROVE  Current(r) \in Line
BY RequestsAssumption DEF TypeOK, HasLine, Current

(* The quantity a line adds to the stock is an integer.                    *)
LEMMA DeltaType ==
  ASSUME TypeOK, NEW r \in Requests, HasLine(r)
  PROVE  Delta(r) \in Int
<1>1. Current(r).variant \in Variants /\ Current(r).qty \in Int
  BY CurrentType DEF Line
<1>2. OwnView(r, Current(r).variant) \in Int
  BY <1>1 DEF OwnView, TypeOK
<1> QED
  BY <1>1, <1>2 DEF Delta

LEMMA InitInv == Init => LedgerInv
BY RequestsAssumption, StartAssumption, NobodyAssumption
   DEF Init, LedgerInv, TypeOK, LineIsLocked, WritesUnderLock, DraftIsSum,
       PendingIsDrafted, CacheIsLedger, States

(* Rolling a transaction back frees its locks and drops what it wrote.     *)
LEMMA RollBackInv ==
  ASSUME LedgerInv, NEW r \in Requests, NEW end \in Ended, RollBack(r, end)
  PROVE  LedgerInv'
<1> USE DEF LedgerInv
<1>1. TypeOK'
  BY DEF TypeOK, RollBack, Released, Ended, States
<1>2. \A q \in Requests : q # r => pc'[q] = pc[q] /\ pending'[q] = pending[q]
                                    /\ touched'[q] = touched[q]
  BY DEF TypeOK, RollBack
<1>3. pc'[r] = end /\ touched'[r] = {} /\ \A v \in Variants : pending'[r][v] = 0
  BY DEF TypeOK, RollBack
<1>4. \A q \in Requests, v \in Variants : q # r /\ owner[v] = q => owner'[v] = q
  BY DEF TypeOK, RollBack, Released
<1>5. end \notin {"record", "refresh"}
  BY DEF Ended
<1>6. LineIsLocked'
  <2> SUFFICES ASSUME NEW q \in Requests, pc'[q] \in {"record", "refresh"}
               PROVE  HasLine(q)' /\ owner'[Current(q)'.variant] = q
    BY DEF LineIsLocked
  <2>1. q # r
    BY <1>3, <1>5
  <2>2. HasLine(q) /\ owner[Current(q).variant] = q
    BY <1>2, <2>1 DEF LineIsLocked
  <2>3. Current(q).variant \in Variants
    BY <2>2, CurrentType DEF Line
  <2> QED
    BY <1>4, <2>1, <2>2, <2>3 DEF RollBack, HasLine, Current
<1>7. WritesUnderLock'
  BY <1>2, <1>3, <1>4 DEF WritesUnderLock
<1>8. DraftIsSum'
  BY <1>2, <1>3 DEF DraftIsSum, Midway, RollBack, Current
<1>9. PendingIsDrafted'
  BY <1>2, <1>3 DEF PendingIsDrafted, Midway, RollBack, Current
<1>10. CacheIsLedger'
  BY DEF CacheIsLedger, RollBack
<1> QED
  BY <1>1, <1>6, <1>7, <1>8, <1>9, <1>10

----------------------------------------------------------------------------
(* Beginning, taking a lock, skipping an equal count and leaving the last  *)
(* line write no movement and no stock.                                    *)
LEMMA QuietStepInv ==
  ASSUME LedgerInv, NEW r \in Requests,
         Begin(r) \/ Acquire(r) \/ SkipEqualCount(r) \/ LastLineDone(r)
  PROVE  LedgerInv'
<1> USE DEF LedgerInv
<1>1. UNCHANGED <<pending, touched, draft, ledger, cache, copy, clobbered>>
  BY DEF Begin, Acquire, SkipEqualCount, LastLineDone
<1>2. /\ pc' \in [Requests -> States]
      /\ pc[r] # "refresh" /\ pc'[r] # "refresh"
      /\ \A q \in Requests : q # r => pc'[q] = pc[q] /\ line'[q] = line[q]
      /\ line' \in [Requests -> Nat \ {0}]
  <2>1. CASE Begin(r) \/ Acquire(r) \/ LastLineDone(r)
    BY <2>1 DEF TypeOK, States, Begin, Acquire, LastLineDone
  <2>2. CASE SkipEqualCount(r)
    BY <2>2 DEF TypeOK, States, SkipEqualCount
  <2> QED
    BY <2>1, <2>2
<1>3. /\ owner' \in [Variants -> Requests \cup {Nobody}]
      /\ \A q \in Requests, v \in Variants : owner[v] = q => owner'[v] = q
  <2>1. CASE Acquire(r)
    <3>1. Current(r).variant \in Variants
      BY <2>1, CurrentType DEF Acquire, Line
    <3> QED
      BY <2>1, <3>1, NobodyAssumption DEF Acquire, LockFree, TypeOK
  <2>2. CASE Begin(r) \/ SkipEqualCount(r) \/ LastLineDone(r)
    BY <2>2 DEF Begin, SkipEqualCount, LastLineDone, TypeOK
  <2> QED
    BY <2>1, <2>2
<1>4. TypeOK'
  BY <1>1, <1>2, <1>3 DEF TypeOK
<1>5. ASSUME NEW q \in Requests, pc'[q] \in {"record", "refresh"}
      PROVE  HasLine(q)' /\ owner'[Current(q)'.variant] = q
  <2>1. CASE q = r
    <3>1. Acquire(r)
      BY <1>5, <2>1 DEF TypeOK, Begin, SkipEqualCount, LastLineDone
    <3>2. Current(r).variant \in Variants
      BY <3>1, CurrentType DEF Acquire, Line
    <3> QED
      BY <2>1, <3>1, <3>2 DEF Acquire, HasLine, Current, TypeOK
  <2>2. CASE q # r
    <3>1. HasLine(q) /\ owner[Current(q).variant] = q
      BY <1>2, <1>5, <2>2 DEF LineIsLocked
    <3>2. Current(q).variant \in Variants
      BY <3>1, CurrentType DEF Line
    <3> QED
      BY <1>2, <1>3, <2>2, <3>1, <3>2 DEF HasLine, Current
  <2> QED
    BY <2>1, <2>2
<1>6. LineIsLocked'
  BY <1>5 DEF LineIsLocked
<1>7. WritesUnderLock'
  BY <1>1, <1>3 DEF WritesUnderLock
<1>8. \A q \in Requests, v \in Variants : Midway(q, v)' <=> Midway(q, v)
  BY <1>2 DEF Midway, Current
<1>9. DraftIsSum' /\ PendingIsDrafted'
  BY <1>1, <1>8 DEF DraftIsSum, PendingIsDrafted
<1>10. CacheIsLedger'
  BY <1>1 DEF CacheIsLedger
<1> QED
  BY <1>4, <1>6, <1>7, <1>9, <1>10

(* The INSERT leaves the rewritten cache of that one variant behind.       *)
LEMMA RecordInv ==
  ASSUME LedgerInv, NEW r \in Requests, Record(r)
  PROVE  LedgerInv'
<1> USE DEF LedgerInv, Record
<1> DEFINE v == Current(r).variant
<1>1. HasLine(r) /\ owner[v] = r /\ v \in Variants /\ Delta(r) \in Int
  BY CurrentType, DeltaType DEF LineIsLocked, Line
<1>2. TypeOK'
  BY <1>1 DEF TypeOK, States
<1>3. /\ pc'[r] = "refresh" /\ Current(r)' = Current(r) /\ HasLine(r)'
      /\ \A q \in Requests : q # r => pc'[q] = pc[q] /\ pending'[q] = pending[q]
      /\ \A w \in Variants : w # v => pending'[r][w] = pending[r][w]
  BY <1>1 DEF TypeOK, Current, HasLine
<1>4. LineIsLocked'
  BY <1>1, <1>3 DEF LineIsLocked, HasLine, Current
<1>5. WritesUnderLock'
  BY <1>1, <1>3 DEF WritesUnderLock
<1>6. \A q \in Requests, w \in Variants :
        /\ q # r => (Midway(q, w)' <=> Midway(q, w))
        /\ Midway(r, w)' <=> w = v
        /\ ~Midway(r, w)
  BY <1>3 DEF Midway, Current
<1>7. DraftIsSum' /\ PendingIsDrafted'
  BY <1>3, <1>6 DEF DraftIsSum, PendingIsDrafted
<1>8. CacheIsLedger'
  BY DEF CacheIsLedger
<1> QED
  BY <1>2, <1>4, <1>5, <1>7, <1>8

(* The refresh brings the rewritten cache level with the movements.        *)
LEMMA RefreshInv ==
  ASSUME LedgerInv, NEW r \in Requests, Refresh(r)
  PROVE  LedgerInv'
<1> USE DEF LedgerInv, Refresh
<1> DEFINE v == Current(r).variant
<1>1. HasLine(r) /\ owner[v] = r /\ v \in Variants
  BY CurrentType DEF LineIsLocked, Line
<1>2. TypeOK'
  BY <1>1 DEF TypeOK, States
<1>3. /\ pc'[r] = "lock"
      /\ touched'[r] = touched[r] \cup {v}
      /\ draft'[r][v] = ledger[v] + pending[r][v]
      /\ \A w \in Variants : w # v => draft'[r][w] = draft[r][w]
      /\ \A q \in Requests : q # r => /\ pc'[q] = pc[q] /\ line'[q] = line[q]
                                      /\ touched'[q] = touched[q]
                                      /\ draft'[q] = draft[q]
  BY <1>1 DEF TypeOK
<1>4. LineIsLocked'
  BY <1>3 DEF LineIsLocked, HasLine, Current
<1>5. WritesUnderLock'
  BY <1>1, <1>3 DEF WritesUnderLock
<1>6. \A q \in Requests, w \in Variants :
        /\ q # r => (Midway(q, w)' <=> Midway(q, w))
        /\ ~Midway(r, w)'
        /\ Midway(r, w) <=> w = v
  BY <1>3 DEF Midway, Current
<1>7. DraftIsSum'
  BY <1>3, <1>6 DEF DraftIsSum
<1>8. PendingIsDrafted'
  BY <1>3, <1>6 DEF PendingIsDrafted
<1>9. CacheIsLedger'
  BY DEF CacheIsLedger
<1> QED
  BY <1>2, <1>4, <1>5, <1>7, <1>8, <1>9

(* A commit publishes the movements and the cache that counts them all;    *)
(* nobody else has a rewritten cache of a variant it wrote.                *)
LEMMA CommitInv ==
  ASSUME LedgerInv, NEW r \in Requests, Commit(r)
  PROVE  LedgerInv'
<1> USE DEF LedgerInv, Commit
<1>1. TypeOK'
  BY DEF TypeOK, States, Released, OwnView
<1>2. /\ pc'[r] = "done" /\ touched'[r] = {}
      /\ \A v \in Variants : pending'[r][v] = 0
      /\ \A q \in Requests : q # r => /\ pc'[q] = pc[q]
                                      /\ pending'[q] = pending[q]
                                      /\ touched'[q] = touched[q]
      /\ \A q \in Requests, v \in Variants : q # r /\ owner[v] = q => owner'[v] = q
  BY DEF TypeOK, Released
<1>3. \A v \in Variants : ~Midway(r, v)
  BY DEF Midway
<1>4. LineIsLocked'
  <2> SUFFICES ASSUME NEW q \in Requests, pc'[q] \in {"record", "refresh"}
               PROVE  HasLine(q)' /\ owner'[Current(q)'.variant] = q
    BY DEF LineIsLocked
  <2>1. q # r
    BY <1>2
  <2>2. HasLine(q) /\ owner[Current(q).variant] = q
    BY <1>2, <2>1 DEF LineIsLocked
  <2>3. Current(q).variant \in Variants
    BY <2>2, CurrentType DEF Line
  <2> QED
    BY <1>2, <2>1, <2>2, <2>3 DEF HasLine, Current
<1>5. WritesUnderLock'
  BY <1>2 DEF WritesUnderLock
<1>6. \A q \in Requests, v \in Variants :
        q # r => (Midway(q, v)' <=> Midway(q, v))
  BY <1>2 DEF Midway, Current
<1>7. ASSUME NEW q \in Requests, NEW v \in Variants,
             v \in touched'[q], ~Midway(q, v)'
      PROVE  draft'[q][v] = ledger'[v] + pending'[q][v]
  <2>1. q # r /\ v \in touched[q] /\ ~Midway(q, v)
    BY <1>2, <1>6, <1>7
  <2>2. owner[v] = q
    BY <2>1 DEF WritesUnderLock
  <2>3. pending[r][v] = 0
    BY <2>1, <2>2 DEF WritesUnderLock
  <2>4. ledger'[v] = ledger[v]
    BY <2>3 DEF TypeOK
  <2> QED
    BY <1>2, <2>1, <2>4 DEF DraftIsSum
<1>8. DraftIsSum'
  BY <1>7 DEF DraftIsSum
<1>9. PendingIsDrafted'
  BY <1>2, <1>6 DEF PendingIsDrafted
<1>10. ASSUME NEW v \in Variants \ clobbered'
       PROVE  cache'[v] = ledger'[v]
  <2>1. CASE v \in touched[r]
    BY <1>3, <2>1 DEF DraftIsSum, OwnView
  <2>2. CASE v \notin touched[r]
    <3>1. pending[r][v] = 0
      BY <1>3, <2>2 DEF PendingIsDrafted
    <3> QED
      BY <1>10, <2>2, <3>1 DEF CacheIsLedger, OwnView, TypeOK
  <2> QED
    BY <2>1, <2>2
<1>11. CacheIsLedger'
  BY <1>10 DEF CacheIsLedger
<1> QED
  BY <1>1, <1>4, <1>5, <1>8, <1>9, <1>11

(* An editor's read changes no stock; its save marks what it overwrites.   *)
LEMMA EditorInv ==
  ASSUME LedgerInv, NEW e \in Editors,
         EditSave(e) \/ \E v \in Variants : EditRead(e, v)
  PROVE  LedgerInv'
<1> USE DEF LedgerInv
<1>1. UNCHANGED <<pc, line, owner, pending, touched, draft, ledger>>
  BY DEF EditSave, EditRead
<1>2. TypeOK' /\ CacheIsLedger'
  <2>1. CASE EditSave(e)
    BY <2>1 DEF EditSave, TypeOK, Row, CacheIsLedger
  <2>2. ASSUME NEW v \in Variants, EditRead(e, v)
        PROVE  TypeOK' /\ CacheIsLedger'
    BY <2>2 DEF EditRead, TypeOK, Row, CacheIsLedger
  <2> QED
    BY <2>1, <2>2
<1>3. LineIsLocked' /\ WritesUnderLock' /\ DraftIsSum' /\ PendingIsDrafted'
  BY <1>1 DEF LineIsLocked, WritesUnderLock, DraftIsSum, PendingIsDrafted,
              Midway, HasLine, Current
<1> QED
  BY <1>2, <1>3

LEMMA NextInv == LedgerInv /\ [Next]_vars => LedgerInv'
<1> SUFFICES ASSUME LedgerInv, [Next]_vars PROVE LedgerInv'
  OBVIOUS
<1>1. ASSUME NEW r \in Requests, Step(r) PROVE LedgerInv'
  <2>1. CASE Begin(r) \/ Acquire(r) \/ SkipEqualCount(r) \/ LastLineDone(r)
    BY <2>1, QuietStepInv
  <2>2. CASE Record(r)
    BY <2>2, RecordInv
  <2>3. CASE Refresh(r)
    BY <2>3, RefreshInv
  <2>4. CASE Commit(r)
    BY <2>4, CommitInv
  <2>5. CASE Refuse(r)
    BY <2>5, RollBackInv DEF Refuse, Ended
  <2>6. CASE CancelDeadlocked(r)
    BY <2>6, RollBackInv DEF CancelDeadlocked, Ended
  <2> QED
    BY <1>1, <2>1, <2>2, <2>3, <2>4, <2>5, <2>6 DEF Step
<1>2. ASSUME NEW r \in Requests, Fail(r) PROVE LedgerInv'
  BY <1>2, RollBackInv DEF Fail, Ended
<1>3. ASSUME NEW e \in Editors,
             EditSave(e) \/ \E v \in Variants : EditRead(e, v)
      PROVE  LedgerInv'
  BY <1>3, EditorInv
<1>4. CASE UNCHANGED vars
  BY <1>4 DEF vars, LedgerInv, TypeOK, LineIsLocked, WritesUnderLock,
              DraftIsSum, PendingIsDrafted, CacheIsLedger, Midway, HasLine,
              Current
<1> QED
  BY <1>1, <1>2, <1>3, <1>4 DEF Next

THEOREM LedgerInvariance == Spec => []LedgerInv
BY InitInv, NextInv, PTL DEF Spec

(* StockLedger's variables keep their types.                               *)
THEOREM TypeCorrect == Spec => []TypeOK
BY LedgerInvariance, PTL DEF LedgerInv

(* The cached stock of every variant is the sum of its committed movements *)
(* until a stale sheet edit overwrites it (StockMovement.save,             *)
(* create_movement), for any number of concurrent requests.                *)
THEOREM CacheFaithful == Spec => []CacheIsLedger
BY LedgerInvariance, PTL DEF LedgerInv

-----------------------------------------------------------------------------
(* InvoiceReading.                                                         *)
ReadingSpec == ReadingInit /\ [][ReadingNext]_readingVars

RowState == [status : RowStatuses, begun : 0..1, reading : 0..1]
Reader == [at : {"rest", "taken", "reads"}, doc : 0..MaxPhotos, reading : 0..1]
Page ==
  [upload : {"none", "sent", "created", "refused", "heard"},
   failed : BOOLEAN, doc : 0..MaxPhotos, answer : RowState, shown : RowState,
   lines : 0..1, sending : 0..MaxEntries]
Entry ==
  [at : {"none", "sent", "held", "recorded", "refused"},
   doc : 0..MaxPhotos, lines : 0..1]

(* A row is read once: what is kept of it is kept for good.                *)
RowsInv ==
  /\ rows \in [Photos -> RowState] /\ stocked \in [Photos -> Seq(0..1)]
  /\ \A d \in Photos : rows[d].status \in {"none", "pending"} => rows[d].begun = 0

WorkersInv ==
  /\ messages \in [Photos -> 0..2] /\ readers \in [Readers -> Reader]
  /\ twice \in 0..MaxTwice /\ interrupted \subseteq Photos
  /\ \A w \in Readers : readers[w] = AtRest \/ readers[w].doc \in Photos

(* Row d has been read, and n is what is kept of it.                       *)
Kept(d, n) ==
  d \in Photos /\ rows[d].status \in {"done", "validated"} /\ rows[d].reading = n

(* The page is about a photo that is stored, and what it has heard of its  *)
(* lines is what is kept of it.                                            *)
PageInv ==
  /\ flow \in Page
  /\ flow.upload = "created" => flow.doc \in Photos
  /\ IF flow.upload = "heard" /\ ~flow.failed
       THEN /\ flow.doc \in Photos
            /\ flow.answer.status = "done" => Kept(flow.doc, flow.answer.reading)
            /\ flow.lines # 0 => Kept(flow.doc, flow.lines)
       ELSE flow.answer = NoRow /\ flow.lines = 0

(* A submission sends what is kept of a photo; the one that holds the row  *)
(* is alone, and the row is still to be validated.                         *)
EntriesInv ==
  /\ submissions \in [Submissions -> Entry]
  /\ \A e \in Submissions :
       /\ submissions[e].at # "none" => Kept(submissions[e].doc, submissions[e].lines)
       /\ submissions[e].at = "held" => rows[submissions[e].doc].status = "done"
  /\ \A e, f \in Submissions :
       submissions[e].at = "held" /\ submissions[f].at = "held"
         /\ submissions[e].doc = submissions[f].doc => e = f

ReadingInv ==
  RowsInv /\ WorkersInv /\ PageInv /\ EntriesInv /\ StockedAsShown

(* Of some photos the first exists.                                        *)
LEMMA FirstOf ==
  ASSUME NEW S, S \subseteq Nat \ {0}, S # {}
  PROVE  \E n \in S : 1..(n - 1) \cap S = {}
<1>1. PICK n \in S : \A m \in S : ~(<<m, n>> \in OpToRel(<, Nat))
  <2>1. S \subseteq Nat
    OBVIOUS
  <2> QED
    BY <2>1, NatLessThanWellFounded, WFMin
<1>2. \A m \in S : ~(m < n)
  BY <1>1 DEF OpToRel
<1> QED
  BY <1>2

LEMMA ReadingIs ==
  /\ NoRow \in RowState /\ NoRow.status = "none" /\ NoRow.begun = 0
  /\ NoRow.reading = 0
  /\ AtRest \in Reader /\ AtRest.at = "rest"
  /\ NoEntry \in Entry /\ NoEntry.at = "none"
  /\ Left \in Page /\ Left.upload = "none" /\ Left.answer = NoRow
  /\ Left.lines = 0 /\ ~Left.failed
  /\ Photos = 1..MaxPhotos /\ Submissions = 1..MaxEntries
<1> USE ReadingAssumption
<1>1. NoRow \in RowState
  BY DEF NoRow, RowState, RowStatuses
<1>2. Left \in Page
  BY <1>1 DEF Left, Page
<1> QED
  BY <1>1, <1>2 DEF NoRow, AtRest, Reader, NoEntry, Entry, Left, Photos, Submissions

LEMMA ReadingStarts == ReadingInit => ReadingInv
<1> SUFFICES ASSUME ReadingInit PROVE ReadingInv
  OBVIOUS
<1> USE ReadingIs
<1>1. RowsInv
  BY DEF ReadingInit, RowsInv
<1>2. WorkersInv
  BY ReadingAssumption DEF ReadingInit, WorkersInv
<1>3. PageInv
  BY DEF ReadingInit, PageInv
<1>4. EntriesInv
  BY DEF ReadingInit, EntriesInv
<1>5. StockedAsShown
  BY DEF ReadingInit, StockedAsShown
<1> QED
  BY <1>1, <1>2, <1>3, <1>4, <1>5 DEF ReadingInv

(* The page moves, nothing else.                                           *)
LEMMA PageStep ==
  ASSUME ReadingInv, UNCHANGED <<rows, stocked, submissions>>, PageInv',
         \/ UNCHANGED <<messages, readers, twice, interrupted>>
         \/ WorkersInv'
  PROVE  ReadingInv'
<1>1. RowsInv' /\ EntriesInv' /\ StockedAsShown'
  BY DEF ReadingInv, RowsInv, EntriesInv, Kept, StockedAsShown
<1>2. WorkersInv'
  BY DEF ReadingInv, WorkersInv
<1> QED
  BY <1>1, <1>2 DEF ReadingInv

LEMMA PageMoves ==
  ASSUME ReadingInv,
         \/ SendPhoto \/ LeavePage \/ RefusePhoto \/ HearUpload
         \/ AskRow \/ ShowRow \/ HearSubmission
  PROVE  ReadingInv'
<1>1. /\ UNCHANGED <<rows, stocked, submissions>>
      /\ UNCHANGED <<messages, readers, twice, interrupted>>
  BY DEF SendPhoto, LeavePage, RefusePhoto, HearUpload, AskRow, ShowRow,
     HearSubmission
<1> SUFFICES PageInv'
  BY <1>1, PageStep
<1>2. PageInv /\ flow \in Page /\ rows \in [Photos -> RowState]
  BY DEF ReadingInv, PageInv, RowsInv
<1>3. \A d, n : Kept(d, n)' <=> Kept(d, n)
  BY <1>1 DEF Kept
<1>4. CASE LeavePage
  BY <1>4, ReadingIs DEF LeavePage, PageInv
<1>5. CASE SendPhoto
  <2> DEFINE f == [Left EXCEPT !.upload = "sent"]
  <2>1. /\ f \in Page /\ f.upload = "sent" /\ f.answer = NoRow /\ f.lines = 0
    BY ReadingIs DEF Page, Left
  <2> QED
    BY <1>5, <2>1 DEF SendPhoto, PageInv
<1>6. CASE RefusePhoto
  <2> DEFINE f == [flow EXCEPT !.upload = "refused"]
  <2>1. /\ f \in Page /\ f.upload = "refused" /\ f.answer = NoRow /\ f.lines = 0
    BY <1>2, <1>6 DEF RefusePhoto, PageInv, Page
  <2> QED
    BY <1>6, <2>1 DEF RefusePhoto, PageInv
<1>7. CASE HearUpload
  <2> DEFINE f == [flow EXCEPT !.upload = "heard"]
             g == [Left EXCEPT !.upload = "heard", !.failed = TRUE]
  <2>1. /\ g \in Page /\ g.upload = "heard" /\ g.failed /\ g.answer = NoRow
        /\ g.lines = 0
    BY ReadingIs DEF Page, Left
  <2>2. flow.upload = "created" =>
          /\ f \in Page /\ f.upload = "heard" /\ f.answer = NoRow
          /\ f.lines = 0 /\ f.doc \in Photos
    BY <1>2 DEF Page, PageInv
  <2>3. \/ flow.upload = "created" /\ flow' = f
        \/ flow' = g
    BY <1>7 DEF HearUpload
  <2> HIDE DEF f, g
  <2> QED
    BY <2>1, <2>2, <2>3, ReadingIs DEF PageInv
<1>8. CASE AskRow
  <2> DEFINE f == [flow EXCEPT !.answer = rows[flow.doc]]
  <2>1. flow.doc \in Photos /\ flow.upload = "heard" /\ ~flow.failed /\ flow' = f
    BY <1>2, <1>8 DEF AskRow, PageInv
  <2>2. /\ f \in Page /\ f.upload = flow.upload /\ f.failed = flow.failed
        /\ f.doc = flow.doc /\ f.lines = flow.lines
        /\ f.answer = rows[flow.doc]
    BY <1>2, <2>1 DEF Page
  <2>3. f.answer.status = "done" => Kept(f.doc, f.answer.reading)
    BY <2>1, <2>2 DEF Kept
  <2> HIDE DEF f
  <2> QED
    BY <1>2, <1>3, <2>1, <2>2, <2>3 DEF PageInv
<1>9. CASE ShowRow
  <2> DEFINE now == [flow EXCEPT !.answer = NoRow, !.shown = flow.answer]
             f == [now EXCEPT !.lines = 0, !.sending = 0]
             g == [now EXCEPT !.lines = IF @ = 0 THEN flow.answer.reading ELSE @]
  <2>1. /\ flow.upload = "heard" /\ ~flow.failed /\ flow.doc \in Photos
        /\ flow' = IF flow.answer.status # "done" THEN f ELSE g
    BY <1>2, <1>9 DEF ShowRow, PageInv
  <2>2. /\ now \in Page /\ now.upload = flow.upload /\ now.failed = flow.failed
        /\ now.doc = flow.doc /\ now.lines = flow.lines /\ now.answer = NoRow
    BY <1>2, ReadingIs DEF Page
  <2>3. flow.answer.reading \in 0..1
    BY <1>2 DEF Page, RowState
  <2> HIDE DEF now
  <2>4. /\ f \in Page /\ f.upload = flow.upload /\ f.failed = flow.failed
        /\ f.doc = flow.doc /\ f.lines = 0 /\ f.answer = NoRow
    <3>1. 0 \in 0..1 /\ 0 \in 0..MaxEntries
      BY ReadingAssumption
    <3> QED
      BY <2>2, <3>1 DEF Page
  <2>5. /\ g \in Page /\ g.upload = flow.upload /\ g.failed = flow.failed
        /\ g.doc = flow.doc /\ g.answer = NoRow
        /\ g.lines = IF flow.lines = 0 THEN flow.answer.reading ELSE flow.lines
    BY <2>2, <2>3 DEF Page
  <2> HIDE DEF f, g
  <2>6. flow.answer.status = "done" => (g.lines # 0 => Kept(g.doc, g.lines))
    BY <1>2, <2>1, <2>5 DEF PageInv
  <2> QED
    BY <1>3, <2>1, <2>4, <2>5, <2>6, ReadingIs DEF PageInv
<1>10. CASE HearSubmission
  <2> DEFINE f == [flow EXCEPT !.sending = 0]
  <2>1. /\ f \in Page /\ f.upload = flow.upload /\ f.failed = flow.failed
        /\ f.doc = flow.doc /\ f.lines = flow.lines /\ f.answer = flow.answer
    BY <1>2, ReadingAssumption DEF Page
  <2>2. flow' \in {Left, f}
    BY <1>10 DEF HearSubmission
  <2> HIDE DEF f
  <2> QED
    BY <1>2, <1>3, <2>1, <2>2, ReadingIs DEF PageInv
<1> QED
  BY <1>4, <1>5, <1>6, <1>7, <1>8, <1>9, <1>10

(* A photo is stored: it is a row of its own, of which nothing is kept.    *)
LEMMA StoreStep == ASSUME ReadingInv, StorePhoto PROVE ReadingInv'
<1> DEFINE d == CHOOSE n \in Photos \ Created : 1..(n - 1) \subseteq Created
<1>1. d \in Photos \ Created
  <2>1. Created \subseteq Photos /\ Photos \ Created # {}
    BY DEF StorePhoto, Created
  <2>2. PICK n \in Photos \ Created : 1..(n - 1) \cap (Photos \ Created) = {}
    <3>1. Photos \ Created \subseteq Nat \ {0}
      BY ReadingIs, ReadingAssumption
    <3> QED
      BY <2>1, <3>1, FirstOf
  <2>3. 1..(n - 1) \subseteq Created
    BY <2>2, ReadingIs, ReadingAssumption
  <2> QED
    BY <2>2, <2>3
<1>2. /\ rows' = [rows EXCEPT ![d].status = "pending"] /\ rows[d].status = "none"
      /\ UNCHANGED <<readers, submissions, stocked, twice, interrupted>>
      /\ messages' \in {messages, [messages EXCEPT ![d] = 1]}
      /\ flow.upload = "sent"
      /\ flow' \in {[flow EXCEPT !.upload = "created", !.doc = d],
                    [flow EXCEPT !.upload = "refused"]}
  BY <1>1 DEF StorePhoto, Created
<1>3. d \in Photos
  BY <1>1
<1> HIDE DEF d
<1>4. rows \in [Photos -> RowState] /\ flow \in Page
  BY DEF ReadingInv, RowsInv, PageInv
<1>5. /\ rows' \in [Photos -> RowState] /\ rows'[d].status = "pending"
      /\ rows'[d].begun = rows[d].begun
      /\ \A n \in Photos \ {d} : rows'[n] = rows[n]
  BY <1>2, <1>3, <1>4 DEF RowState, RowStatuses
<1>6. RowsInv'
  BY <1>2, <1>3, <1>5 DEF ReadingInv, RowsInv
<1>7. WorkersInv'
  BY <1>2, <1>3 DEF ReadingInv, WorkersInv
<1>8. PageInv'
  <2>1. flow.answer = NoRow /\ flow.lines = 0
    BY <1>2 DEF ReadingInv, PageInv
  <2>2. d \in 0..MaxPhotos
    BY <1>3, ReadingIs, ReadingAssumption
  <2>3. /\ flow' \in Page /\ flow'.answer = NoRow /\ flow'.lines = 0
        /\ flow'.upload # "heard" /\ (flow'.upload = "created" => flow'.doc = d)
    BY <1>2, <1>4, <2>1, <2>2 DEF Page
  <2> QED
    BY <1>3, <2>3 DEF PageInv
<1>9. \A p, n : Kept(p, n) => p # d /\ Kept(p, n)'
  BY <1>2, <1>5 DEF Kept
<1>10. EntriesInv'
  BY <1>2, <1>5, <1>9 DEF ReadingInv, EntriesInv, Kept
<1>11. StockedAsShown'
  BY <1>2, <1>5 DEF ReadingInv, StockedAsShown
<1> QED
  BY <1>6, <1>7, <1>8, <1>10, <1>11 DEF ReadingInv

LEMMA WorkersMove ==
  ASSUME ReadingInv, NEW w \in Readers, NEW d \in Photos,
         DeliverTwice(d) \/ TakeMessage(w, d) \/ ReaderDies(w)
  PROVE  ReadingInv'
<1>1. UNCHANGED <<rows, stocked, submissions, flow>>
  BY DEF DeliverTwice, TakeMessage, ReaderDies
<1>2. PageInv'
  BY <1>1 DEF ReadingInv, PageInv, Kept
<1>3. WorkersInv'
  <2>1. CASE DeliverTwice(d)
    BY <2>1, ReadingAssumption DEF DeliverTwice, ReadingInv, WorkersInv
  <2>2. CASE TakeMessage(w, d)
    <3> DEFINE r == [readers[w] EXCEPT !.at = "taken", !.doc = d]
    <3>1. d \in 0..MaxPhotos
      BY ReadingIs, ReadingAssumption
    <3>2. r \in Reader /\ r.doc = d
      BY <2>2, <3>1, ReadingIs DEF TakeMessage, Reader
    <3>3. readers' = [readers EXCEPT ![w] = r]
      BY <2>2 DEF TakeMessage, ReadingInv, WorkersInv, Reader
    <3>4. messages' \in [Photos -> 0..2]
      BY <2>2 DEF TakeMessage, ReadingInv, WorkersInv
    <3>5. UNCHANGED <<twice, interrupted>>
      BY <2>2 DEF TakeMessage
    <3> HIDE DEF r
    <3> QED
      BY <3>2, <3>3, <3>4, <3>5 DEF ReadingInv, WorkersInv
  <2>3. CASE ReaderDies(w)
    BY <2>3, ReadingIs DEF ReaderDies, ReadingInv, WorkersInv
  <2> QED
    BY <2>1, <2>2, <2>3
<1> QED
  BY <1>1, <1>2, <1>3, PageStep

(* A row that is being read, or that nobody holds, moves on: what is kept  *)
(* of a row is kept for good.                                              *)
LEMMA RowStep ==
  ASSUME ReadingInv, NEW d \in Photos, NEW row \in RowState, RowFree(d),
         rows' = [rows EXCEPT ![d] = row], row.status \notin {"none", "pending"},
         \/ rows[d].status \in {"pending", "processing"}
         \/ /\ rows[d].status = "done" /\ row.status = "validated"
            /\ row.reading = rows[d].reading,
         UNCHANGED <<flow, submissions, stocked>>, WorkersInv'
  PROVE  ReadingInv'
<1>1. rows \in [Photos -> RowState]
  BY DEF ReadingInv, RowsInv
<1>2. rows'[d] = row /\ \A n \in Photos \ {d} : rows'[n] = rows[n]
  BY <1>1
<1>3. RowsInv'
  BY <1>1, <1>2 DEF ReadingInv, RowsInv
<1>4. \A p, n : Kept(p, n) => Kept(p, n)'
  BY <1>2 DEF Kept
<1>5. PageInv'
  BY <1>4 DEF ReadingInv, PageInv
<1>6. ASSUME NEW e \in Submissions
      PROVE  submissions[e].at = "held" =>
               rows'[submissions[e].doc].status = "done"
  BY <1>2 DEF ReadingInv, EntriesInv, RowFree, Kept
<1>7. EntriesInv'
  BY <1>4, <1>6 DEF ReadingInv, EntriesInv
<1>8. StockedAsShown'
  BY <1>2 DEF ReadingInv, StockedAsShown
<1> QED
  BY <1>3, <1>5, <1>7, <1>8 DEF ReadingInv

LEMMA Begun ==
  ASSUME NEW row \in RowState, row.begun = 0, NEW r \in Reader
  PROVE  LET begun == [row EXCEPT !.status = "processing", !.begun = @ + 1]
             reads == [r EXCEPT !.at = "reads", !.reading = row.begun + 1] IN
         /\ begun \in RowState /\ begun.status = "processing"
         /\ reads \in Reader /\ reads.doc = r.doc
<1>1. row.begun + 1 = 1 /\ 1 \in 0..1 /\ "processing" \in RowStatuses
  BY DEF RowStatuses
<1>2. [row EXCEPT !.status = "processing", !.begun = 1] \in RowState
  BY <1>1 DEF RowState
<1>3. [row EXCEPT !.status = "processing", !.begun = 1].status = "processing"
  BY DEF RowState
<1>4. [r EXCEPT !.at = "reads", !.reading = 1] \in Reader
  BY <1>1 DEF Reader
<1>5. [r EXCEPT !.at = "reads", !.reading = 1].doc = r.doc
  BY DEF Reader
<1> QED
  BY <1>1, <1>2, <1>3, <1>4, <1>5

LEMMA ReadersMove ==
  ASSUME ReadingInv, NEW w \in Readers, BeginReading(w) \/ EndReading(w)
  PROVE  ReadingInv'
<1> DEFINE d == readers[w].doc
<1>1. /\ readers[w] \in Reader /\ d \in Photos /\ RowFree(d)
      /\ UNCHANGED <<flow, submissions, stocked, messages, twice, interrupted>>
      /\ rows[d] \in RowState
      /\ rows[d].status = "pending" => rows[d].begun = 0
  BY ReadingIs DEF BeginReading, EndReading, ReadingInv, WorkersInv, RowsInv
<1>2. ASSUME UNCHANGED rows, readers' = [readers EXCEPT ![w] = AtRest]
      PROVE  ReadingInv'
  <2>1. WorkersInv' /\ PageInv'
    BY <1>1, <1>2, ReadingIs DEF ReadingInv, WorkersInv, PageInv, Kept
  <2> QED
    BY <1>1, <1>2, <2>1, PageStep
<1>3. CASE BeginReading(w)
  <2>1. CASE rows[d].status = "pending"
    <3> DEFINE row == [rows[d] EXCEPT !.status = "processing", !.begun = @ + 1]
               r == [readers[w] EXCEPT !.at = "reads", !.reading = rows[d].begun + 1]
    <3>1. /\ row \in RowState /\ row.status = "processing"
          /\ r \in Reader /\ r.doc = d
      BY <1>1, <2>1, Begun
    <3>2. rows' = [rows EXCEPT ![d] = row] /\ readers' = [readers EXCEPT ![w] = r]
      BY <1>1, <1>3, <2>1 DEF BeginReading, ToRead, ReadingInv, RowsInv,
         WorkersInv, RowState, Reader
    <3> HIDE DEF row, r
    <3>3. WorkersInv'
      BY <1>1, <3>1, <3>2 DEF ReadingInv, WorkersInv
    <3> HIDE DEF d
    <3> QED
      BY <1>1, <2>1, <3>1, <3>2, <3>3, RowStep
  <2>2. CASE rows[d].status # "pending"
    BY <1>2, <1>3, <2>2 DEF BeginReading, ToRead
  <2> QED
    BY <2>1, <2>2
<1>4. CASE EndReading(w)
  <2>1. readers' = [readers EXCEPT ![w] = AtRest]
    BY <1>4 DEF EndReading
  <2>2. CASE rows[d].status = "processing"
    <3>1. PICK row \in RowState :
            /\ rows' = [rows EXCEPT ![d] = row]
            /\ row.status \in {"done", "failed"}
      <4> DEFINE a == [rows[d] EXCEPT !.status = "done",
                                      !.reading = readers[w].reading]
                 b == [rows[d] EXCEPT !.status = "failed"]
      <4>1. a \in RowState /\ b \in RowState /\ a.status = "done"
            /\ b.status = "failed"
        BY <1>1 DEF RowState, RowStatuses, Reader
      <4>2. rows' = [rows EXCEPT ![d] = a] \/ rows' = [rows EXCEPT ![d] = b]
        BY <1>1, <1>4, <2>2 DEF EndReading, ReadingInv, RowsInv, RowState
      <4> HIDE DEF a, b
      <4> QED
        BY <4>1, <4>2
    <3>2. WorkersInv'
      BY <1>1, <2>1, ReadingIs DEF ReadingInv, WorkersInv
    <3> HIDE DEF d
    <3> QED
      BY <1>1, <2>2, <3>1, <3>2, RowStep
  <2>3. CASE rows[d].status # "processing"
    BY <1>2, <1>4, <2>1, <2>3 DEF EndReading
  <2> QED
    BY <2>2, <2>3
<1> QED
  BY <1>3, <1>4

LEMMA ReviewStep ==
  ASSUME ReadingInv, NEW d \in Photos, ReviewElsewhere(d) PROVE ReadingInv'
<1> DEFINE row == [rows[d] EXCEPT !.status = "validated"]
<1>1. rows[d] \in RowState /\ rows[d].status = "done" /\ RowFree(d)
      /\ UNCHANGED <<flow, submissions, stocked, messages, readers, twice,
                     interrupted>>
  BY DEF ReviewElsewhere, ReadingInv, RowsInv
<1>2. row \in RowState /\ row.status = "validated" /\ row.reading = rows[d].reading
  BY <1>1 DEF RowState, RowStatuses
<1>3. rows' = [rows EXCEPT ![d] = row]
  BY DEF ReviewElsewhere, ReadingInv, RowsInv, RowState
<1> HIDE DEF row
<1>4. WorkersInv'
  BY <1>1 DEF ReadingInv, WorkersInv
<1> QED
  BY <1>1, <1>2, <1>3, <1>4, RowStep

(* A submission moves, the rows do not.                                    *)
LEMMA EntryStep ==
  ASSUME ReadingInv, NEW e \in Submissions, NEW s \in Entry,
         submissions' = [submissions EXCEPT ![e] = s],
         s.at # "none" => Kept(s.doc, s.lines),
         s.at = "held" => rows[s.doc].status = "done" /\ RowFree(s.doc),
         UNCHANGED <<rows, stocked, messages, readers, twice, interrupted>>,
         PageInv'
  PROVE  ReadingInv'
<1>1. submissions \in [Submissions -> Entry]
  BY DEF ReadingInv, EntriesInv
<1>2. submissions'[e] = s /\ \A f \in Submissions \ {e} : submissions'[f] = submissions[f]
  BY <1>1
<1>3. submissions' \in [Submissions -> Entry]
  BY <1>1
<1>4. EntriesInv'
  BY <1>2, <1>3 DEF ReadingInv, EntriesInv, Kept, RowFree
<1>5. RowsInv' /\ WorkersInv' /\ StockedAsShown'
  BY DEF ReadingInv, RowsInv, WorkersInv, StockedAsShown
<1> QED
  BY <1>4, <1>5 DEF ReadingInv

LEMMA EntriesMove ==
  ASSUME ReadingInv, NEW e \in Submissions,
         SubmitLines(e) \/ OpenRow(e) \/ UndoLines(e)
  PROVE  ReadingInv'
<1>1. /\ submissions[e] \in Entry /\ flow \in Page
      /\ UNCHANGED <<rows, stocked, messages, readers, twice, interrupted>>
      /\ submissions[e].at # "none" => Kept(submissions[e].doc, submissions[e].lines)
  BY DEF SubmitLines, OpenRow, UndoLines, ReadingInv, EntriesInv, PageInv
<1>2. CASE SubmitLines(e)
  <2> DEFINE s == [at |-> "sent", doc |-> flow.doc, lines |-> flow.lines]
  <2>1. s \in Entry /\ s.at = "sent" /\ s.doc = flow.doc /\ s.lines = flow.lines
    BY <1>1 DEF Entry, Page
  <2>2. Kept(s.doc, s.lines)
    BY <1>2, <2>1 DEF SubmitLines, ReadingInv, PageInv
  <2>3. PageInv'
    <3> DEFINE f == [flow EXCEPT !.sending = e]
    <3>1. e \in 0..MaxEntries
      BY ReadingIs, ReadingAssumption
    <3>2. /\ f \in Page /\ f.upload = flow.upload /\ f.failed = flow.failed
          /\ f.doc = flow.doc /\ f.lines = flow.lines /\ f.answer = flow.answer
      BY <1>1, <3>1 DEF Page
    <3>3. flow' = f
      BY <1>2 DEF SubmitLines
    <3> HIDE DEF f
    <3> QED
      BY <1>1, <3>2, <3>3 DEF ReadingInv, PageInv, Kept
  <2>4. submissions' = [submissions EXCEPT ![e] = s]
    BY <1>2 DEF SubmitLines
  <2> HIDE DEF s
  <2> QED
    BY <1>1, <2>1, <2>2, <2>3, <2>4, EntryStep
<1>3. CASE OpenRow(e) \/ UndoLines(e)
  <2>1. submissions[e].at # "none" /\ UNCHANGED flow
    BY <1>3 DEF OpenRow, UndoLines
  <2>2. PICK at \in {"held", "refused"} :
          /\ submissions' = [submissions EXCEPT ![e].at = at]
          /\ at = "held" => /\ rows[submissions[e].doc].status = "done"
                            /\ RowFree(submissions[e].doc)
    BY <1>3 DEF OpenRow, UndoLines
  <2> DEFINE s == [submissions[e] EXCEPT !.at = at]
  <2>3. /\ s \in Entry /\ s.at = at /\ s.doc = submissions[e].doc
        /\ s.lines = submissions[e].lines
    BY <1>1 DEF Entry
  <2>4. submissions' = [submissions EXCEPT ![e] = s]
    BY <2>2 DEF ReadingInv, EntriesInv, Entry
  <2>5. PageInv'
    BY <1>1, <2>1 DEF ReadingInv, PageInv, Kept
  <2> HIDE DEF s
  <2> QED
    BY <1>1, <2>1, <2>2, <2>3, <2>4, <2>5, EntryStep
<1> QED
  BY <1>2, <1>3

(* The lines enter the stock: the row was not validated, nothing of it was *)
(* there, and nobody else holds it.                                        *)
LEMMA RecordStep ==
  ASSUME ReadingInv, NEW e \in Submissions, RecordLines(e) PROVE ReadingInv'
<1> DEFINE d == submissions[e].doc
           n == submissions[e].lines
           row == [rows[d] EXCEPT !.status = "validated"]
           s == [submissions[e] EXCEPT !.at = "recorded"]
<1>1. /\ submissions[e] \in Entry /\ submissions[e].at = "held" /\ Kept(d, n)
      /\ rows[d].status = "done" /\ d \in Photos
      /\ UNCHANGED <<messages, readers, flow, twice, interrupted>>
  BY DEF RecordLines, ReadingInv, EntriesInv, Kept
<1>2. /\ rows \in [Photos -> RowState] /\ stocked \in [Photos -> Seq(0..1)]
      /\ submissions \in [Submissions -> Entry]
  BY DEF ReadingInv, RowsInv, EntriesInv
<1>3. /\ row \in RowState /\ row.status = "validated"
      /\ row.reading = rows[d].reading /\ row.begun = rows[d].begun
  BY <1>1, <1>2 DEF RowState, RowStatuses
<1>4. s \in Entry /\ s.at = "recorded" /\ s.doc = d /\ s.lines = n
  BY <1>1 DEF Entry
<1>5. n \in 0..1 /\ n = rows[d].reading /\ stocked[d] = <<>>
  BY <1>1, <1>2 DEF Kept, Entry, ReadingInv, StockedAsShown
<1>6. /\ rows' = [rows EXCEPT ![d] = row]
      /\ submissions' = [submissions EXCEPT ![e] = s]
  BY <1>2 DEF RecordLines, RowState, Entry
<1>7. stocked' = [stocked EXCEPT ![d] = <<n>>]
  <2>1. Append(stocked[d], n) = <<n>>
    BY <1>5
  <2>2. stocked' = [stocked EXCEPT ![d] = Append(stocked[d], n)]
    BY <1>2 DEF RecordLines
  <2> QED
    BY <2>1, <2>2
<1> HIDE DEF d, n, row, s
<1>8. rows'[d] = row /\ \A p \in Photos \ {d} : rows'[p] = rows[p]
  BY <1>1, <1>2, <1>6
<1>9. stocked'[d] = <<n>> /\ \A p \in Photos \ {d} : stocked'[p] = stocked[p]
  BY <1>1, <1>2, <1>7
<1>10. /\ submissions'[e] = s
       /\ \A f \in Submissions \ {e} : submissions'[f] = submissions[f]
  BY <1>2, <1>6
<1>11. \A p, k : Kept(p, k) => Kept(p, k)'
  BY <1>1, <1>3, <1>8 DEF Kept
<1>12. RowsInv'
  BY <1>1, <1>2, <1>3, <1>5, <1>6, <1>7, <1>8 DEF ReadingInv, RowsInv
<1>13. WorkersInv'
  BY <1>1 DEF ReadingInv, WorkersInv
<1>14. PageInv'
  BY <1>1, <1>11 DEF ReadingInv, PageInv
<1>15. EntriesInv'
  <2>1. \A f \in Submissions \ {e} :
          submissions[f].at = "held" => submissions[f].doc # d
    BY <1>1 DEF ReadingInv, EntriesInv, d
  <2>2. submissions' \in [Submissions -> Entry]
    BY <1>2, <1>4, <1>6
  <2>3. \A f \in Submissions :
          (submissions[f].at # "none" =>
             Kept(submissions[f].doc, submissions[f].lines))'
    BY <1>1, <1>4, <1>10, <1>11 DEF ReadingInv, EntriesInv
  <2>4. \A f \in Submissions \ {e} : submissions[f].at = "held" =>
          rows'[submissions[f].doc].status = "done"
    BY <1>8, <2>1 DEF ReadingInv, EntriesInv, Kept
  <2> QED
    BY <1>4, <1>10, <2>2, <2>3, <2>4 DEF ReadingInv, EntriesInv
<1>16. StockedAsShown'
  BY <1>3, <1>5, <1>8, <1>9 DEF ReadingInv, StockedAsShown
<1> QED
  BY <1>12, <1>13, <1>14, <1>15, <1>16 DEF ReadingInv

LEMMA ReadingStays == ReadingInv /\ [ReadingNext]_readingVars => ReadingInv'
<1> SUFFICES ASSUME ReadingInv, [ReadingNext]_readingVars PROVE ReadingInv'
  OBVIOUS
<1>1. CASE UNCHANGED readingVars
  <2>1. PageInv'
    BY <1>1 DEF readingVars, ReadingInv, PageInv, Kept
  <2> QED
    BY <1>1, <2>1, PageStep DEF readingVars
<1>2. CASE ReadingNext
  <2>1. CASE \/ SendPhoto \/ LeavePage \/ RefusePhoto \/ HearUpload
             \/ AskRow \/ ShowRow \/ HearSubmission
    BY <2>1, PageMoves
  <2>2. CASE StorePhoto
    BY <2>2, StoreStep
  <2>3. ASSUME NEW d \in Photos, DeliverTwice(d) PROVE ReadingInv'
    <3>1. WorkersInv' /\ PageInv' /\ UNCHANGED <<rows, stocked, submissions>>
      BY <2>3, ReadingAssumption
         DEF DeliverTwice, ReadingInv, WorkersInv, PageInv, Kept
    <3> QED
      BY <3>1, PageStep
  <2>4. ASSUME NEW d \in Photos, ReviewElsewhere(d) PROVE ReadingInv'
    BY <2>4, ReviewStep
  <2>5. ASSUME NEW w \in Readers, BeginReading(w) \/ EndReading(w)
        PROVE  ReadingInv'
    BY <2>5, ReadersMove
  <2>6. ASSUME NEW w \in Readers, ReaderDies(w) PROVE ReadingInv'
    <3>1. WorkersInv' /\ PageInv' /\ UNCHANGED <<rows, stocked, submissions>>
      BY <2>6, ReadingIs DEF ReaderDies, ReadingInv, WorkersInv, PageInv, Kept
    <3> QED
      BY <3>1, PageStep
  <2>7. ASSUME NEW w \in Readers, NEW d \in Photos, TakeMessage(w, d)
        PROVE  ReadingInv'
    BY <2>7, WorkersMove
  <2>8. ASSUME NEW e \in Submissions,
               SubmitLines(e) \/ OpenRow(e) \/ RecordLines(e) \/ UndoLines(e)
        PROVE  ReadingInv'
    BY <2>8, EntriesMove, RecordStep
  <2> QED
    BY <1>2, <2>1, <2>2, <2>3, <2>4, <2>5, <2>6, <2>7, <2>8 DEF ReadingNext
<1> QED
  BY <1>1, <1>2

LEMMA ReadingInvariance == ReadingSpec => []ReadingInv
BY ReadingStarts, ReadingStays, PTL DEF ReadingSpec

(* The rows, the messages, the workers, the page and its submissions keep  *)
(* their form: in particular a row is read once, whatever is delivered     *)
(* twice.                                                                  *)
THEOREM ReadingTypeCorrect == ReadingSpec => []ReadingTypeOK
<1>1. ReadingInv => ReadingTypeOK
  <2> SUFFICES ASSUME ReadingInv PROVE ReadingTypeOK
    OBVIOUS
  <2>1. RowState \subseteq Rows
    BY DEF RowState, Rows
  <2>2. rows \in [Photos -> Rows] /\ stocked \in [Photos -> Seq(0..2)]
    BY <2>1 DEF ReadingInv, RowsInv
  <2>3. Reader \subseteq [at : {"rest", "taken", "reads"}, doc : 0..MaxPhotos,
                          reading : 0..2]
    BY DEF Reader
  <2>4. Entry \subseteq [at : {"none", "sent", "held", "recorded", "refused"},
                         doc : 0..MaxPhotos, lines : 0..2]
    BY DEF Entry
  <2>5. Page \subseteq
       [upload : {"none", "sent", "created", "refused", "heard"},
        failed : BOOLEAN, doc : 0..MaxPhotos, answer : Rows, shown : Rows,
        lines : 0..2, sending : 0..MaxEntries]
    BY <2>1 DEF Page
  <2> QED
    BY <2>2, <2>3, <2>4, <2>5
       DEF ReadingInv, WorkersInv, PageInv, EntriesInv, ReadingTypeOK
<1> QED
  BY <1>1, ReadingInvariance, PTL

(* For any photos, workers and submissions, messages that come twice,      *)
(* deaths and lost answers: an invoice enters the stock once at most, as   *)
(* its page showed it.                                                     *)
THEOREM InvoicesEnterOnce == ReadingSpec => []StockedAsShown
<1>1. ReadingInv => StockedAsShown
  BY DEF ReadingInv
<1> QED
  BY <1>1, ReadingInvariance, PTL
=============================================================================
