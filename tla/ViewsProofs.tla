----------------------------- MODULE ViewsProofs -----------------------------
(***************************************************************************)
(* Proofs about what the screens show (Appearance, Reading, QueryCache,    *)
(* Listing, Lines, OrderDetail): the invariants the runs Screens and       *)
(* Settling check, for any value of the constants and of their bounds.     *)
(***************************************************************************)
EXTENDS Appearance, Reading, QueryCache, Listing, Lines, OrderDetail,
        SequenceTheorems, FiniteSetTheorems, TLAPS

-----------------------------------------------------------------------------
(* Appearance: the preferences that apply at once.                         *)

(* The saves to make end with the last choice, and the one that has been   *)
(* applied is what the account has.                                        *)
QueueInv ==
  /\ ~synced => clicks = <<>> /\ lastLook = Unset
  /\ clicks # <<>> => clicks[Len(clicks)].look = lastLook
  /\ sending = "applied" => stored = clicks[1].look

(* While no save has failed, what is shown is the last choice; so is what  *)
(* the account has once all are made, and what the cache has, unless the   *)
(* answers of the saves before the last one are put there, or the account  *)
(* was read again in between; and so is what a reading asked for since has *)
(* read.                                                                   *)
ChoiceInv ==
  /\ asking # "none" /\ synced /\ ~reread => clicks = <<>>
  /\ ~anyFailed /\ lastLook # Unset =>
       /\ display = lastLook
       /\ clicks = <<>> => stored = lastLook
       /\ ~reread /\ (clicks = <<>> \/ ~answers) => inCache = lastLook
       /\ ~reread /\ asking = "read" => asked = lastLook

LookInv == LookTypeOK /\ QueueInv /\ ChoiceInv

(* The saves to make after a click: its own is last, the first one stays.  *)
LEMMA ClickQueued ==
  ASSUME LookTypeOK, NEW look \in Looks, ChooseLook(look)
  PROVE  /\ clicks' \in Seq([look : Looks, inCache : AnyLook, display : Looks])
         /\ clicks' # <<>> /\ sending' # "none"
         /\ clicks'[Len(clicks')].look = look
         /\ clicks # <<>> => clicks'[1] = clicks[1] /\ sending' = sending
         /\ clicks = <<>> => sending' = "sent"
PROOF
<1> DEFINE saves == [look : Looks, inCache : AnyLook, display : Looks]
           save == [look |-> look, inCache |-> inCache, display |-> display]
<1>1. save \in saves /\ clicks \in Seq(saves)
  BY DEF LookTypeOK
<1>2. clicks' = Append(clicks, save)
  BY DEF ChooseLook
<1>3. /\ clicks' \in Seq(saves) /\ Len(clicks') = Len(clicks) + 1
      /\ clicks'[Len(clicks')] = save
      /\ \A i \in 1..Len(clicks) : clicks'[i] = clicks[i]
  <2> HIDE DEF save, saves
  <2> QED BY <1>1, <1>2
<1>4. clicks # <<>> => 1 \in 1..Len(clicks)
  BY <1>1
<1>5. clicks' # <<>>
  BY <1>2, <1>3, <1>1
<1> QED BY <1>1, <1>3, <1>4, <1>5 DEF ChooseLook, LookTypeOK

LEMMA FirstSave ==
  ASSUME LookTypeOK, clicks # <<>>
  PROVE  clicks[1] \in [look : Looks, inCache : AnyLook, display : Looks]
PROOF
<1> DEFINE saves == [look : Looks, inCache : AnyLook, display : Looks]
<1>1. clicks \in Seq(saves)
  BY DEF LookTypeOK
<1>2. clicks[1] \in saves
  <2> HIDE DEF saves
  <2> QED BY <1>1
<1> QED BY <1>2

(* What is left of the saves to make when the first one has ended.         *)
LEMMA SaveLeft ==
  ASSUME LookTypeOK, sending # "none", NextLook
  PROVE  /\ clicks[1] \in [look : Looks, inCache : AnyLook, display : Looks]
         /\ clicks' \in Seq([look : Looks, inCache : AnyLook, display : Looks])
         /\ clicks' = <<>> <=> Len(clicks) = 1
         /\ (clicks' = <<>>) <=> (sending' = "none")
         /\ clicks' # <<>> =>
              sending' = "sent" /\ clicks'[Len(clicks')] = clicks[Len(clicks)]
PROOF
<1> DEFINE saves == [look : Looks, inCache : AnyLook, display : Looks]
<1>1. clicks \in Seq(saves) /\ clicks # <<>> /\ clicks' = Tail(clicks)
  BY DEF LookTypeOK, NextLook
<1>2. /\ clicks' \in Seq(saves) /\ Len(clicks') = Len(clicks) - 1
      /\ \A i \in 1..Len(clicks') : clicks'[i] = clicks[i + 1]
      /\ clicks[1] \in saves /\ Len(clicks) \in Nat \ {0}
  <2> HIDE DEF saves
  <2> QED BY <1>1
<1>3. clicks' = <<>> <=> Len(clicks) = 1
  <2> HIDE DEF saves
  <2> QED BY <1>1, <1>2
<1>4. clicks' # <<>> => clicks'[Len(clicks')] = clicks[Len(clicks)]
  <2> HIDE DEF saves
  <2> QED BY <1>2, <1>3
<1> QED BY <1>2, <1>3, <1>4 DEF NextLook

LEMMA LooksStart == LookInit => LookInv
PROOF
<1> SUFFICES ASSUME LookInit PROVE LookInv
  OBVIOUS
<1>1. <<>> \in Seq([look : Looks, inCache : AnyLook, display : Looks])
  OBVIOUS
<1>2. LookTypeOK
  <2>1. count \in 0..MaxClicks
    BY MaxClicksAssumption DEF LookInit
  <2> QED BY <1>1, <2>1 DEF LookInit, LookTypeOK, AnyLook
<1>3. QueueInv /\ ChoiceInv
  BY DEF LookInit, QueueInv, ChoiceInv
<1> QED BY <1>2, <1>3 DEF LookInv

(* A click keeps them, whatever the saves before it come to.               *)
LEMMA ClickKeeps ==
  ASSUME LookInv, NEW look \in Looks, ChooseLook(look),
         display' = look, synced', UNCHANGED <<answers, stored>>,
         count' \in 0..MaxClicks, synced' \in BOOLEAN
  PROVE  LookInv'
PROOF
<1> USE UnsetAssumption DEF LookInv
<1>1. LookTypeOK'
  BY ClickQueued DEF LookTypeOK, ChooseLook, AnyLook
<1>2. QueueInv'
  BY ClickQueued DEF QueueInv, LookTypeOK, ChooseLook
<1>3. ChoiceInv'
  BY ClickQueued DEF ChoiceInv, LookTypeOK, ChooseLook
<1> QED BY <1>1, <1>2, <1>3

LEMMA LooksStep == LookInv /\ [LookNext]_lookVars => LookInv'
PROOF
<1> SUFFICES ASSUME LookInv, [LookNext]_lookVars PROVE LookInv'
  OBVIOUS
<1> USE UnsetAssumption, MaxClicksAssumption DEF LookInv
<1>0. CASE UNCHANGED lookVars
  BY <1>0 DEF lookVars, LookTypeOK, QueueInv, ChoiceInv
<1>1. CASE \E look \in Looks : Click(look)
  <2> PICK look \in Looks : Click(look)
    BY <1>1
  <2>1. count' \in 0..MaxClicks
    BY DEF Click, LookTypeOK
  <2> QED BY <2>1, ClickKeeps DEF Click, LookTypeOK
<1>2. CASE ApplyLook
  <2>1. clicks # <<>> /\ Head(clicks) = clicks[1]
    BY <1>2 DEF LookTypeOK, ApplyLook
  <2>2. clicks[1].look \in Looks
    BY <2>1, FirstSave
  <2>3. LookTypeOK'
    BY <1>2, <2>1, <2>2 DEF LookTypeOK, ApplyLook, AnyLook
  <2> QED BY <1>2, <2>1, <2>3 DEF QueueInv, ChoiceInv, ApplyLook
<1>3. CASE AnswerLook
  <2>1. Head(clicks) = clicks[1] /\ sending # "none" /\ clicks # <<>>
    BY <1>3 DEF LookTypeOK, AnswerLook
  <2>2. LookTypeOK'
    BY <1>3, <2>1, SaveLeft DEF LookTypeOK, AnswerLook, AnyLook
  <2>3. QueueInv'
    BY <1>3, <2>1, SaveLeft DEF QueueInv, AnswerLook
  <2>4. clicks' = <<>> => clicks[1].look = lastLook /\ stored = lastLook
    BY <1>3, <2>1, SaveLeft DEF QueueInv, AnswerLook
  <2>5. ChoiceInv'
    BY <1>3, <2>1, <2>4 DEF ChoiceInv, AnswerLook
  <2> QED BY <2>2, <2>3, <2>5
<1>4. CASE FailLook
  <2>1. Head(clicks) = clicks[1] /\ sending # "none" /\ clicks # <<>>
    BY <1>4 DEF LookTypeOK, FailLook
  <2>2. LookTypeOK'
    BY <1>4, <2>1, SaveLeft DEF LookTypeOK, FailLook, AnyLook
  <2>3. QueueInv'
    BY <1>4, <2>1, SaveLeft DEF QueueInv, FailLook
  <2>4. ChoiceInv'
    BY <1>4, <2>1 DEF ChoiceInv, FailLook
  <2> QED BY <2>2, <2>3, <2>4
<1>5. CASE AskAccount
  BY <1>5 DEF LookTypeOK, QueueInv, ChoiceInv, AskAccount
<1>6. CASE ReadAccount
  BY <1>6 DEF LookTypeOK, QueueInv, ChoiceInv, ReadAccount
<1>7. CASE ArriveAccount
  <2>1. CASE synced
    <3>1. LookTypeOK'
      <4>1. count' \in 0..MaxClicks /\ answers' \in BOOLEAN
            /\ synced' \in BOOLEAN /\ anyFailed' \in BOOLEAN
            /\ reread' \in BOOLEAN
        BY <1>7, <2>1 DEF LookTypeOK, ArriveAccount
      <4>2. (clicks = <<>> <=> sending = "none")'
        BY <1>7, <2>1 DEF LookTypeOK, ArriveAccount
      <4>3. /\ stored' \in AnyLook /\ inCache' \in AnyLook /\ asked' \in AnyLook
            /\ lastLook' \in AnyLook /\ display' \in Looks
        BY <1>7, <2>1 DEF LookTypeOK, ArriveAccount, AnyLook
      <4>4. /\ sending' \in {"none", "sent", "applied"}
            /\ asking' \in {"none", "asked", "read"}
            /\ UNCHANGED clicks
        BY <1>7, <2>1 DEF LookTypeOK, ArriveAccount
      <4> QED BY <4>1, <4>2, <4>3, <4>4 DEF LookTypeOK
    <3>2. QueueInv'
      BY <1>7, <2>1 DEF QueueInv, ArriveAccount
    <3>3. ChoiceInv'
      BY <1>7, <2>1 DEF ChoiceInv, ArriveAccount
    <3> QED BY <3>1, <3>2, <3>3
  <2>2. CASE ~synced /\ asked = Unset
    BY <1>7, <2>2, ClickKeeps DEF ArriveAccount, Follow, LookTypeOK
  <2>3. CASE ~synced /\ asked # Unset
    BY <1>7, <2>3
    DEF ArriveAccount, Follow, LookTypeOK, QueueInv, ChoiceInv, AnyLook
  <2> QED BY <2>1, <2>2, <2>3
<1> QED BY <1>0, <1>1, <1>2, <1>3, <1>4, <1>5, <1>6, <1>7 DEF LookNext

(* The types of the preferences and of the saves to make.                  *)
THEOREM LookTypes == LookSpec => []LookTypeOK
PROOF
<1>1. LookInv => LookTypeOK
  BY DEF LookInv
<1> QED BY <1>1, LooksStart, LooksStep, PTL DEF LookSpec

(* Quick clicks are saved in their order: once all have been, none having  *)
(* failed, the account has the last choice, still shown and cached.        *)
THEOREM LastSelectionIsSaved == LookSpec => []LastSelectionWins
PROOF
<1>1. LookInv => LastSelectionWins
  BY DEF LookInv, ChoiceInv, LastSelectionWins
<1> QED BY <1>1, LooksStart, LooksStep, PTL DEF LookSpec

-----------------------------------------------------------------------------
(* Reading: what is said while something is read.                          *)

PanelSpec == PanelInit /\ [][PanelNext]_panelVars /\ PanelFairness

(* A part that shows one thing has never been answered that there is       *)
(* nothing, so that it keeps no such answer of the previous one either.    *)
OneInv ==
  Of.one => earlier # "none" /\ \A s \in Subjects : held[s] # "none"

PanelInv == PanelTypeOK /\ OneInv

LEMMA PanelStarts == PanelInit => PanelInv
PROOF
<1> SUFFICES ASSUME PanelInit PROVE PanelInv
  OBVIOUS
<1> QED BY DEF PanelInit, PanelInv, PanelTypeOK, OneInv, Subjects

LEMMA PanelTypeKept == PanelTypeOK /\ [PanelNext]_panelVars => PanelTypeOK'
PROOF
<1> SUFFICES ASSUME PanelTypeOK, [PanelNext]_panelVars PROVE PanelTypeOK'
  OBVIOUS
<1> USE DEF PanelTypeOK, Subjects
<1>0. CASE UNCHANGED panelVars
  BY <1>0 DEF panelVars
<1>1. CASE AskAgain
  BY <1>1 DEF AskAgain, Begun
<1>2. CASE Cut
  BY <1>2 DEF Cut
<1>3. CASE Restore
  <2> DEFINE resumed == [s \in Subjects |-> Resumed(loading[s])]
  <2>1. resumed \in [Subjects -> {"idle", "fetching", "paused"}]
    BY DEF Resumed
  <2>2. loading' \in [Subjects -> {"idle", "fetching", "paused"}]
    BY <1>3, <2>1 DEF Restore
  <2>3. wrong' \in [Subjects -> {"no", "failed", "missing"}]
    BY <1>3 DEF Restore
  <2> QED BY <1>3, <2>2, <2>3 DEF Restore
<1>4. ASSUME NEW s \in Subjects, ShowOther(s)
      PROVE  PanelTypeOK'
  BY <1>4 DEF ShowOther, Begun
<1>5. ASSUME NEW s \in Subjects, LetGo(s)
      PROVE  PanelTypeOK'
  BY <1>5 DEF LetGo
<1>6. ASSUME NEW s \in Subjects, TellSome(s)
      PROVE  PanelTypeOK'
  BY <1>6 DEF TellSome
<1>7. ASSUME NEW s \in Subjects, TellNone(s)
      PROVE  PanelTypeOK'
  BY <1>7 DEF TellNone
<1>8. ASSUME NEW s \in Subjects, FailTwice(s)
      PROVE  PanelTypeOK'
  BY <1>8 DEF FailTwice
<1>9. ASSUME NEW s \in Subjects, Pause(s)
      PROVE  PanelTypeOK'
  BY <1>9 DEF Pause
<1> QED BY <1>0, <1>1, <1>2, <1>3, <1>4, <1>5, <1>6, <1>7, <1>8, <1>9
        DEF PanelNext

(* Only an answer adds to what is held; of one thing, it is never nothing. *)
LEMMA OneKept == PanelInv /\ [PanelNext]_panelVars => OneInv'
PROOF
<1> SUFFICES ASSUME PanelInv, [PanelNext]_panelVars, Of.one, Of' = Of
             PROVE  (earlier # "none" /\ \A s \in Subjects : held[s] # "none")'
  <2>1. ASSUME [PanelNext]_panelVars PROVE part' = part
    BY <2>1 DEF PanelNext, panelVars, AskAgain, Cut, Restore, ShowOther, LetGo,
                TellSome, TellNone, FailTwice, Pause
  <2> QED BY <2>1 DEF OneInv, Of
<1> USE DEF PanelInv, OneInv, PanelTypeOK
<1>1. \/ UNCHANGED <<held, earlier>>
      \/ UNCHANGED held /\ earlier' \in {earlier, held[subject]}
      \/ \E s \in Subjects :
           UNCHANGED earlier /\ held' = [held EXCEPT ![s] = "unread"]
      \/ \E s \in Subjects :
           UNCHANGED earlier /\ held' = [held EXCEPT ![s] = "some"]
  BY DEF PanelNext, panelVars, AskAgain, Cut, Restore, ShowOther, LetGo,
         TellSome, TellNone, FailTwice, Pause
<1> QED BY <1>1

LEMMA PanelStep == PanelInv /\ [PanelNext]_panelVars => PanelInv'
  BY PanelTypeKept, OneKept DEF PanelInv

(* The types of what is held, being read and gone wrong.                   *)
THEOREM PanelTypes == PanelSpec => []PanelTypeOK
PROOF
<1>1. PanelInv => PanelTypeOK
  BY DEF PanelInv
<1> QED BY <1>1, PanelStarts, PanelStep, PTL DEF PanelSpec

(* Nothing is said to be empty, or not to exist, that may not be, by any   *)
(* part of a screen whose row obeys the rule (Knowing): only an answer     *)
(* says so, whatever was cut, failed or turned away from before.           *)
THEOREM OnlyAnswersSayNothing == PanelSpec => []NothingOnlyIfSo
PROOF
<1>1. PanelInv => NothingOnlyIfSo
  <2> SUFFICES ASSUME PanelInv, Says = "nothing", part \notin Presuming
               PROVE  held[subject] = "none" \/ wrong[subject] = "missing"
    BY DEF NothingOnlyIfSo
  <2>1. Knowing(Of) /\ Of \in PanelKinds
    BY PanelsAssumption DEF PanelInv, PanelTypeOK, Of
  <2>2. CASE Given = "none"
    BY <2>1, <2>2 DEF Given, Knowing, PanelInv, OneInv
  <2>3. CASE Given # "none"
    <3>1. Of.absent = "nothing" /\ ~Waiting /\ Given # "some"
          /\ (wrong[subject] # "no" => Of.tells = "never")
      BY <2>1, <2>3 DEF Says, PanelKinds
    <3>2. Of.waits = "pending" /\ Of.tells # "never"
      BY <2>1, <3>1 DEF Knowing
    <3>3. Given \in {"unread", "some", "none"}
      BY DEF Given, PanelInv, PanelTypeOK
    <3> QED BY <2>3, <3>1, <3>2, <3>3 DEF Waiting
  <2> QED BY <2>2, <2>3
<1> QED BY <1>1, PanelStarts, PanelStep, PTL DEF PanelSpec

-----------------------------------------------------------------------------
(* QueryCache: what a write has read again.                                *)

(* The write under way concerns the query, and what this browser knows it  *)
(* changed is older than what that write makes of the backend.             *)
WriteInv ==
  /\ known <= server
  /\ write.state # "none" => write.op \in Writes /\ Concerns(write.op)
  /\ write.state = "sent" => server < MaxWrites
  /\ write.state = "done" => known <= write.made /\ write.made <= server

(* An answer already read that lacks a change known here is known to have  *)
(* been crossed by it.                                                     *)
CrossedInv == fetch = "read" /\ got < known => crossed

CacheInv == CacheTypeOK /\ WriteInv /\ CrossedInv /\ OwnWritesShown

Cached ==
  /\ data \in -1..MaxWrites /\ got \in 0..MaxWrites
  /\ stale \in BOOLEAN /\ shown \in BOOLEAN
  /\ failed \in BOOLEAN /\ crossed \in BOOLEAN
  /\ fetch \in {"none", "asked", "read"}

(* What is read again: at once, or when it is next shown.  Nothing else is *)
(* lost of what is known of what is cached.                                *)
LEMMA Invalidated ==
  ASSUME Cached, MaxWrites \in Nat, NEW op, Invalidate(op)
  PROVE  /\ Cached' /\ UNCHANGED <<data, shown>>
         /\ data # -1 => (stale => stale')
         /\ \/ fetch' = "asked"
            \/ /\ UNCHANGED <<fetch, got, failed>>
               /\ (crossed => crossed')
               /\ (fetch = "read" /\ got < write.made => crossed')
         /\ (/\ data # -1
             /\ \/ Covered(view.key, op.again) /\ view.key \notin op.except
                \/ Covered(view.key, op.later)) => stale'
PROOF
<1> DEFINE again == Covered(view.key, op.again) /\ view.key \notin op.except
           later == Covered(view.key, op.later)
           restart == again /\ shown /\ (fetch = "none" \/ data # -1)
           lacks == fetch = "read" /\ got < write.made
<1>1. /\ UNCHANGED <<data, shown>>
      /\ stale' = (data # -1 /\ (stale \/ again \/ later))
      /\ fetch' = IF restart THEN "asked" ELSE fetch
      /\ got' = IF restart THEN 0 ELSE got
      /\ failed' = (failed /\ ~restart)
      /\ crossed' = IF restart THEN FALSE ELSE crossed \/ lacks
  BY DEF Invalidate
<1>2. data # -1 /\ (again \/ later \/ stale) => stale'
  <2> HIDE DEF again, later
  <2> QED BY <1>1, Zenon
<1>3. CASE restart
  <2>1. Cached'
    <3>1. crossed' = FALSE /\ failed' \in BOOLEAN /\ stale' \in BOOLEAN
      <4> HIDE DEF again, later, lacks
      <4> QED BY <1>1, <1>3, Zenon
    <3>2. shown' \in BOOLEAN
      BY <1>1 DEF Cached
    <3>3. /\ data' \in -1..MaxWrites /\ got' \in 0..MaxWrites
          /\ fetch' \in {"none", "asked", "read"}
      <4> HIDE DEF restart
      <4> QED BY <1>1, <1>3 DEF Cached
    <3>4. crossed' \in BOOLEAN
      BY <3>1
    <3> QED BY <3>1, <3>2, <3>3, <3>4 DEF Cached
  <2>2. fetch' = "asked"
    <3> HIDE DEF restart
    <3> QED BY <1>1, <1>3
  <2> QED BY <1>1, <1>2, <2>1, <2>2
<1>4. CASE ~restart
  <2>1. UNCHANGED <<fetch, got>> /\ failed' = failed
        /\ crossed' = (crossed \/ lacks)
    <3>1. UNCHANGED <<fetch, got>> /\ crossed' = (crossed \/ lacks)
      <4> HIDE DEF restart, lacks
      <4> QED BY <1>1, <1>4
    <3>2. failed' = failed
      <4> HIDE DEF restart
      <4> QED BY <1>1, <1>4 DEF Cached
    <3> QED BY <3>1, <3>2
  <2>2. Cached'
    <3>1. crossed' \in BOOLEAN /\ stale' \in BOOLEAN
      <4> HIDE DEF again, later, lacks
      <4> QED BY <1>1, <2>1, Zenon
    <3>2. shown' \in BOOLEAN /\ failed' \in BOOLEAN
      BY <1>1, <2>1 DEF Cached
    <3> QED BY <1>1, <2>1, <3>1, <3>2 DEF Cached
  <2>3. (crossed => crossed') /\ (lacks => crossed')
    <3> HIDE DEF lacks
    <3> QED BY <2>1, Zenon
  <2> QED BY <1>1, <1>2, <2>1, <2>2, <2>3
<1> QED BY <1>3, <1>4

LEMMA CacheParts ==
  CacheTypeOK <=>
    /\ view \in Views /\ server \in 0..MaxWrites /\ known \in 0..MaxWrites
    /\ write \in [state : {"none", "sent", "done"},
                  op : Writes \cup {NoWrite.op}, made : 0..MaxWrites]
    /\ Cached
BY DEF CacheTypeOK, Cached

LEMMA Counted ==
  /\ -1 \in -1..MaxWrites /\ 0 \in 0..MaxWrites
  /\ \A n \in 0..MaxWrites : n \in -1..MaxWrites
BY MaxWritesAssumption

LEMMA NoWriteTyped ==
  /\ NoWrite \in [state : {"none", "sent", "done"},
                  op : Writes \cup {NoWrite.op}, made : 0..MaxWrites]
  /\ NoWrite.state = "none"
PROOF
<1> DEFINE none == Write("", {}, {})
<1>1. NoWrite = [state |-> "none", op |-> none, made |-> 0]
  BY DEF NoWrite
<1>2. NoWrite.op = none /\ NoWrite.state = "none"
  <2> HIDE DEF none
  <2> QED BY <1>1
<1>3. [state |-> "none", op |-> none, made |-> 0]
        \in [state : {"none", "sent", "done"}, op : Writes \cup {none},
            made : 0..MaxWrites]
  <2> HIDE DEF none
  <2> QED BY MaxWritesAssumption
<1> HIDE DEF none
<1> QED BY <1>1, <1>2, <1>3

LEMMA CacheStarts == CacheInit => CacheInv
PROOF
<1> SUFFICES ASSUME CacheInit PROVE CacheInv
  OBVIOUS
<1>1. CacheTypeOK
  BY Counted, NoWriteTyped DEF CacheInit, CacheTypeOK
<1>2. WriteInv /\ CrossedInv /\ OwnWritesShown
  BY MaxWritesAssumption, NoWriteTyped
     DEF CacheInit, WriteInv, CrossedInv, OwnWritesShown
<1> QED BY <1>1, <1>2 DEF CacheInv

(* A write that ends may have what it changed read again; its effect is    *)
(* known then, or nothing more is.                                         *)
LEMMA WriteEnds ==
  ASSUME CacheInv, write.state # "none", write' = NoWrite,
         UNCHANGED <<view, server>>, Invalidate(write.op),
         \/ known' = known
         \/ /\ write.state = "done" /\ known' = write.made
            /\ \/ Covered(view.key, write.op.again)
                  /\ view.key \notin write.op.except
               \/ Covered(view.key, write.op.later)
  PROVE  CacheInv'
PROOF
<1> USE MaxWritesAssumption
<1>1. /\ Cached /\ view \in Views /\ server \in 0..MaxWrites
      /\ known \in 0..MaxWrites /\ write.made \in 0..MaxWrites
  BY CacheParts DEF CacheInv
<1>2. Cached' /\ write'.state = "none"
  BY <1>1, Invalidated, NoWriteTyped
<1>3. known' \in 0..MaxWrites /\ known' <= server
  <2>1. write.state = "done" => write.made <= server
    BY DEF CacheInv, WriteInv
  <2> QED BY <1>1, <2>1 DEF CacheInv, WriteInv
<1>4. CacheTypeOK'
  BY <1>1, <1>2, <1>3, NoWriteTyped DEF CacheTypeOK, Cached
<1>5. WriteInv'
  BY <1>2, <1>3 DEF WriteInv
<1>6. fetch' = "asked" \/ UNCHANGED <<fetch, got, failed>>
  BY <1>1, Invalidated
<1>7. ASSUME fetch' = "read", got' < known' PROVE crossed'
  BY <1>1, <1>6, <1>7, Invalidated DEF CacheInv, CrossedInv
<1>8. ASSUME data' # -1, data' < known' PROVE stale' \/ fetch' # "none" \/ failed' \/ crossed'
  <2>1. UNCHANGED data
    BY <1>1, Invalidated
  <2>2. CASE known' = known
    BY <1>1, <1>8, <2>1, <2>2, Invalidated DEF CacheInv, OwnWritesShown
  <2>3. CASE known' # known
    BY <1>1, <1>8, <2>1, <2>3, Invalidated
  <2> QED BY <2>2, <2>3
<1> QED BY <1>4, <1>5, <1>7, <1>8 DEF CacheInv, CrossedInv, OwnWritesShown

LEMMA CacheStep == CacheInv /\ [CacheNext]_cacheVars => CacheInv'
PROOF
<1> SUFFICES ASSUME CacheInv, [CacheNext]_cacheVars PROVE CacheInv'
  OBVIOUS
<1> USE MaxWritesAssumption
<1>t. /\ Cached /\ view \in Views /\ server \in 0..MaxWrites
      /\ known \in 0..MaxWrites
      /\ write \in [state : {"none", "sent", "done"},
                    op : Writes \cup {NoWrite.op}, made : 0..MaxWrites]
  BY CacheParts DEF CacheInv
<1>i. WriteInv /\ CrossedInv /\ OwnWritesShown
  BY DEF CacheInv
<1>f. ASSUME Cached', UNCHANGED <<view, server, known, write>>,
             CrossedInv', OwnWritesShown'
      PROVE  CacheInv'
  <2>1. CacheTypeOK'
    BY <1>t, <1>f DEF CacheTypeOK, Cached
  <2>2. WriteInv'
    BY <1>i, <1>f DEF WriteInv, Concerns
  <2> QED BY <1>f, <2>1, <2>2 DEF CacheInv
<1>0. CASE UNCHANGED cacheVars
  BY <1>0, <1>t, <1>i, <1>f DEF cacheVars, Cached, CrossedInv, OwnWritesShown
<1>1. CASE Mount
  <2>1. Cached'
    BY <1>1, <1>t DEF Mount, Cached
  <2>2. CrossedInv' /\ OwnWritesShown'
    BY <1>1, <1>t, <1>i DEF Mount, CrossedInv, OwnWritesShown, Cached
  <2> QED BY <1>1, <2>1, <2>2, <1>f DEF Mount
<1>2. CASE Unmount
  <2>1. Cached'
    BY <1>2, <1>t DEF Unmount, Cached
  <2>2. CrossedInv' /\ OwnWritesShown'
    BY <1>2, <1>t, <1>i DEF Unmount, CrossedInv, OwnWritesShown, Cached
  <2> QED BY <1>2, <2>1, <2>2, <1>f DEF Unmount
<1>3. CASE Read
  <2>1. Cached'
    BY <1>3, <1>t DEF Read, Cached
  <2>2. CrossedInv' /\ OwnWritesShown'
    BY <1>3, <1>t, <1>i DEF Read, WriteInv, CrossedInv, OwnWritesShown, Cached
  <2> QED BY <1>3, <2>1, <2>2, <1>f DEF Read
<1>4. CASE Arrive
  <2>1. Cached'
    BY <1>4, <1>t, Counted DEF Arrive, Cached
  <2>2. CrossedInv' /\ OwnWritesShown'
    BY <1>4, <1>t, <1>i DEF Arrive, CrossedInv, OwnWritesShown, Cached
  <2> QED BY <1>4, <2>1, <2>2, <1>f DEF Arrive
<1>5. CASE Fail
  <2>1. Cached'
    BY <1>5, <1>t DEF Fail, Cached
  <2>2. CrossedInv' /\ OwnWritesShown'
    BY <1>5, <1>t, <1>i DEF Fail, CrossedInv, OwnWritesShown, Cached
  <2> QED BY <1>5, <2>1, <2>2, <1>f DEF Fail
<1>6. CASE Age
  <2>1. Cached'
    BY <1>6, <1>t DEF Age, Cached
  <2>2. CrossedInv' /\ OwnWritesShown'
    BY <1>6, <1>t, <1>i DEF Age, CrossedInv, OwnWritesShown, Cached
  <2> QED BY <1>6, <2>1, <2>2, <1>f DEF Age
<1>7. CASE Collect
  <2>1. Cached'
    BY <1>7, <1>t, Counted DEF Collect, Cached
  <2>2. CrossedInv' /\ OwnWritesShown'
    BY <1>7, <1>t, <1>i DEF Collect, CrossedInv, OwnWritesShown, Cached
  <2> QED BY <1>7, <2>1, <2>2, <1>f DEF Collect
<1>8. ASSUME NEW op \in Writes, SendWrite(op)
      PROVE  CacheInv'
  <2>1. Cached' /\ CrossedInv' /\ OwnWritesShown'
    BY <1>8, <1>t, <1>i
       DEF SendWrite, cachePart, Cached, CrossedInv, OwnWritesShown
  <2>2. write' = [state |-> "sent", op |-> op, made |-> 0]
        /\ UNCHANGED <<view, server, known>>
    BY <1>8 DEF SendWrite
  <2>3. CacheTypeOK'
    BY <1>t, <2>1, <2>2 DEF CacheTypeOK, Cached
  <2>4. WriteInv'
    BY <1>8, <1>i, <2>2 DEF WriteInv, SendWrite, Concerns
  <2> QED BY <2>1, <2>3, <2>4 DEF CacheInv
<1>9. CASE Apply
  <2>1. Cached' /\ CrossedInv' /\ OwnWritesShown'
    BY <1>9, <1>t, <1>i
       DEF Apply, cachePart, Cached, CrossedInv, OwnWritesShown
  <2>2. /\ write' \in [state : {"none", "sent", "done"},
                       op : Writes \cup {NoWrite.op}, made : 0..MaxWrites]
        /\ write'.state = "done" /\ write'.made = server'
        /\ write'.op = write.op /\ server' = server + 1
        /\ server' \in 0..MaxWrites /\ UNCHANGED <<view, known>>
    <3>1. server < MaxWrites
      BY <1>9, <1>i DEF Apply, WriteInv
    <3>2. server + 1 \in 0..MaxWrites
      BY <1>t, <3>1
    <3> QED BY <1>9, <1>t, <3>2 DEF Apply
  <2>3. CacheTypeOK'
    BY <1>t, <2>1, <2>2 DEF CacheTypeOK, Cached
  <2>4. WriteInv'
    BY <1>9, <1>t, <1>i, <2>2 DEF Apply, WriteInv, Concerns
  <2> QED BY <2>1, <2>3, <2>4 DEF CacheInv
<1>r. write.state # "none" /\ ~LeftToAge(write.op, view.key) =>
        Reaches(write.op, view.key)
  BY <1>t, <1>i, WritesAssumption DEF WriteInv, Concerns
<1>10. CASE Succeed
  <2>1. CASE view.key \in write.op.sets /\ ~Covered(view.key, write.op.again)
    <3>1. /\ data' = write.made /\ stale' = FALSE /\ failed' = FALSE
          /\ crossed' = (crossed \/ (fetch = "read" /\ got < write.made))
          /\ UNCHANGED <<shown, fetch, got, view, server>>
          /\ write' = NoWrite /\ known' \in {known, write.made}
      BY <1>10, <2>1 DEF Succeed
    <3>2. known <= write.made /\ write.made \in 0..MaxWrites
          /\ write.made <= server
      BY <1>10, <1>t, <1>i DEF Succeed, WriteInv
    <3>3. Cached'
      <4>1. crossed' \in BOOLEAN
        BY <3>1, Zenon
      <4> QED BY <1>t, <3>1, <3>2, <4>1, Counted DEF Cached
    <3>4. CacheTypeOK'
      BY <1>t, <3>1, <3>2, <3>3, NoWriteTyped DEF CacheTypeOK, Cached
    <3>5. WriteInv'
      BY <1>t, <1>i, <3>1, <3>2, NoWriteTyped DEF WriteInv
    <3>6. (crossed => crossed') /\ (fetch = "read" /\ got < write.made => crossed')
      BY <3>1, Zenon
    <3>7. CrossedInv'
      BY <1>t, <1>i, <3>1, <3>2, <3>6 DEF CrossedInv, Cached
    <3>8. OwnWritesShown'
      BY <1>t, <3>1, <3>2 DEF OwnWritesShown
    <3> QED BY <3>4, <3>5, <3>7, <3>8 DEF CacheInv
  <2>2. CASE ~(view.key \in write.op.sets /\ ~Covered(view.key, write.op.again))
    BY <1>10, <1>r, <2>2, WriteEnds DEF Succeed, Reaches
  <2> QED BY <2>1, <2>2
<1>11. CASE Miss
  <2>1. CASE write.op.anyway
    BY <1>11, <1>r, <2>1, WriteEnds DEF Miss, Reaches
  <2>2. CASE ~write.op.anyway
    <3>1. UNCHANGED <<view, server, known>> /\ UNCHANGED cachePart
          /\ write' = NoWrite
      BY <1>11, <2>2 DEF Miss
    <3>2. CacheTypeOK'
      BY <1>t, <3>1, NoWriteTyped DEF CacheTypeOK, Cached, cachePart
    <3>3. WriteInv' /\ CrossedInv' /\ OwnWritesShown'
      BY <1>i, <3>1, NoWriteTyped
      DEF cachePart, WriteInv, CrossedInv, OwnWritesShown
    <3> QED BY <3>2, <3>3 DEF CacheInv
  <2> QED BY <2>1, <2>2
<1> QED BY <1>0, <1>1, <1>2, <1>3, <1>4, <1>5, <1>6, <1>7, <1>8, <1>9, <1>10,
           <1>11
        DEF CacheNext

(* The types of what is cached, read and written.                          *)
THEOREM CacheTypes == CacheSpec => []CacheTypeOK
PROOF
<1>1. CacheInv => CacheTypeOK
  BY DEF CacheInv
<1> QED BY <1>1, CacheStarts, CacheStep, PTL DEF CacheSpec

(* What this browser changed is never shown as it was, whichever screen    *)
(* wrote and whichever shows it: the tables of reads and writes obeying    *)
(* their rule (WritesAssumption), no order of closed screens, late         *)
(* answers, failures and lost answers makes what is cached pass for fresh. *)
THEOREM OwnWritesAreShown == CacheSpec => []OwnWritesShown
PROOF
<1>1. CacheInv => OwnWritesShown
  BY DEF CacheInv
<1> QED BY <1>1, CacheStarts, CacheStep, PTL DEF CacheSpec

-----------------------------------------------------------------------------
(* Listing: the URL that narrows a list.                                   *)

LEMMA PlacesMade ==
  ASSUME list \in DOMAIN ListRows, NEW place \in Places
  PROVE  /\ \A w \in Words :
              /\ WithSearch(place, w) \in Places
              /\ WithSearch(place, w) = Place(place.on, w, 1)
         /\ \A adds \in SUBSET Params : \A drops :
              WithFilters(place, adds, drops) \in Places
              /\ WithFilters(place, adds, drops).search = place.search
         /\ \A n \in 1..MaxPage :
              /\ WithPage(place, n) \in Places
              /\ WithPage(place, n).search = place.search
         /\ \A keeps : Cleared(place, keeps) \in Places
         /\ Elsewhere \in Places /\ place.search \in Words
         /\ place.on \in SUBSET Params
         /\ place = Place(place.on, place.search, place.page)
PROOF
<1> USE ListBoundsAssumption DEF Places, Words, Place
<1>0. /\ place.on \in SUBSET Params /\ place.search \in 0..MaxWord
      /\ place.page \in 0..MaxPage /\ 1 \in 0..MaxPage
      /\ place = [on |-> place.on, search |-> place.search,
                  page |-> place.page]
  OBVIOUS
<1>1. ASSUME NEW w \in Words
      PROVE  /\ WithSearch(place, w) \in Places
             /\ WithSearch(place, w) = Place(place.on, w, 1)
  BY <1>0, <1>1 DEF WithSearch
<1>2. ASSUME NEW adds \in SUBSET Params, NEW drops
      PROVE  /\ WithFilters(place, adds, drops) \in Places
             /\ WithFilters(place, adds, drops).search = place.search
  <2>1. (place.on \ drops) \cup adds \in SUBSET Params
    BY <1>0, <1>2
  <2> QED BY <1>0, <2>1 DEF WithFilters
<1>3. ASSUME NEW n \in 1..MaxPage
      PROVE  /\ WithPage(place, n) \in Places
             /\ WithPage(place, n).search = place.search
  BY <1>0, <1>3 DEF WithPage
<1>4. ASSUME NEW keeps PROVE Cleared(place, keeps) \in Places
  BY <1>0 DEF Cleared
<1>5. Elsewhere \in Places
  BY DEF Elsewhere
<1> QED BY <1>0, <1>1, <1>2, <1>3, <1>4, <1>5

(* The row of the list never changes.                                      *)
LEMMA SameList ==
  ASSUME [ListNext]_listVars
  PROVE  /\ list' = list /\ desktop' = desktop /\ List' = List
         /\ Params' = Params /\ Places' = Places /\ (LosesTab' <=> LosesTab)
PROOF
<1>1. list' = list /\ desktop' = desktop
  BY DEF ListNext, listVars, TypeSearch, PageTo, ByMenu, ByPin, ByChip,
         ByCard, ByTab, Sort, Narrow, Clear, LeaveList, OpenFilters,
         DraftOption, ResetDraft, Draft, CloseFilters, ApplyFilters, Travel,
         FireSearch, Land, Asks
<1> QED BY <1>1 DEF List, Params, Places, LosesTab

(* Each way to narrow adds parameters of the list.                         *)
Narrows ==
  \E adds \in SUBSET Params : \E drops \in SUBSET Params : Narrow(adds, drops)

LEMMA EachNarrows ==
  ASSUME list \in DOMAIN ListRows, url \in Places,
         ByMenu \/ ByPin \/ ByChip \/ ByCard \/ ByTab \/ Sort
  PROVE  Narrows
PROOF
<1>0. /\ List.sections \cup List.resets \cup List.menus \subseteq List.sets
      /\ \A card \in List.cards : card.on \cup card.off \subseteq List.sets
      /\ List.sets \subseteq Params /\ "ordering" \in Params
      /\ List.tabs => "tab" \in Params
      /\ {} \in SUBSET Params /\ url.on \subseteq Params
  BY ListRowsAssumption DEF List, Params, Places
<1>1. CASE ByMenu
  <2> PICK p \in List.menus : Narrow({p}, {}) \/ Narrow({}, {p})
    BY <1>1 DEF ByMenu
  <2>1. {p} \in SUBSET Params
    BY <1>0
  <2> QED BY <1>0, <2>1 DEF Narrows
<1>2. CASE ByPin
  <2> PICK p \in List.pins \cap url.on : Narrow({}, {p})
    BY <1>2 DEF ByPin
  <2>1. {p} \in SUBSET Params
    BY <1>0
  <2> QED BY <1>0, <2>1 DEF Narrows
<1>3. CASE ByChip
  <2> PICK p \in List.chips \cap url.on : Narrow({}, {p})
    BY <1>3 DEF ByChip
  <2>1. {p} \in SUBSET Params
    BY <1>0
  <2> QED BY <1>0, <2>1 DEF Narrows
<1>4. CASE ByCard
  <2> PICK card \in List.cards : Narrow(card.on, {}) \/ Narrow({}, card.off)
    BY <1>4 DEF ByCard
  <2>1. card.on \in SUBSET Params /\ card.off \in SUBSET Params
    BY <1>0
  <2> QED BY <1>0, <2>1 DEF Narrows
<1>5. CASE ByTab
  <2>1. {"tab"} \in SUBSET Params
    BY <1>0, <1>5 DEF ByTab
  <2> QED BY <1>0, <1>5, <2>1 DEF Narrows, ByTab
<1>6. CASE Sort
  <2>1. {"ordering"} \in SUBSET Params
    BY <1>0
  <2> QED BY <1>0, <1>6, <2>1 DEF Narrows, Sort
<1> QED BY <1>1, <1>2, <1>3, <1>4, <1>5, <1>6

(* The history after a navigation: the URL is the one asked for.           *)
LEMMA Landed ==
  ASSUME ListTypeOK, Land, Places' = Places
  PROVE  /\ entries' \in Seq(Places) /\ at' \in DOMAIN entries'
         /\ url' = going.to
PROOF
<1> DEFINE k == IF going.how = "push" THEN at ELSE at - 1
           kept == SubSeq(entries, 1, k)
<1>1. entries \in Seq(Places) /\ at \in 1..Len(entries) /\ going.to \in Places
  BY DEF ListTypeOK
<1>2. kept \in Seq(Places) /\ Len(kept) \in Nat
  <2>1. k \in 0..Len(entries)
    BY <1>1
  <2> HIDE DEF k
  <2> QED BY <1>1, <2>1
<1>3. entries' = kept \o <<going.to>> /\ at' = Len(entries')
  BY DEF Land
<1> HIDE DEF kept
<1>4. /\ entries' \in Seq(Places) /\ Len(entries') = Len(kept) + 1
      /\ entries'[Len(kept) + 1] = going.to
  BY <1>1, <1>2, <1>3
<1> QED BY <1>2, <1>3, <1>4 DEF url

(* A push: the place asked for is the one the user means, if the URL was.  *)
Pushes(to) ==
  /\ going' = [how |-> "push", to |-> to] /\ pausing' = NoTimer
  /\ UNCHANGED <<entries, at, prevSearch>> /\ Hurries
  /\ steps' \in 0..MaxAsked /\ meant' \in Places
  /\ filters' \in {filters, NoFilters}
  /\ \/ to.search = url.search /\ UNCHANGED <<word, committedSearch>>
     \/ to.search = 0 /\ word' = 0 /\ committedSearch' = 0
  /\ url = meant /\ ~LosesTab => meant' = to

LEMMA EachPushes ==
  ASSUME ListTypeOK,
         Narrows \/ (\E n \in 1..MaxPage : PageTo(n)) \/ Clear \/ ApplyFilters
  PROVE  Here /\ \E to \in Places : Pushes(to)
PROOF
<1> USE ListBoundsAssumption
<1>t. url \in Places /\ meant \in Places /\ list \in DOMAIN ListRows
      /\ steps \in 0..MaxAsked /\ filters.draft \in SUBSET List.sets
  BY DEF ListTypeOK, url
<1>s. ASSUME steps < MaxAsked PROVE steps + 1 \in 0..MaxAsked
  BY <1>t, <1>s
<1>1. CASE Narrows
  <2> PICK adds \in SUBSET Params, drops \in SUBSET Params : Narrow(adds, drops)
    BY <1>1 DEF Narrows
  <2>1. /\ WithFilters(url, adds, drops) \in Places
        /\ WithFilters(meant, adds, drops) \in Places
        /\ WithFilters(url, adds, drops).search = url.search
    BY <1>t, PlacesMade
  <2>2. Pushes(WithFilters(url, adds, drops))
    BY <1>s, <2>1 DEF Narrow, Push, Asks, Pushes
  <2> QED BY <2>1, <2>2 DEF Narrow
<1>2. CASE \E n \in 1..MaxPage : PageTo(n)
  <2> PICK n \in 1..MaxPage : PageTo(n)
    BY <1>2
  <2>1. /\ WithPage(url, n) \in Places /\ WithPage(meant, n) \in Places
        /\ WithPage(url, n).search = url.search
    BY <1>t, PlacesMade
  <2>2. Pushes(WithPage(url, n))
    BY <1>s, <2>1 DEF PageTo, Push, Asks, Pushes
  <2> QED BY <2>1, <2>2 DEF PageTo
<1>3. CASE Clear
  <2>1. /\ Cleared(url, List.keeps) \in Places
        /\ Cleared(meant, {"tab"}) \in Places
        /\ Cleared(url, List.keeps).search = 0
    BY <1>t, PlacesMade DEF Cleared, Place
  <2>2. ASSUME url = meant, ~LosesTab
        PROVE  Cleared(meant, {"tab"}) = Cleared(url, List.keeps)
    <3>1. "tab" \in url.on => "tab" \in List.keeps
      BY <1>t, <2>2, ListRowsAssumption DEF Places, Params, List, LosesTab
    <3>2. List.keeps \subseteq {"tab"}
      BY <1>t, ListRowsAssumption DEF List
    <3>3. url.on \cap ({"ordering"} \cup List.keeps)
            = url.on \cap ({"ordering"} \cup {"tab"})
      BY <3>1, <3>2
    <3> QED BY <2>2, <3>3 DEF Cleared
  <2>3. Pushes(Cleared(url, List.keeps))
    BY <1>3, <1>s, <2>1, <2>2 DEF Clear, Push, Asks, Pushes
  <2> QED BY <1>3, <2>1, <2>3 DEF Clear
<1>4. CASE ApplyFilters
  <2>1. filters.draft \in SUBSET Params
    BY <1>t DEF Params
  <2>2. /\ WithFilters(url, filters.draft, List.sets) \in Places
        /\ WithFilters(meant, filters.draft, List.sets) \in Places
        /\ WithFilters(url, filters.draft, List.sets).search = url.search
    BY <1>t, <2>1, PlacesMade
  <2>3. Pushes(WithFilters(url, filters.draft, List.sets))
    BY <1>4, <1>s, <2>2 DEF ApplyFilters, Push, Asks, Pushes
  <2> QED BY <1>4, <2>2, <2>3 DEF ApplyFilters
<1> QED BY <1>1, <1>2, <1>3, <1>4

(* Every step is one of these; the others only concern the sheet.          *)
LEMMA ListSteps ==
  ASSUME ListTypeOK, [ListNext]_listVars
  PROVE  \/ \E w \in Words : TypeSearch(w)
         \/ FireSearch \/ Land \/ LeaveList
         \/ \E n \in DOMAIN entries : Travel(n)
         \/ Here /\ \E to \in Places : Pushes(to)
         \/ /\ UNCHANGED <<entries, at, going, word, prevSearch,
                           committedSearch, pausing, meant, hurried, steps>>
            /\ filters' \in [open : BOOLEAN, draft : SUBSET List.sets]
PROOF
<1>1. url \in Places /\ list \in DOMAIN ListRows
  BY DEF ListTypeOK, url
<1>2. CASE \/ OpenFilters \/ DraftOption \/ ResetDraft \/ CloseFilters
           \/ UNCHANGED listVars
  <2>1. filters \in [open : BOOLEAN, draft : SUBSET List.sets]
    BY DEF ListTypeOK
  <2>2. List.sections \subseteq List.sets
    BY <1>1, ListRowsAssumption DEF List
  <2>3. CASE OpenFilters
    BY <2>3 DEF OpenFilters
  <2>4. CASE DraftOption
    <3> PICK p \in List.sections :
          Draft(filters.draft \cup {p}) \/ Draft(filters.draft \ {p})
      BY <2>4 DEF DraftOption
    <3> QED BY <2>1, <2>2 DEF Draft
  <2>5. CASE ResetDraft
    BY <2>1, <2>5 DEF ResetDraft, Draft
  <2>6. CASE CloseFilters
    BY <2>6 DEF CloseFilters, NoFilters
  <2>7. CASE UNCHANGED listVars
    BY <2>1, <2>7 DEF listVars
  <2> QED BY <1>2, <2>3, <2>4, <2>5, <2>6, <2>7
<1>3. CASE \/ ByMenu \/ ByPin \/ ByChip \/ ByCard \/ ByTab \/ Sort
           \/ Clear \/ ApplyFilters \/ \E n \in 1..MaxPage : PageTo(n)
  BY <1>1, <1>3, EachNarrows, EachPushes
<1>4. CASE Travel(at - 1) \/ Travel(at + 1)
  <2>1. \E n \in DOMAIN entries : Travel(n)
    BY <1>4 DEF Travel
  <2> QED BY <2>1
<1> QED BY <1>2, <1>3, <1>4 DEF ListNext

(* What useSearchInput keeps of the URL, while the user does not hurry.    *)
SearchInv ==
  /\ Here => prevSearch = url.search
  /\ ~hurried =>
       /\ going = Nowhere /\ Here => committedSearch = url.search
       /\ going.to # Elsewhere => committedSearch = going.to.search

(* The field shows the search about to be put in the URL, else that of the *)
(* URL on its way, else that of the URL shown.                             *)
FieldInv ==
  ~hurried =>
    /\ pausing.set => word = pausing.word
    /\ pausing.set /\ ~Here => going = Nowhere
    /\ ~pausing.set /\ going.to # Elsewhere => word = going.to.search
    /\ AtRest /\ Here => word = url.search

(* What the user means is what the URL will be: with the search about to   *)
(* be put there, else on its way, else shown.                              *)
MeantInv ==
  ~hurried /\ ~LosesTab =>
    /\ pausing.set => meant = WithSearch(pausing.base, pausing.word)
    /\ ~pausing.set => meant = IF going = Nowhere THEN url ELSE going.to

ListInv == ListTypeOK /\ SearchInv /\ FieldInv /\ MeantInv

LEMMA ListStarts == ListInit => ListInv
PROOF
<1> SUFFICES ASSUME ListInit PROVE ListInv
  OBVIOUS
<1> USE ListBoundsAssumption
<1>0. PICK linked \in SUBSET List.links :
        entries = << Place(linked \cup List.opens, 0, 1) >>
  BY DEF ListInit
<1> DEFINE first == Place(linked \cup List.opens, 0, 1)
<1>1. first \in Places
  BY DEF Places, Place, Params, Words
<1>2. first # Elsewhere /\ first.search = 0
  BY DEF Elsewhere, Place
<1>3. /\ entries \in Seq(Places) /\ at \in DOMAIN entries /\ url = first
      /\ entries[1] = first /\ meant = first
  <2> HIDE DEF first
  <2>1. entries = <<first>> /\ at = 1 /\ meant = entries[1]
    BY <1>0 DEF ListInit, first
  <2>2. <<first>> \in Seq(Places) /\ Len(<<first>>) = 1 /\ <<first>>[1] = first
    BY <1>1
  <2>3. 1 \in DOMAIN <<first>>
    BY <2>2
  <2> QED BY <2>1, <2>2, <2>3 DEF url
<1> HIDE DEF first
<1>4. going \in [how : Navigations, to : Places] /\ going = Nowhere
      /\ going.to = Elsewhere
  <2>1. Elsewhere \in Places
    BY <1>1, PlacesMade DEF ListInit
  <2> QED BY <2>1 DEF ListInit, Nowhere, Navigations
<1>5. pausing \in [set : BOOLEAN, base : Places, word : Words] /\ ~pausing.set
  <2>1. Elsewhere \in Places /\ 0 \in Words
    BY <1>1, PlacesMade DEF ListInit, Words
  <2> QED BY <2>1 DEF ListInit, NoTimer
<1>6. ListTypeOK
  <2>1. filters \in [open : BOOLEAN, draft : SUBSET List.sets]
    BY DEF ListInit, NoFilters
  <2>2. 0 \in Words /\ 0 \in 0..MaxAsked
    BY DEF Words
  <2> QED BY <1>1, <1>3, <1>4, <1>5, <2>1, <2>2 DEF ListInit, ListTypeOK
<1>7. SearchInv /\ FieldInv /\ MeantInv
  BY <1>2, <1>3, <1>4, <1>5
     DEF ListInit, SearchInv, FieldInv, MeantInv, AtRest
<1> QED BY <1>6, <1>7 DEF ListInv

(* What the page has when a URL is shown.                                  *)
LEMMA ShownTyped ==
  ASSUME ListTypeOK, NEW place \in Places, Shown(place)
  PROVE  /\ word' \in Words /\ prevSearch' \in Words
         /\ committedSearch' \in Words /\ filters' \in {filters, NoFilters}
PROOF
<1>1. place.search \in Words
  BY PlacesMade DEF ListTypeOK
<1> QED BY <1>1 DEF Shown, Resynchronised, ListTypeOK

LEMMA ListTypeKept == ListTypeOK /\ [ListNext]_listVars => ListTypeOK'
PROOF
<1> SUFFICES ASSUME ListTypeOK, [ListNext]_listVars PROVE ListTypeOK'
  OBVIOUS
<1> USE ListBoundsAssumption
<1>t. /\ list \in DOMAIN ListRows /\ desktop \in BOOLEAN
      /\ entries \in Seq(Places) /\ at \in DOMAIN entries
      /\ going \in [how : Navigations, to : Places]
      /\ word \in Words /\ prevSearch \in Words /\ committedSearch \in Words
      /\ pausing \in [set : BOOLEAN, base : Places, word : Words]
      /\ filters \in [open : BOOLEAN, draft : SUBSET List.sets]
      /\ meant \in Places /\ hurried \in BOOLEAN /\ steps \in 0..MaxAsked
      /\ url \in Places
  BY DEF ListTypeOK, url
<1>c. /\ list' = list /\ desktop' = desktop /\ List' = List
      /\ Places' = Places
  BY SameList
<1>f. /\ NoFilters \in [open : BOOLEAN, draft : SUBSET List.sets]
      /\ NoTimer \in [set : BOOLEAN, base : Places, word : Words]
      /\ Nowhere \in [how : Navigations, to : Places]
      /\ Elsewhere \in Places
  <2>1. Elsewhere \in Places /\ 0 \in Words
    BY <1>t, PlacesMade DEF Words
  <2> QED BY <2>1 DEF NoFilters, NoTimer, Nowhere, Navigations
<1>h. Hurries \/ UNCHANGED hurried => hurried' \in BOOLEAN
  BY <1>t DEF Hurries
<1>s. ASSUME steps < MaxAsked PROVE steps + 1 \in 0..MaxAsked
  BY <1>t, <1>s
<1>1. ASSUME NEW w \in Words, TypeSearch(w)
      PROVE  ListTypeOK'
  <2>1. WithSearch(meant, w) \in Places
    BY <1>t, PlacesMade
  <2>2. hurried' \in BOOLEAN
    BY <1>1 DEF TypeSearch
  <2>3. pausing' \in [set : BOOLEAN, base : Places, word : Words]
    BY <1>1, <1>t DEF TypeSearch
  <2> QED BY <1>1, <1>t, <1>c, <1>s, <2>1, <2>2, <2>3
          DEF TypeSearch, Asks, ListTypeOK
<1>2. CASE FireSearch
  <2>1. WithSearch(pausing.base, pausing.word) \in Places
    BY <1>t, PlacesMade
  <2>2. going' \in [how : Navigations, to : Places]
    BY <1>2, <2>1 DEF FireSearch, Navigations
  <2> QED BY <1>2, <1>t, <1>c, <1>f, <2>2 DEF FireSearch, ListTypeOK
<1>3. CASE Land
  <2>1. /\ entries' \in Seq(Places) /\ at' \in DOMAIN entries'
        /\ word' \in Words /\ prevSearch' \in Words
        /\ committedSearch' \in Words /\ filters' \in {filters, NoFilters}
    BY <1>3, <1>t, <1>c, Landed, ShownTyped DEF Land
  <2> QED BY <1>3, <1>t, <1>c, <1>f, <2>1 DEF Land, ListTypeOK
<1>4. CASE LeaveList
  <2>1. going' \in [how : Navigations, to : Places]
    BY <1>4, <1>f DEF LeaveList, Navigations
  <2> QED BY <1>4, <1>t, <1>c, <1>f, <1>h, <1>s, <2>1
          DEF LeaveList, Asks, ListTypeOK
<1>5. ASSUME NEW n \in DOMAIN entries, Travel(n)
      PROVE  ListTypeOK'
  <2>1. entries[n] \in Places
    BY <1>t
  <2>2. /\ word' \in Words /\ prevSearch' \in Words
        /\ committedSearch' \in Words /\ filters' \in {filters, NoFilters}
    BY <1>5, <2>1, ShownTyped DEF Travel
  <2> QED BY <1>5, <1>t, <1>c, <1>f, <1>h, <1>s, <2>1, <2>2
          DEF Travel, Asks, ListTypeOK
<1>6. ASSUME NEW to \in Places, Pushes(to)
      PROVE  ListTypeOK'
  <2>1. going' \in [how : Navigations, to : Places]
    BY <1>6 DEF Pushes, Navigations
  <2>2. word' \in Words /\ committedSearch' \in Words
    <3>1. 0 \in Words
      BY DEF Words
    <3> QED BY <1>6, <1>t, <3>1 DEF Pushes
  <2> QED BY <1>6, <1>t, <1>c, <1>f, <1>h, <2>1, <2>2 DEF Pushes, ListTypeOK
<1>7. CASE /\ UNCHANGED <<entries, at, going, word, prevSearch,
                          committedSearch, pausing, meant, hurried, steps>>
           /\ filters' \in [open : BOOLEAN, draft : SUBSET List.sets]
  BY <1>7, <1>t, <1>c DEF ListTypeOK
<1> QED BY <1>1, <1>2, <1>3, <1>4, <1>5, <1>6, <1>7, ListSteps

LEMMA ListKept == ListInv /\ [ListNext]_listVars => (SearchInv /\ FieldInv)'
PROOF
<1> SUFFICES ASSUME ListInv, [ListNext]_listVars
             PROVE  SearchInv' /\ FieldInv'
  OBVIOUS
<1>t. /\ ListTypeOK /\ SearchInv /\ FieldInv
      /\ list \in DOMAIN ListRows /\ url \in Places /\ going.to \in Places
      /\ pausing.base \in Places /\ pausing.word \in Words
  BY DEF ListInv, ListTypeOK, url
<1>c. Places' = Places
  BY SameList
<1>e. Nowhere.to = Elsewhere /\ ~NoTimer.set
  BY DEF Nowhere, NoTimer
<1>1. ASSUME NEW w \in Words, TypeSearch(w)
      PROVE  SearchInv' /\ FieldInv'
  <2>1. /\ word' = w /\ pausing'.set /\ pausing'.word = w /\ Here
        /\ UNCHANGED <<entries, at, going, prevSearch, committedSearch>>
        /\ (~hurried' => ~hurried)
    BY <1>1 DEF TypeSearch
  <2>2. url' = url /\ Here' = Here
    BY <2>1 DEF url, Here
  <2> QED BY <1>t, <2>1, <2>2 DEF SearchInv, FieldInv, AtRest
<1>2. CASE FireSearch
  <2> DEFINE to == WithSearch(pausing.base, pausing.word)
  <2>1. to.search = pausing.word /\ to # Elsewhere
    BY DEF WithSearch, Place, Elsewhere
  <2>2. /\ going'.to = to /\ going' # Nowhere /\ pausing' = NoTimer
        /\ committedSearch' = pausing.word /\ pausing.set
        /\ UNCHANGED <<entries, at, word, prevSearch, hurried>>
    BY <1>2, <1>e, <2>1 DEF FireSearch
  <2>3. url' = url /\ Here' = Here
    BY <2>2 DEF url, Here
  <2> HIDE DEF to
  <2>4. SearchInv'
    BY <1>t, <2>1, <2>2, <2>3 DEF SearchInv
  <2>5. FieldInv'
    BY <1>t, <1>e, <2>1, <2>2, <2>3 DEF FieldInv, AtRest
  <2> QED BY <2>4, <2>5
<1>3. CASE Land
  <2>1. /\ going # Nowhere /\ going' = Nowhere /\ Shown(going.to)
        /\ UNCHANGED <<pausing, hurried>> /\ url' = going.to
    BY <1>3, <1>t, <1>c, Landed DEF Land
  <2>2. CASE going.to = Elsewhere
    <3>1. ~Here' /\ UNCHANGED word
      BY <2>1, <2>2 DEF Here, Shown
    <3> QED BY <1>t, <1>e, <2>1, <3>1 DEF SearchInv, FieldInv, AtRest
  <2>3. CASE going.to # Elsewhere /\ Here
    <3>0. Resynchronised(going.to)
      BY <2>1, <2>3 DEF Shown
    <3>1. /\ Here' /\ prevSearch' = going.to.search
          /\ Resynchronised(going.to)
      BY <2>1, <2>3, <3>0 DEF Here, Resynchronised
    <3>2. ~hurried => committedSearch = going.to.search
      BY <1>t, <2>3 DEF SearchInv
    <3>3. ~hurried => UNCHANGED <<word, committedSearch>>
      BY <3>1, <3>2 DEF Resynchronised
    <3> QED BY <1>t, <1>e, <2>1, <2>3, <3>1, <3>2, <3>3
            DEF SearchInv, FieldInv, AtRest
  <2>4. CASE going.to # Elsewhere /\ ~Here
    <3>1. /\ Here' /\ prevSearch' = going.to.search
          /\ word' = going.to.search /\ committedSearch' = going.to.search
      BY <2>1, <2>4 DEF Here, Shown
    <3> QED BY <1>t, <1>e, <2>1, <2>4, <3>1 DEF SearchInv, FieldInv, AtRest
  <2> QED BY <2>2, <2>3, <2>4
<1>4. CASE LeaveList
  <2>1. /\ going' = [how |-> "push", to |-> Elsewhere] /\ Here
        /\ UNCHANGED <<entries, at, word, prevSearch, committedSearch,
                       pausing>>
        /\ hurried' = (hurried \/ ~AtRest)
    BY <1>4 DEF LeaveList, Hurries
  <2>2. url' = url /\ Here' = Here /\ going'.to = Elsewhere
        /\ going' # Nowhere
    BY <2>1 DEF url, Here, Nowhere
  <2> QED BY <1>t, <1>e, <2>1, <2>2 DEF SearchInv, FieldInv, AtRest
<1>5. ASSUME NEW n \in DOMAIN entries, Travel(n)
      PROVE  SearchInv' /\ FieldInv'
  <2>1. /\ going' = Nowhere /\ Shown(entries[n]) /\ UNCHANGED pausing
        /\ url' = entries[n] /\ hurried' = (hurried \/ ~AtRest)
    BY <1>5 DEF Travel, Hurries, url
  <2>2. CASE entries[n] = Elsewhere
    <3>1. ~Here'
      BY <2>1, <2>2 DEF Here
    <3> QED BY <1>t, <1>e, <2>1, <3>1 DEF SearchInv, FieldInv, AtRest
  <2>3. CASE entries[n] # Elsewhere /\ Here
    <3>0. Resynchronised(entries[n])
      BY <2>1, <2>3 DEF Shown
    <3>1. /\ Here' /\ prevSearch' = entries[n].search
          /\ Resynchronised(entries[n])
      BY <2>1, <2>3, <3>0 DEF Here, Resynchronised
    <3>2. ~hurried' => /\ ~hurried /\ AtRest /\ prevSearch = url.search
                       /\ committedSearch = url.search /\ word = url.search
      BY <1>t, <2>1, <2>3 DEF SearchInv, FieldInv, AtRest
    <3>3. ~hurried' => committedSearch' = entries[n].search
                       /\ word' = entries[n].search
      BY <3>1, <3>2 DEF Resynchronised
    <3> QED BY <1>e, <2>1, <3>1, <3>2, <3>3 DEF SearchInv, FieldInv, AtRest
  <2>4. CASE entries[n] # Elsewhere /\ ~Here
    <3>1. /\ Here' /\ prevSearch' = entries[n].search
          /\ word' = entries[n].search /\ committedSearch' = entries[n].search
      BY <2>1, <2>4 DEF Here, Shown
    <3> QED BY <1>e, <2>1, <3>1 DEF SearchInv, FieldInv, AtRest
  <2> QED BY <2>2, <2>3, <2>4
<1>6. ASSUME NEW to \in Places, Here, Pushes(to)
      PROVE  SearchInv' /\ FieldInv'
  <2>1. /\ going'.to = to /\ going' # Nowhere /\ ~pausing'.set
        /\ UNCHANGED <<entries, at, prevSearch>>
        /\ (~hurried' => ~hurried /\ AtRest)
        /\ \/ to.search = url.search /\ UNCHANGED <<word, committedSearch>>
           \/ to.search = 0 /\ word' = 0 /\ committedSearch' = 0
    BY <1>6, <1>e DEF Pushes, Hurries, Nowhere
  <2>2. url' = url /\ Here' = Here
    BY <2>1 DEF url, Here
  <2>3. ~hurried' => committedSearch' = to.search /\ word' = to.search
    BY <1>6, <1>t, <2>1 DEF SearchInv, FieldInv, AtRest
  <2> QED BY <1>t, <2>1, <2>2, <2>3 DEF SearchInv, FieldInv, AtRest
<1>7. CASE UNCHANGED <<entries, at, going, word, prevSearch, committedSearch,
                       pausing, meant, hurried, steps>>
  BY <1>7, <1>t DEF SearchInv, FieldInv, AtRest, url, Here
<1> QED BY <1>t, <1>1, <1>2, <1>3, <1>4, <1>5, <1>6, <1>7, ListSteps

LEMMA MeantKept == ListInv /\ [ListNext]_listVars => MeantInv'
PROOF
<1> SUFFICES ASSUME ListInv, [ListNext]_listVars PROVE MeantInv'
  OBVIOUS
<1>t. /\ ListTypeOK /\ MeantInv /\ list \in DOMAIN ListRows
      /\ url \in Places /\ meant \in Places
  BY DEF ListInv, ListTypeOK, url
<1>c. Places' = Places /\ (LosesTab' <=> LosesTab)
  BY SameList
<1>e. ~NoTimer.set
  BY DEF NoTimer
<1>1. ASSUME NEW w \in Words, TypeSearch(w)
      PROVE  MeantInv'
  <2>1. /\ pausing' = [set |-> TRUE, base |-> url, word |-> w]
        /\ meant' = WithSearch(meant, w)
        /\ hurried' = (hurried \/ url.on # meant.on)
    BY <1>1 DEF TypeSearch, Asks
  <2>2. url.on = meant.on => WithSearch(meant, w) = WithSearch(url, w)
    BY DEF WithSearch
  <2> QED BY <2>1, <2>2 DEF MeantInv
<1>2. CASE FireSearch
  <2>1. /\ going' = [how |-> "replace",
                     to |-> WithSearch(pausing.base, pausing.word)]
        /\ pausing.set /\ pausing' = NoTimer /\ UNCHANGED <<meant, hurried>>
    BY <1>2 DEF FireSearch
  <2>2. going' # Nowhere
    BY <2>1 DEF Nowhere
  <2> QED BY <1>t, <1>c, <1>e, <2>1, <2>2 DEF MeantInv
<1>3. CASE Land
  <2>1. /\ going # Nowhere /\ going' = Nowhere
        /\ UNCHANGED <<pausing, hurried, meant>> /\ url' = going.to
    BY <1>3, <1>t, <1>c, Landed DEF Land
  <2> QED BY <1>t, <1>c, <2>1 DEF MeantInv
<1>4. CASE LeaveList
  <2>1. /\ going' = [how |-> "push", to |-> Elsewhere] /\ UNCHANGED pausing
        /\ hurried' = (hurried \/ ~AtRest) /\ meant' = Elsewhere
        /\ going' # Nowhere
    BY <1>4 DEF LeaveList, Hurries, Asks, Nowhere
  <2> QED BY <2>1 DEF MeantInv, AtRest
<1>5. ASSUME NEW n \in DOMAIN entries, Travel(n)
      PROVE  MeantInv'
  <2>1. /\ going' = Nowhere /\ UNCHANGED pausing /\ meant' = entries[n]
        /\ url' = entries[n] /\ hurried' = (hurried \/ ~AtRest)
    BY <1>5 DEF Travel, Hurries, Asks, url
  <2> QED BY <2>1 DEF MeantInv, AtRest
<1>6. ASSUME NEW to \in Places, Pushes(to)
      PROVE  MeantInv'
  <2>1. /\ going' = [how |-> "push", to |-> to] /\ going' # Nowhere
        /\ pausing' = NoTimer /\ hurried' = (hurried \/ ~AtRest)
        /\ (url = meant /\ ~LosesTab => meant' = to)
    BY <1>6 DEF Pushes, Hurries, Nowhere
  <2> QED BY <1>t, <1>c, <1>e, <2>1 DEF MeantInv, AtRest
<1>7. CASE UNCHANGED <<entries, at, going, word, prevSearch, committedSearch,
                       pausing, meant, hurried, steps>>
  BY <1>7, <1>t, <1>c DEF MeantInv, url
<1> QED BY <1>t, <1>1, <1>2, <1>3, <1>4, <1>5, <1>6, <1>7, ListSteps

LEMMA ListStep == ListInv /\ [ListNext]_listVars => ListInv'
  BY ListTypeKept, ListKept, MeantKept DEF ListInv

(* The types of the history, of the navigation under way and of the field. *)
THEOREM ListTypes == ListSpec => []ListTypeOK
PROOF
<1>1. ListInv => ListTypeOK
  BY DEF ListInv
<1> QED BY <1>1, ListStarts, ListStep, PTL DEF ListSpec

(* Once the URL has caught up it is what the user asked for, step by step, *)
(* and the field shows its search, in any list: searches put in the URL    *)
(* late, navigations that replace others, the history and the sheet of     *)
(* filters included.                                                       *)
THEOREM ListsAreAsAsked == ListSpec => []AsAsked
PROOF
<1>1. ListInv => AsAsked
  BY DEF ListInv, FieldInv, MeantInv, AsAsked, AtRest
<1> QED BY <1>1, ListStarts, ListStep, PTL DEF ListSpec

-----------------------------------------------------------------------------
(* Lines: the lists of lines filled by hand.                               *)

Line == [id : Ids, value : Values]

LEMMA RemovedAt ==
  ASSUME NEW S, NEW s \in Seq(S), NEW i \in 1..Len(s)
  PROVE  /\ RemoveAt(s, i) \in Seq(S) /\ Len(RemoveAt(s, i)) = Len(s) - 1
         /\ \A j \in 1..Len(s) - 1 :
              RemoveAt(s, i)[j] = IF j < i THEN s[j] ELSE s[j + 1]
PROOF
<1> DEFINE before == SubSeq(s, 1, i - 1)
           after == SubSeq(s, i + 1, Len(s))
<1>1. /\ before \in Seq(S) /\ Len(before) = i - 1
      /\ \A j \in 1..i - 1 : before[j] = s[j]
  OBVIOUS
<1>2. /\ after \in Seq(S) /\ Len(after) = Len(s) - i
      /\ \A j \in 1..Len(s) - i : after[j] = s[i + j]
  OBVIOUS
<1> HIDE DEF before, after
<1> DEFINE left == before \o after
<1>3. /\ left \in Seq(S) /\ Len(left) = Len(s) - 1
      /\ \A j \in 1..Len(s) - 1 :
           /\ j < i => left[j] = before[j]
           /\ i <= j => left[j] = after[j - i + 1]
  <2>1. /\ left \in Seq(S) /\ Len(left) = Len(before) + Len(after)
        /\ \A j \in 1..Len(before) + Len(after) :
             left[j] = IF j <= Len(before) THEN before[j]
                       ELSE after[j - Len(before)]
    BY <1>1, <1>2, ConcatProperties
  <2> HIDE DEF left
  <2>2. Len(before) + Len(after) = Len(s) - 1
    BY <1>1, <1>2
  <2>3. ASSUME NEW j \in 1..Len(s) - 1, i <= j
        PROVE  left[j] = after[j - i + 1]
    <3>1. ~(j <= Len(before)) /\ j - Len(before) = j - i + 1
      BY <1>1, <2>3
    <3>2. left[j] = after[j - Len(before)]
      BY <2>1, <2>2, <3>1
    <3> QED BY <3>1, <3>2
  <2>4. ASSUME NEW j \in 1..Len(s) - 1, j < i
        PROVE  left[j] = before[j]
    BY <1>1, <2>1, <2>2, <2>4
  <2> QED BY <2>1, <2>2, <2>3, <2>4
<1>4. RemoveAt(s, i) = left
  BY DEF RemoveAt, before, after
<1> HIDE DEF left
<1>5. ASSUME NEW j \in 1..Len(s) - 1
      PROVE  left[j] = IF j < i THEN s[j] ELSE s[j + 1]
  <2>1. CASE j < i
    BY <1>1, <1>3, <2>1
  <2>2. CASE i <= j
    <3>1. j - i + 1 \in 1..Len(s) - i /\ i + (j - i + 1) = j + 1
      BY <2>2
    <3>2. left[j] = after[j - i + 1]
      BY <1>3, <2>2
    <3>3. after[j - i + 1] = s[i + (j - i + 1)]
      BY <1>2, <3>1
    <3> QED BY <2>2, <3>1, <3>2, <3>3
  <2> QED BY <2>1, <2>2
<1> QED BY <1>3, <1>4, <1>5

LEMMA InsertedAt ==
  ASSUME NEW S, NEW s \in Seq(S), NEW i \in 1..Len(s) + 1, NEW e \in S
  PROVE  /\ InsertAt(s, i, e) \in Seq(S)
         /\ Len(InsertAt(s, i, e)) = Len(s) + 1
         /\ \A j \in 1..Len(s) + 1 :
              InsertAt(s, i, e)[j] =
                IF j < i THEN s[j] ELSE IF j = i THEN e ELSE s[j - 1]
PROOF
<1> DEFINE before == SubSeq(s, 1, i - 1)
           after == SubSeq(s, i, Len(s))
<1>1. /\ before \in Seq(S) /\ Len(before) = i - 1
      /\ \A j \in 1..i - 1 : before[j] = s[j]
  OBVIOUS
<1>2. /\ after \in Seq(S) /\ Len(after) = Len(s) - i + 1
      /\ \A j \in 1..Len(s) - i + 1 : after[j] = s[i + j - 1]
  OBVIOUS
<1>3. InsertAt(s, i, e) = (before \o <<e>>) \o after
  BY DEF InsertAt
<1> HIDE DEF before, after
<1>4. /\ before \o <<e>> \in Seq(S) /\ Len(before \o <<e>>) = i
      /\ \A j \in 1..i - 1 : (before \o <<e>>)[j] = before[j]
      /\ (before \o <<e>>)[i] = e
  BY <1>1
<1> DEFINE upto == before \o <<e>>
<1> HIDE DEF upto
<1>5. /\ upto \in Seq(S) /\ Len(upto) = i
      /\ \A j \in 1..i - 1 : upto[j] = s[j]
      /\ upto[i] = e
  BY <1>1, <1>4 DEF upto
<1> DEFINE whole == upto \o after
<1>6. /\ whole \in Seq(S) /\ Len(whole) = Len(s) + 1
      /\ \A j \in 1..Len(s) + 1 :
           /\ j <= i => whole[j] = upto[j]
           /\ i < j => whole[j] = after[j - i]
  BY <1>2, <1>5
<1>8. InsertAt(s, i, e) = whole
  BY <1>3 DEF upto
<1> HIDE DEF whole
<1>7. ASSUME NEW j \in 1..Len(s) + 1
      PROVE  whole[j] =
               IF j < i THEN s[j] ELSE IF j = i THEN e ELSE s[j - 1]
  <2>1. CASE j < i
    BY <1>5, <1>6, <2>1
  <2>2. CASE j = i
    BY <1>5, <1>6, <2>2
  <2>3. CASE i < j
    <3>1. j - i \in 1..Len(s) - i + 1 /\ i + (j - i) - 1 = j - 1
      BY <2>3
    <3>2. whole[j] = after[j - i]
      BY <1>6, <2>3
    <3>3. after[j - i] = s[i + (j - i) - 1]
      BY <1>2, <3>1
    <3> QED BY <2>3, <3>1, <3>2, <3>3
  <2> QED BY <2>1, <2>2, <2>3
<1> QED BY <1>6, <1>7, <1>8

(* The lines s are those wished for by w, each once and with its value.    *)
Meant(s, w) ==
  /\ \A i, j \in 1..Len(s) : s[i].id = s[j].id => i = j
  /\ \A i \in 1..Len(s) : s[i].id \in DOMAIN w /\ s[i].value = w[s[i].id]
  /\ \A id \in DOMAIN w : \E i \in 1..Len(s) : s[i].id = id

Wished(w) == DOMAIN w \subseteq Ids /\ \A id \in DOMAIN w : w[id] \in Values

LEMMA WithIs ==
  ASSUME NEW w, Wished(w), NEW id \in Ids, NEW v \in Values
  PROVE  /\ DOMAIN With(w, id, v) = DOMAIN w \cup {id}
         /\ With(w, id, v)[id] = v
         /\ \A x \in DOMAIN w : x # id => With(w, id, v)[x] = w[x]
         /\ Wished(With(w, id, v))
BY DEF With, Wished

LEMMA WithoutIs ==
  ASSUME NEW w, Wished(w), NEW id
  PROVE  /\ DOMAIN Without(w, id) = DOMAIN w \ {id}
         /\ \A x \in DOMAIN w \ {id} : Without(w, id)[x] = w[x]
         /\ Wished(Without(w, id))
BY DEF Without, Wished

(* As many lines as identities: no more than there are.                    *)
LEMMA MeantCount ==
  ASSUME NEW s \in Seq(Line), NEW w, Meant(s, w), Wished(w)
  PROVE  /\ {s[i].id : i \in DOMAIN s} = DOMAIN w
         /\ Len(s) = Cardinality({s[i].id : i \in DOMAIN s})
         /\ Len(s) <= MaxLines
PROOF
<1> DEFINE found == {s[i].id : i \in DOMAIN s}
           named == [i \in 1..Len(s) |-> s[i].id]
<1>1. Len(s) \in Nat /\ DOMAIN s = 1..Len(s)
  OBVIOUS
<1>2. found = DOMAIN w
  <2>1. \A i \in 1..Len(s) : s[i].id \in DOMAIN w
    BY DEF Meant
  <2>2. \A id \in DOMAIN w : \E i \in 1..Len(s) : s[i].id = id
    BY DEF Meant
  <2> QED BY <1>1, <2>1, <2>2
<1>3. named \in Bijection(1..Len(s), found)
  <2>1. \A i \in 1..Len(s) : named[i] = s[i].id /\ named[i] \in found
    BY <1>1
  <2>2. \A i, j \in 1..Len(s) : named[i] = named[j] => i = j
    BY <2>1 DEF Meant
  <2>3. \A id \in found : \E i \in 1..Len(s) : named[i] = id
    BY <1>1, <2>1
  <2>4. named \in [1..Len(s) -> found]
    BY <2>1
  <2> HIDE DEF named, found
  <2> QED BY <2>2, <2>3, <2>4
          DEF Bijection, Injection, Surjection, IsInjective
<1>4. ExistsBijection(1..Len(s), found)
  BY <1>3 DEF ExistsBijection
<1>5. IsFiniteSet(1..Len(s)) /\ Cardinality(1..Len(s)) = Len(s)
  <2>1. 1 \in Int /\ Len(s) \in Int
    BY <1>1
  <2> QED BY <1>1, <2>1, FS_Interval
<1>6. Cardinality(found) = Len(s)
  <2> HIDE DEF found, named
  <2> QED BY <1>4, <1>5, FS_Bijection
<1>7. IsFiniteSet(Ids) /\ Cardinality(Ids) = MaxLines
  <2>1. 1 \in Int /\ MaxLines \in Int /\ MaxLines >= 1
    BY LinesAssumption
  <2> QED BY <2>1, FS_Interval DEF Ids
<1>8. found \in SUBSET Ids
  BY <1>2 DEF Wished
<1>9. Cardinality(found) <= MaxLines
  <2> HIDE DEF found
  <2> QED BY <1>7, <1>8, FS_Subset
<1> QED BY <1>2, <1>6, <1>9

(* What a step makes of such lines: one more, one less, one changed or two *)
(* exchanged.                                                              *)
LEMMA MeantInserted ==
  ASSUME NEW s \in Seq(Line), NEW w, Meant(s, w), Wished(w),
         NEW i \in 1..Len(s) + 1, NEW id \in Ids \ DOMAIN w, NEW v \in Values
  PROVE  LET t == InsertAt(s, i, [id |-> id, value |-> v])
         IN  /\ t \in Seq(Line) /\ Meant(t, With(w, id, v))
             /\ Wished(With(w, id, v))
PROOF
<1> DEFINE e == [id |-> id, value |-> v]
           t == InsertAt(s, i, e)
           was(j) == IF j < i THEN j ELSE j - 1
           is(j) == IF j < i THEN j ELSE j + 1
<1>1. e \in Line /\ e.id = id /\ e.value = v
  BY DEF Line
<1>2. /\ t \in Seq(Line) /\ Len(t) = Len(s) + 1
      /\ \A j \in 1..Len(t) :
           IF j = i THEN t[j] = e
           ELSE was(j) \in 1..Len(s) /\ t[j] = s[was(j)]
  <2> HIDE DEF e
  <2>1. /\ t \in Seq(Line) /\ Len(t) = Len(s) + 1
        /\ \A j \in 1..Len(s) + 1 :
             t[j] = IF j < i THEN s[j] ELSE IF j = i THEN e ELSE s[j - 1]
    BY <1>1, InsertedAt
  <2> HIDE DEF t
  <2> QED BY <2>1
<1>3. \A j \in 1..Len(s) : is(j) \in 1..Len(t) /\ is(j) # i /\ was(is(j)) = j
  <2> HIDE DEF t
  <2> QED BY <1>2
<1>4. /\ DOMAIN With(w, id, v) = DOMAIN w \cup {id}
      /\ With(w, id, v)[id] = v /\ Wished(With(w, id, v))
      /\ \A x \in DOMAIN w : x # id => With(w, id, v)[x] = w[x]
  BY DEF With, Wished
<1> HIDE DEF e, t
<1>5. ASSUME NEW j \in 1..Len(t), NEW k \in 1..Len(t), t[j].id = t[k].id
      PROVE  j = k
  <2>1. ASSUME NEW l \in 1..Len(t), l # i PROVE t[l].id # id
    <3>1. was(l) \in 1..Len(s) /\ t[l] = s[was(l)]
      BY <1>2, <2>1
    <3> HIDE DEF was
    <3> QED BY <3>1 DEF Meant
  <2>2. CASE j = i \/ k = i
    BY <1>1, <1>2, <1>5, <2>1, <2>2
  <2>3. CASE j # i /\ k # i
    <3>1. /\ was(j) \in 1..Len(s) /\ t[j] = s[was(j)]
          /\ was(k) \in 1..Len(s) /\ t[k] = s[was(k)]
      BY <1>2, <2>3
    <3>2. was(j) = was(k)
      <4> HIDE DEF was
      <4> QED BY <1>5, <3>1 DEF Meant
    <3> QED BY <2>3, <3>2
  <2> QED BY <2>2, <2>3
<1> HIDE DEF was, is
<1>6. ASSUME NEW j \in 1..Len(t)
      PROVE  /\ t[j].id \in DOMAIN With(w, id, v)
             /\ t[j].value = With(w, id, v)[t[j].id]
  <2>1. CASE j = i
    BY <1>1, <1>2, <1>4, <2>1
  <2>2. CASE j # i
    <3>1. /\ t[j] = s[was(j)] /\ s[was(j)].id \in DOMAIN w
          /\ s[was(j)].value = w[s[was(j)].id]
      BY <1>2, <2>2 DEF Meant
    <3> QED BY <1>4, <3>1
  <2> QED BY <2>1, <2>2
<1>7. ASSUME NEW x \in DOMAIN With(w, id, v)
      PROVE  \E j \in 1..Len(t) : t[j].id = x
  <2>1. CASE x = id
    BY <1>1, <1>2, <2>1
  <2>2. CASE x \in DOMAIN w
    <3> PICK j \in 1..Len(s) : s[j].id = x
      BY <2>2 DEF Meant
    <3> QED BY <1>2, <1>3
  <2> QED BY <1>4, <2>1, <2>2
<1> QED BY <1>2, <1>4, <1>5, <1>6, <1>7 DEF Meant, t, e

LEMMA MeantAppended ==
  ASSUME NEW s \in Seq(Line), NEW w, Meant(s, w), Wished(w),
         NEW id \in Ids \ DOMAIN w, NEW v \in Values
  PROVE  LET t == Append(s, [id |-> id, value |-> v])
         IN  /\ t \in Seq(Line) /\ Meant(t, With(w, id, v))
             /\ Wished(With(w, id, v))
PROOF
<1> DEFINE e == [id |-> id, value |-> v]
           t == InsertAt(s, Len(s) + 1, e)
<1>1. e \in Line
  BY DEF Line
<1> HIDE DEF e
<1>2. /\ t \in Seq(Line) /\ Len(t) = Len(s) + 1
      /\ \A j \in 1..Len(s) + 1 :
           t[j] = IF j < Len(s) + 1 THEN s[j]
                  ELSE IF j = Len(s) + 1 THEN e ELSE s[j - 1]
  <2> DEFINE i == Len(s) + 1
  <2>1. i \in 1..Len(s) + 1
    OBVIOUS
  <2> HIDE DEF i
  <2>2. /\ InsertAt(s, i, e) \in Seq(Line) /\ Len(InsertAt(s, i, e)) = Len(s) + 1
        /\ \A j \in 1..Len(s) + 1 :
             InsertAt(s, i, e)[j] = IF j < i THEN s[j]
                                    ELSE IF j = i THEN e ELSE s[j - 1]
    BY <1>1, <2>1, InsertedAt
  <2> QED BY <2>2 DEF i
<1> HIDE DEF t
<1>3. Append(s, e) = t
  <2>1. /\ Append(s, e) \in Seq(Line) /\ Len(Append(s, e)) = Len(s) + 1
        /\ \A j \in 1..Len(s) + 1 :
             Append(s, e)[j] = IF j < Len(s) + 1 THEN s[j] ELSE e
    BY <1>1
  <2>2. \A j \in 1..Len(s) + 1 : Append(s, e)[j] = t[j]
    BY <1>2, <2>1
  <2> QED BY <1>2, <2>1, <2>2, SeqEqual
<1>4. Len(s) + 1 \in 1..Len(s) + 1
  OBVIOUS
<1> QED BY <1>3, <1>4, MeantInserted DEF t, e

LEMMA MeantRemoved ==
  ASSUME NEW s \in Seq(Line), NEW w, Meant(s, w), Wished(w),
         NEW i \in 1..Len(s)
  PROVE  /\ RemoveAt(s, i) \in Seq(Line)
         /\ Meant(RemoveAt(s, i), Without(w, s[i].id))
         /\ Wished(Without(w, s[i].id))
PROOF
<1> DEFINE t == RemoveAt(s, i)
           was(j) == IF j < i THEN j ELSE j + 1
           is(j) == IF j < i THEN j ELSE j - 1
           rest == Without(w, s[i].id)
<1>1. /\ t \in Seq(Line) /\ Len(t) = Len(s) - 1
      /\ \A j \in 1..Len(t) :
           was(j) \in 1..Len(s) /\ was(j) # i /\ t[j] = s[was(j)]
  <2>1. /\ t \in Seq(Line) /\ Len(t) = Len(s) - 1
        /\ \A j \in 1..Len(s) - 1 : t[j] = IF j < i THEN s[j] ELSE s[j + 1]
    BY RemovedAt
  <2> HIDE DEF t
  <2> QED BY <2>1
<1> HIDE DEF t
<1>2. \A j \in 1..Len(s) : j # i => is(j) \in 1..Len(t) /\ was(is(j)) = j
  BY <1>1
<1>3. /\ DOMAIN rest = DOMAIN w \ {s[i].id} /\ Wished(rest)
      /\ \A x \in DOMAIN w \ {s[i].id} : rest[x] = w[x]
  BY WithoutIs
<1> HIDE DEF rest
<1>4. ASSUME NEW j \in 1..Len(t), NEW k \in 1..Len(t), t[j].id = t[k].id
      PROVE  j = k
  <2>1. /\ was(j) \in 1..Len(s) /\ t[j] = s[was(j)]
        /\ was(k) \in 1..Len(s) /\ t[k] = s[was(k)]
    BY <1>1
  <2>2. was(j) = was(k)
    <3> HIDE DEF was
    <3> QED BY <1>4, <2>1 DEF Meant
  <2> QED BY <2>2
<1> HIDE DEF was, is
<1>5. ASSUME NEW j \in 1..Len(t)
      PROVE  t[j].id \in DOMAIN rest /\ t[j].value = rest[t[j].id]
  <2>1. /\ t[j] = s[was(j)] /\ s[was(j)].id \in DOMAIN w
        /\ s[was(j)].value = w[s[was(j)].id] /\ s[was(j)].id # s[i].id
    BY <1>1 DEF Meant
  <2> QED BY <1>3, <2>1
<1>6. ASSUME NEW x \in DOMAIN rest
      PROVE  \E j \in 1..Len(t) : t[j].id = x
  <2> PICK j \in 1..Len(s) : s[j].id = x
    BY <1>3 DEF Meant
  <2>1. j # i
    BY <1>3
  <2> QED BY <1>1, <1>2, <2>1
<1> QED BY <1>1, <1>3, <1>4, <1>5, <1>6 DEF Meant, t, rest

(* The value of a line changes: the others keep theirs.                    *)
LEMMA MeantChanged ==
  ASSUME NEW s \in Seq(Line), NEW w, Meant(s, w), Wished(w),
         NEW i \in 1..Len(s), NEW v \in Values, NEW t, t \in Seq(Line),
         Len(t) = Len(s),
         \A j \in 1..Len(s) :
           t[j].id = s[j].id /\ t[j].value = IF j = i THEN v ELSE s[j].value
  PROVE  Meant(t, With(w, s[i].id, v)) /\ Wished(With(w, s[i].id, v))
PROOF
<1> DEFINE id == s[i].id
<1>1. id \in Ids /\ id \in DOMAIN w /\ s[i] \in Line
  <2>1. s[i] \in Line
    OBVIOUS
  <2> QED BY <2>1 DEF Line, Meant
<1>3. \A j \in 1..Len(s) : s[j].id = id => j = i
  BY DEF Meant
<1>a. t[i].id = id /\ t[i].value = v
  OBVIOUS
<1> HIDE DEF id
<1>2. /\ DOMAIN With(w, id, v) = DOMAIN w
      /\ With(w, id, v)[id] = v /\ Wished(With(w, id, v))
      /\ \A x \in DOMAIN w : x # id => With(w, id, v)[x] = w[x]
  BY <1>1 DEF With, Wished
<1>4. ASSUME NEW j \in 1..Len(s), j # i
      PROVE  t[j].value = With(w, id, v)[t[j].id]
  <2>1. t[j].id # id /\ t[j].id \in DOMAIN w /\ t[j].value = w[t[j].id]
    BY <1>3, <1>4 DEF Meant
  <2> QED BY <1>2, <2>1
<1>5. t[i].value = With(w, id, v)[t[i].id]
  BY <1>a, <1>2
<1>6. \A j, k \in 1..Len(t) : t[j].id = t[k].id => j = k
  BY DEF Meant
<1>7. \A j \in 1..Len(t) : t[j].id \in DOMAIN With(w, id, v)
  BY <1>2 DEF Meant
<1>8. ASSUME NEW x \in DOMAIN With(w, id, v)
      PROVE  \E j \in 1..Len(t) : t[j].id = x
  <2>1. PICK j \in 1..Len(s) : s[j].id = x
    BY <1>2 DEF Meant
  <2> QED BY <2>1
<1>9. Meant(t, With(w, id, v))
  BY <1>4, <1>5, <1>6, <1>7, <1>8 DEF Meant
<1> QED BY <1>2, <1>9 DEF id

-----------------------------------------------------------------------------
LinesSpec == LinesInit /\ [][LinesNext]_linesVars

(* The line a sheet or an answer is for is still where it was, wherever    *)
(* changes go by place and their row is not of Misplacing: what its list   *)
(* offers moves no line meanwhile (Steady).                                *)
At(from) == from.place \in 1..Len(lines) /\ lines[from.place].id = from.id

Stays(from) ==
  /\ from \in There /\ from.place # 0
  /\ Points = "place" /\ table \notin Misplacing => At(from)

(* What is kept of a line comes from a gesture its list offers, and a line *)
(* that may be put back is not there.                                      *)
SheetInv == inSheet = NoPlace \/ (Offers("open") /\ Stays(inSheet))

AwaitedInv ==
  \/ awaited = NoPlace
  \/ Offers("find") /\ awaited \in There /\ awaited.place = 0
  \/ Offers("ask") /\ Stays(awaited)

RemovedInv ==
  \/ removed = NoLine
  \/ /\ Offers("undo") /\ removed.id \notin DOMAIN wished
     /\ removed \in [id : Ids, place : Ids, value : Values]

LinesInv ==
  /\ LinesTypeOK
  /\ misplaced => table \in Misplacing
  /\ ~misplaced => /\ Meant(lines, wished)
                   /\ SheetInv /\ AwaitedInv /\ RemovedInv

LEMMA LinesFacts ==
  ASSUME LinesInv, ~misplaced
  PROVE  /\ lines \in Seq(Line) /\ DOMAIN lines = 1..Len(lines)
         /\ Wished(wished) /\ Meant(lines, wished)
         /\ Held = DOMAIN wished /\ Len(lines) = Cardinality(Held)
         /\ Len(lines) <= MaxLines /\ Len(lines) \in Nat
         /\ table \in DOMAIN LineRows /\ LineRows[table] \in LineKinds
PROOF
<1>1. /\ lines \in Seq(Line) /\ Wished(wished) /\ Meant(lines, wished)
      /\ table \in DOMAIN LineRows
  BY DEF LinesInv, LinesTypeOK, Line, Wished
<1>2. LineRows[table] \in LineKinds
  BY <1>1, LinesAssumption
<1> QED BY <1>1, <1>2, MeantCount DEF Held

(* What a step that goes nowhere else has to show.                         *)
LEMMA LinesStep ==
  ASSUME LinesInv, ~misplaced, table' = table, misplaced' = misplaced,
         lines' \in Seq(Line), Meant(lines', wished'), Wished(wished'),
         SheetInv', AwaitedInv', RemovedInv'
  PROVE  LinesInv'
PROOF
<1>1. inSheet' \in There \cup {NoPlace}
  BY DEF SheetInv, Stays
<1>2. awaited' \in There \cup {NoPlace}
  BY DEF AwaitedInv, Stays
<1>3. removed' \in [id : Ids, place : Ids, value : Values] \cup {NoLine}
  BY DEF RemovedInv
<1>4. LinesTypeOK'
  BY <1>1, <1>2, <1>3 DEF LinesInv, LinesTypeOK, Wished, Line
<1> QED BY <1>4 DEF LinesInv

(* A step that leaves the lines where they are.                            *)
Kept ==
  \A j \in 1..Len(lines) :
    j \in 1..Len(lines') /\ lines'[j].id = lines[j].id

LEMMA KeptStays ==
  ASSUME table' = table, Kept
  PROVE  /\ inSheet' = inSheet /\ SheetInv => SheetInv'
         /\ awaited' = awaited /\ AwaitedInv => AwaitedInv'
PROOF
<1>1. \A from : At(from) => from.place \in 1..Len(lines')
                             /\ lines'[from.place].id = from.id
  BY DEF At, Kept
<1> HIDE DEF Kept
<1>2. ASSUME NEW from, Stays(from)
      PROVE  /\ from \in There /\ from.place # 0
             /\ LineRows[table'].points = "place" /\ table' \notin Misplacing =>
                  /\ from.place \in 1..Len(lines')
                  /\ lines'[from.place].id = from.id
  BY <1>1, <1>2 DEF Stays, Points
<1>3. inSheet' = inSheet /\ SheetInv => SheetInv'
  BY <1>2 DEF SheetInv, Stays, At, Offers, Points
<1>4. awaited' = awaited /\ AwaitedInv => AwaitedInv'
  BY <1>2 DEF AwaitedInv, Stays, At, Offers, Points
<1> QED BY <1>3, <1>4

(* Where a step moves lines no place is kept, or its list is of            *)
(* Misplacing, or finds the line by what it is.                            *)
LEMMA MovedStays ==
  ASSUME LinesInv, ~misplaced, table' = table, inSheet' = inSheet,
         awaited' = awaited,
         \/ Offers("undo") \/ Offers("up") \/ Offers("copy") \/ Offers("reread")
         \/ /\ Offers("remove") \/ Offers("zero") \/ Offers("delete")
            /\ inSheet = NoPlace
  PROVE  SheetInv' /\ AwaitedInv'
PROOF
<1>1. SheetInv /\ AwaitedInv /\ table \in DOMAIN LineRows
  BY LinesFacts DEF LinesInv
<1>2. table \notin Misplacing => Steady(LineRows[table])
  BY <1>1, LinesAssumption
<1>3. inSheet # NoPlace =>
        ~ (Points = "place" /\ table \notin Misplacing)
  BY <1>1, <1>2 DEF SheetInv, Steady, Offers, Points
<1>4. awaited # NoPlace /\ awaited.place # 0 =>
        ~ (Points = "place" /\ table \notin Misplacing)
  BY <1>1, <1>2 DEF AwaitedInv, Steady, Offers, Points
<1>5. SheetInv'
  BY <1>1, <1>3 DEF SheetInv, Stays, Offers, Points
<1>6. AwaitedInv'
  BY <1>1, <1>4 DEF AwaitedInv, Stays, Offers, Points
<1> QED BY <1>5, <1>6

(* Where a change goes: nowhere, its line having gone, or to its line,     *)
(* unless its list is of Misplacing.                                       *)
LEMMA Aim ==
  ASSUME LinesInv, ~misplaced, NEW from, Stays(from)
  PROVE  /\ Misses(from) => table \in Misplacing
         /\ ~Misses(from) =>
              \/ Target(from) = 0 /\ from.id \notin DOMAIN wished
              \/ Target(from) \in 1..Len(lines) /\ lines[Target(from)].id = from.id
PROOF
<1>1. /\ lines \in Seq(Line) /\ DOMAIN lines = 1..Len(lines)
      /\ Held = DOMAIN wished /\ LineRows[table] \in LineKinds
  BY LinesFacts
<1>2. CASE Points = "place"
  <2>1. Target(from) = from.place /\ from.place \in 0..MaxLines /\ from.place # 0
    BY <1>2 DEF Target, Stays, There
  <2>2. Misses(from) => table \in Misplacing
    BY <1>1, <1>2, <2>1 DEF Misses, Stays, At
  <2>3. ~Misses(from) => Target(from) \in 1..Len(lines)
                           /\ lines[Target(from)].id = from.id
    BY <1>1, <2>1 DEF Misses
  <2> QED BY <2>2, <2>3
<1>3. CASE Points # "place" /\ from.id \in Held
  <2>1. Target(from) = CHOOSE i \in DOMAIN lines : lines[i].id = from.id
    BY <1>3 DEF Target
  <2>2. \E i \in DOMAIN lines : lines[i].id = from.id
    BY <1>3 DEF Held
  <2>3. Target(from) \in 1..Len(lines) /\ lines[Target(from)].id = from.id
    BY <1>1, <2>1, <2>2
  <2> QED BY <1>1, <2>3 DEF Misses
<1>4. CASE Points # "place" /\ from.id \notin Held
  BY <1>1, <1>4 DEF Misses, Target
<1> QED BY <1>2, <1>3, <1>4

-----------------------------------------------------------------------------
(* Two lines exchanged are the same lines.                                 *)
LEMMA MeantSwapped ==
  ASSUME NEW s \in Seq(Line), NEW w, Meant(s, w), NEW i \in 1..Len(s), i > 1,
         NEW t, t \in Seq(Line), Len(t) = Len(s),
         \A j \in 1..Len(s) :
           t[j] = IF j = i THEN s[i - 1] ELSE IF j = i - 1 THEN s[i] ELSE s[j]
  PROVE  Meant(t, w)
PROOF
<1> DEFINE to(j) == IF j = i THEN i - 1 ELSE IF j = i - 1 THEN i ELSE j
<1>1. \A j \in 1..Len(s) : to(j) \in 1..Len(s) /\ to(to(j)) = j
  OBVIOUS
<1>2. \A j \in 1..Len(s) : t[j] = s[to(j)]
  OBVIOUS
<1> HIDE DEF to
<1>3. ASSUME NEW j \in 1..Len(t), NEW k \in 1..Len(t), t[j].id = t[k].id
      PROVE  j = k
  <2>1. /\ to(j) \in 1..Len(s) /\ t[j] = s[to(j)] /\ to(to(j)) = j
        /\ to(k) \in 1..Len(s) /\ t[k] = s[to(k)] /\ to(to(k)) = k
    BY <1>1, <1>2
  <2>2. to(j) = to(k)
    BY <1>3, <2>1 DEF Meant
  <2> QED BY <2>1, <2>2
<1>4. ASSUME NEW j \in 1..Len(t)
      PROVE  t[j].id \in DOMAIN w /\ t[j].value = w[t[j].id]
  <2>1. to(j) \in 1..Len(s) /\ t[j] = s[to(j)]
    BY <1>1, <1>2
  <2> QED BY <2>1 DEF Meant
<1>5. ASSUME NEW x \in DOMAIN w PROVE \E j \in 1..Len(t) : t[j].id = x
  <2>1. PICK k \in 1..Len(s) : s[k].id = x
    BY DEF Meant
  <2>2. to(k) \in 1..Len(t) /\ t[to(k)].id = x
    BY <1>1, <1>2, <2>1
  <2> QED BY <2>2
<1> QED BY <1>3, <1>4, <1>5 DEF Meant

(* One more of an article: on its line, or on a line of its own.           *)
LEMMA MeantMore ==
  ASSUME NEW s \in Seq(Line), NEW w, Meant(s, w), Wished(w), NEW id \in Ids
  PROVE  LET t == OneMore(s, id)
             f == With(w, id, More(w, id))
         IN  /\ t \in Seq(Line) /\ Meant(t, f) /\ Wished(f)
             /\ \A j \in 1..Len(s) : j \in 1..Len(t) /\ t[j].id = s[j].id
PROOF
<1> DEFINE t == OneMore(s, id)
           more == [j \in DOMAIN s |->
                      IF s[j].id = id /\ s[j].value < MaxOf
                      THEN [s[j] EXCEPT !.value = @ + 1] ELSE s[j]]
<1>1. /\ DOMAIN s = 1..Len(s) /\ Len(s) \in Nat
      /\ \A j \in 1..Len(s) : s[j] \in Line
  OBVIOUS
<1>2. MaxOf \in Nat \ {0} /\ \A x \in DOMAIN w : w[x] \in 1..MaxOf
  BY LinesAssumption DEF Wished, Values
<1>3. CASE \E i \in 1..Len(s) : s[i].id = id
  <2>1. PICK i \in 1..Len(s) : s[i].id = id
    BY <1>3
  <2>2. t = more
    BY <1>1, <1>3 DEF OneMore
  <2>3. /\ \A j \in 1..Len(s) : s[j].id = id => j = i
        /\ id \in DOMAIN w /\ s[i].value = w[id]
    BY <2>1 DEF Meant
  <2>4. /\ More(w, id) \in Values
        /\ More(w, id) = IF s[i].value < MaxOf THEN s[i].value + 1 ELSE s[i].value
    BY <1>2, <2>3 DEF More, Values
  <2>5. ASSUME NEW j \in 1..Len(s)
        PROVE  /\ more[j] \in Line /\ more[j].id = s[j].id
               /\ more[j].value = IF j = i THEN More(w, id) ELSE s[j].value
    <3>1. s[j] \in Line /\ s[j].value \in 1..MaxOf /\ s[j].id \in Ids
      BY <1>1 DEF Line, Values
    <3>2. CASE s[j].id = id /\ s[j].value < MaxOf
      <4>1. more[j] = [s[j] EXCEPT !.value = s[j].value + 1]
        BY <1>1, <3>2
      <4>2. more[j].id = s[j].id /\ more[j].value = s[j].value + 1
            /\ more[j] \in Line
        <5>1. s[j].value + 1 \in Values
          BY <1>2, <3>1, <3>2 DEF Values
        <5> QED BY <3>1, <4>1, <5>1 DEF Line
      <4>3. j = i /\ More(w, id) = s[j].value + 1
        BY <2>3, <2>4, <3>2
      <4> HIDE DEF more
      <4> QED BY <4>2, <4>3
    <3>3. CASE ~(s[j].id = id /\ s[j].value < MaxOf)
      <4>1. more[j] = s[j]
        BY <1>1, <3>3
      <4>2. j = i => More(w, id) = s[j].value
        BY <2>1, <2>4, <3>3
      <4> HIDE DEF more
      <4> QED BY <3>1, <4>1, <4>2
    <3> HIDE DEF more
    <3> QED BY <3>2, <3>3
  <2>6. DOMAIN more = 1..Len(s)
    BY <1>1
  <2> HIDE DEF more, t
  <2>7. more \in Seq(Line) /\ Len(more) = Len(s)
    <3>1. more \in [1..Len(s) -> Line]
      <4>1. more = [j \in 1..Len(s) |-> more[j]]
        BY <2>6 DEF more
      <4> QED BY <2>5, <4>1
    <3> QED BY <1>1, <3>1
  <2>8. /\ Meant(more, With(w, s[i].id, More(w, id)))
        /\ Wished(With(w, s[i].id, More(w, id)))
    BY <2>4, <2>5, <2>7, MeantChanged
  <2> QED BY <2>1, <2>2, <2>5, <2>7, <2>8 DEF t
<1>4. CASE ~ \E i \in 1..Len(s) : s[i].id = id
  <2>1. t = Append(s, [id |-> id, value |-> 1])
    BY <1>1, <1>4 DEF OneMore
  <2>2. id \notin DOMAIN w
    BY <1>4 DEF Meant
  <2>3. More(w, id) = 1 /\ 1 \in Values
    BY <1>2, <2>2 DEF More, Values
  <2> HIDE DEF t
  <2>4. /\ t \in Seq(Line) /\ Meant(t, With(w, id, 1))
        /\ Wished(With(w, id, 1))
    BY <2>1, <2>2, <2>3, MeantAppended
  <2>5. [id |-> id, value |-> 1] \in Line
    BY <2>3 DEF Line
  <2>6. \A j \in 1..Len(s) : j \in 1..Len(t) /\ t[j] = s[j]
    BY <1>1, <2>1, <2>5
  <2> QED BY <2>3, <2>4, <2>6 DEF t
<1> QED BY <1>3, <1>4

-----------------------------------------------------------------------------
LEMMA AddKeeps ==
  ASSUME LinesInv, ~misplaced, NEW id \in Ids, AddLine(id)
  PROVE  LinesInv'
PROOF
<1>1. /\ lines \in Seq(Line) /\ Wished(wished) /\ Meant(lines, wished)
      /\ Held = DOMAIN wished /\ SheetInv /\ AwaitedInv /\ RemovedInv
      /\ LineRows[table] \in LineKinds /\ table \in DOMAIN LineRows
  BY LinesFacts DEF LinesInv
<1>2. /\ table' = table /\ misplaced' = misplaced /\ inSheet' = inSheet
      /\ awaited' = awaited /\ removed' = removed
  BY DEF AddLine
<1>3. CASE /\ Offers("new") /\ id \in NewIds
           /\ lines' = Append(lines, [id |-> id, value |-> 1])
           /\ wished' = With(wished, id, 1)
  <2>1. id \in Ids \ DOMAIN wished /\ id # removed.id /\ 1 \in Values
    BY <1>1, <1>3, LinesAssumption DEF NewIds, Values
  <2>2. /\ lines' \in Seq(Line) /\ Meant(lines', wished') /\ Wished(wished')
    BY <1>1, <1>3, <2>1, MeantAppended
  <2>3. Kept
    BY <1>1, <1>3 DEF Kept, Line
  <2>4. RemovedInv'
    BY <1>1, <1>2, <1>3, <2>1 DEF RemovedInv, Offers, With
  <2> QED BY <1>1, <1>2, <2>2, <2>3, <2>4, KeptStays, LinesStep
<1>4. CASE /\ Offers("join") /\ lines' = OneMore(lines, id)
           /\ wished' = With(wished, id, More(wished, id))
  <2>1. /\ lines' \in Seq(Line) /\ Meant(lines', wished') /\ Wished(wished')
        /\ Kept
    BY <1>1, <1>4, MeantMore DEF Kept
  <2>2. removed = NoLine
    BY <1>1, <1>4, LinesAssumption DEF RemovedInv, Offers
  <2>3. RemovedInv'
    BY <1>2, <2>2 DEF RemovedInv, NoLine
  <2> QED BY <1>1, <1>2, <2>1, <2>3, KeptStays, LinesStep
<1> QED BY <1>3, <1>4 DEF AddLine

(* A change of a line in its row.                                          *)
LEMMA ChangeKeeps ==
  ASSUME LinesInv, ~misplaced, NEW i \in DOMAIN lines, NEW v \in Values,
         lines' = [lines EXCEPT ![i].value = v],
         wished' = With(wished, lines[i].id, v),
         table' = table, misplaced' = misplaced, inSheet' = inSheet,
         awaited' = awaited, removed' = removed
  PROVE  LinesInv'
PROOF
<1>1. /\ lines \in Seq(Line) /\ Wished(wished) /\ Meant(lines, wished)
      /\ DOMAIN lines = 1..Len(lines)
      /\ SheetInv /\ AwaitedInv /\ RemovedInv
  BY LinesFacts DEF LinesInv
<1>2. lines[i] \in Line /\ [lines[i] EXCEPT !.value = v] \in Line
  <2>1. lines[i] \in Line
    BY <1>1
  <2> QED BY <2>1 DEF Line
<1>3. /\ [lines[i] EXCEPT !.value = v].id = lines[i].id
      /\ [lines[i] EXCEPT !.value = v].value = v
  BY <1>2 DEF Line
<1>4. /\ lines' \in Seq(Line) /\ Len(lines') = Len(lines)
      /\ \A j \in 1..Len(lines) :
           lines'[j] = IF j = i THEN [lines[i] EXCEPT !.value = v] ELSE lines[j]
  BY <1>1, <1>2
<1>5. \A j \in 1..Len(lines) :
        /\ lines'[j].id = lines[j].id
        /\ lines'[j].value = IF j = i THEN v ELSE lines[j].value
  BY <1>3, <1>4
<1>6. Meant(lines', wished') /\ Wished(wished')
  <2> DEFINE t == lines'
  <2>1. /\ t \in Seq(Line) /\ Len(t) = Len(lines) /\ i \in 1..Len(lines)
        /\ \A j \in 1..Len(lines) :
             /\ t[j].id = lines[j].id
             /\ t[j].value = IF j = i THEN v ELSE lines[j].value
    BY <1>1, <1>4, <1>5
  <2>2. t = lines'
    OBVIOUS
  <2> HIDE DEF t
  <2>3. /\ Meant(t, With(wished, lines[i].id, v))
        /\ Wished(With(wished, lines[i].id, v))
    BY <1>1, <2>1, MeantChanged
  <2> QED BY <2>2, <2>3
<1>7. Kept
  BY <1>4, <1>5 DEF Kept
<1>8. RemovedInv'
  <2>1. DOMAIN wished' = DOMAIN wished
    <3>1. lines[i].id \in DOMAIN wished
      BY <1>1 DEF Meant
    <3> QED BY <3>1 DEF With
  <2> QED BY <1>1, <2>1 DEF RemovedInv, Offers
<1> QED BY <1>1, <1>4, <1>6, <1>7, <1>8, KeptStays, LinesStep

(* A removal, in its row or by another device.                             *)
LEMMA RemoveKeeps ==
  ASSUME LinesInv, ~misplaced, NEW i \in DOMAIN lines,
         lines' = RemoveAt(lines, i), wished' = Without(wished, lines[i].id),
         table' = table, misplaced' = misplaced, inSheet' = inSheet,
         awaited' = awaited,
         \/ removed' = removed
         \/ /\ Offers("undo")
            /\ removed' = [id |-> lines[i].id, place |-> i,
                           value |-> lines[i].value],
         \/ Offers("reread")
         \/ (Offers("remove") \/ Offers("zero")) /\ inSheet = NoPlace
  PROVE  LinesInv'
PROOF
<1>1. /\ lines \in Seq(Line) /\ Wished(wished) /\ Meant(lines, wished)
      /\ DOMAIN lines = 1..Len(lines) /\ RemovedInv
      /\ Len(lines) <= MaxLines /\ Len(lines) \in Nat
  BY LinesFacts DEF LinesInv
<1>2. lines' \in Seq(Line) /\ Meant(lines', wished') /\ Wished(wished')
  BY <1>1, MeantRemoved
<1>3. DOMAIN wished' = DOMAIN wished \ {lines[i].id}
  BY <1>1, WithoutIs
<1>4. SheetInv' /\ AwaitedInv'
  BY MovedStays
<1>5. RemovedInv'
  <2>1. CASE removed' = removed
    BY <1>1, <1>3, <2>1 DEF RemovedInv, Offers
  <2>2. CASE /\ Offers("undo")
             /\ removed' = [id |-> lines[i].id, place |-> i,
                            value |-> lines[i].value]
    <3>1. lines[i] \in Line /\ i \in Ids
      BY <1>1, LinesAssumption DEF Ids
    <3>2. removed' \in [id : Ids, place : Ids, value : Values]
      BY <2>2, <3>1 DEF Line
    <3> QED BY <1>3, <2>2, <3>2 DEF RemovedInv, Offers
  <2> QED BY <2>1, <2>2
<1> QED BY <1>2, <1>4, <1>5, LinesStep

(* A removed line put back.                                                *)
LEMMA PutBackKeeps ==
  ASSUME LinesInv, ~misplaced, PutBack
  PROVE  LinesInv'
PROOF
<1>1. /\ lines \in Seq(Line) /\ Wished(wished) /\ Meant(lines, wished)
      /\ DOMAIN lines = 1..Len(lines) /\ RemovedInv /\ Len(lines) \in Nat
  BY LinesFacts DEF LinesInv
<1>2. /\ Offers("undo") /\ removed.id \in Ids \ DOMAIN wished
      /\ removed.value \in Values /\ removed.place \in Ids
  BY <1>1 DEF PutBack, RemovedInv
<1> DEFINE i == IF removed.place > Len(lines) THEN Len(lines) + 1
                ELSE removed.place
<1>3. i \in 1..Len(lines) + 1
  BY <1>1, <1>2, LinesAssumption DEF Ids
<1>4. /\ lines' = InsertAt(lines, i, [id |-> removed.id,
                                      value |-> removed.value])
      /\ wished' = With(wished, removed.id, removed.value)
      /\ removed' = NoLine /\ table' = table /\ misplaced' = misplaced
      /\ inSheet' = inSheet /\ awaited' = awaited
  BY DEF PutBack
<1> HIDE DEF i
<1>5. lines' \in Seq(Line) /\ Meant(lines', wished') /\ Wished(wished')
  BY <1>1, <1>2, <1>3, <1>4, MeantInserted
<1>6. SheetInv' /\ AwaitedInv'
  BY <1>2, <1>4, MovedStays
<1>7. RemovedInv'
  BY <1>4 DEF RemovedInv, NoLine
<1> QED BY <1>4, <1>5, <1>6, <1>7, LinesStep

LEMMA UpKeeps ==
  ASSUME LinesInv, ~misplaced, NEW i \in DOMAIN lines, MoveUp(i)
  PROVE  LinesInv'
PROOF
<1>1. /\ lines \in Seq(Line) /\ Wished(wished) /\ Meant(lines, wished)
      /\ DOMAIN lines = 1..Len(lines) /\ RemovedInv /\ Len(lines) \in Nat
  BY LinesFacts DEF LinesInv
<1>2. /\ Offers("up") /\ i > 1 /\ wished' = wished /\ removed' = removed
      /\ table' = table /\ misplaced' = misplaced
      /\ inSheet' = inSheet /\ awaited' = awaited
      /\ lines' = [lines EXCEPT ![i] = lines[i - 1], ![i - 1] = lines[i]]
  BY DEF MoveUp
<1>3. i - 1 \in 1..Len(lines) /\ lines[i] \in Line /\ lines[i - 1] \in Line
  BY <1>1, <1>2
<1>4. /\ lines' \in Seq(Line) /\ Len(lines') = Len(lines)
      /\ \A j \in 1..Len(lines) :
           lines'[j] = IF j = i THEN lines[i - 1]
                       ELSE IF j = i - 1 THEN lines[i] ELSE lines[j]
  BY <1>1, <1>2, <1>3
<1>5. Meant(lines', wished') /\ Wished(wished')
  BY <1>1, <1>2, <1>4, MeantSwapped
<1>6. SheetInv' /\ AwaitedInv'
  BY <1>2, MovedStays
<1>7. RemovedInv'
  BY <1>1, <1>2 DEF RemovedInv, Offers
<1> QED BY <1>2, <1>4, <1>5, <1>6, <1>7, LinesStep

LEMMA CopyKeeps ==
  ASSUME LinesInv, ~misplaced, NEW i \in DOMAIN lines, NEW id \in Ids,
         Duplicate(i, id)
  PROVE  LinesInv'
PROOF
<1>1. /\ lines \in Seq(Line) /\ Wished(wished) /\ Meant(lines, wished)
      /\ DOMAIN lines = 1..Len(lines) /\ RemovedInv /\ Len(lines) \in Nat
      /\ Held = DOMAIN wished
  BY LinesFacts DEF LinesInv
<1>2. /\ Offers("copy") /\ id \in NewIds /\ removed' = removed
      /\ table' = table /\ misplaced' = misplaced
      /\ inSheet' = inSheet /\ awaited' = awaited
      /\ lines' = InsertAt(lines, i + 1, [id |-> id, value |-> lines[i].value])
      /\ wished' = With(wished, id, lines[i].value)
  BY DEF Duplicate
<1>3. /\ id \in Ids \ DOMAIN wished /\ id # removed.id
      /\ i + 1 \in 1..Len(lines) + 1 /\ lines[i].value \in Values
  <2>1. lines[i] \in Line
    BY <1>1
  <2> QED BY <1>1, <1>2, <2>1 DEF NewIds, Line
<1>4. lines' \in Seq(Line) /\ Meant(lines', wished') /\ Wished(wished')
  BY <1>1, <1>2, <1>3, MeantInserted
<1>5. SheetInv' /\ AwaitedInv'
  BY <1>2, MovedStays
<1>6. RemovedInv'
  BY <1>1, <1>2, <1>3 DEF RemovedInv, Offers, With
<1> QED BY <1>2, <1>4, <1>5, <1>6, LinesStep

-----------------------------------------------------------------------------
(* A change that goes to another line, in a list of Misplacing.            *)
LEMMA MisplacedStep ==
  ASSUME LinesInv, table' = table, table \in Misplacing, misplaced' = TRUE,
         lines' \in Seq(Line), Wished(wished'),
         inSheet' = inSheet \/ inSheet' = NoPlace,
         awaited' = awaited \/ awaited' = NoPlace, removed' = removed
  PROVE  LinesInv'
BY DEF LinesInv, LinesTypeOK, Line, Wished

(* What is set at the line a sheet or an answer is for.                    *)
SetAt(i, v) ==
  [j \in DOMAIN lines |->
     IF j = i THEN [lines[j] EXCEPT !.value = v] ELSE lines[j]]

LEMMA SetAtIs ==
  ASSUME lines \in Seq(Line), NEW i, NEW v \in Values
  PROVE  /\ SetAt(i, v) \in Seq(Line) /\ Len(SetAt(i, v)) = Len(lines)
         /\ \A j \in 1..Len(lines) :
              /\ SetAt(i, v)[j].id = lines[j].id
              /\ SetAt(i, v)[j].value = IF j = i THEN v ELSE lines[j].value
         /\ i \notin DOMAIN lines => SetAt(i, v) = lines
PROOF
<1> DEFINE t == SetAt(i, v)
<1>1. DOMAIN lines = 1..Len(lines) /\ Len(lines) \in Nat
  OBVIOUS
<1>2. ASSUME NEW j \in 1..Len(lines)
      PROVE  /\ t[j] \in Line /\ t[j].id = lines[j].id
             /\ t[j].value = IF j = i THEN v ELSE lines[j].value
             /\ j # i => t[j] = lines[j]
  <2>1. lines[j] \in Line
    OBVIOUS
  <2>2. t[j] = IF j = i THEN [lines[j] EXCEPT !.value = v] ELSE lines[j]
    BY <1>1 DEF SetAt
  <2> HIDE DEF t
  <2> QED BY <2>1, <2>2 DEF Line
<1>3. DOMAIN t = 1..Len(lines) /\ t = [j \in 1..Len(lines) |-> t[j]]
  BY <1>1 DEF SetAt
<1> HIDE DEF t
<1>4. t \in [1..Len(lines) -> Line]
  BY <1>2, <1>3
<1>5. t \in Seq(Line) /\ Len(t) = Len(lines)
  BY <1>1, <1>4
<1>6. i \notin DOMAIN lines => t = lines
  <2>1. i \notin DOMAIN lines => \A j \in 1..Len(lines) : t[j] = lines[j]
    BY <1>1, <1>2
  <2> QED BY <1>5, <2>1, SeqEqual
<1> QED BY <1>2, <1>5, <1>6 DEF t

(* Set where it aims, a line is what was meant.                            *)
LEMMA SetKeeps ==
  ASSUME LinesInv, ~misplaced, NEW from, Stays(from), ~Misses(from),
         NEW v \in Values
  PROVE  LET w == IF from.id \in DOMAIN wished THEN With(wished, from.id, v)
                  ELSE wished
         IN  /\ Meant(SetAt(Target(from), v), w) /\ Wished(w)
             /\ DOMAIN w = DOMAIN wished
PROOF
<1> DEFINE i == Target(from)
           t == SetAt(i, v)
<1>1. /\ lines \in Seq(Line) /\ Wished(wished) /\ Meant(lines, wished)
      /\ DOMAIN lines = 1..Len(lines) /\ Len(lines) \in Nat
  BY LinesFacts
<1>2. \/ i = 0 /\ from.id \notin DOMAIN wished
      \/ i \in 1..Len(lines) /\ lines[i].id = from.id
  BY Aim
<1> HIDE DEF i
<1>3. /\ t \in Seq(Line) /\ Len(t) = Len(lines)
      /\ \A j \in 1..Len(lines) :
           /\ t[j].id = lines[j].id
           /\ t[j].value = IF j = i THEN v ELSE lines[j].value
      /\ i \notin DOMAIN lines => t = lines
  BY <1>1, SetAtIs
<1> HIDE DEF t
<1>4. CASE i = 0 /\ from.id \notin DOMAIN wished
  BY <1>1, <1>3, <1>4 DEF t, i
<1>5. CASE i \in 1..Len(lines) /\ lines[i].id = from.id
  <2>1. from.id \in DOMAIN wished
    BY <1>1, <1>5 DEF Meant
  <2>2. /\ Meant(t, With(wished, lines[i].id, v))
        /\ Wished(With(wished, lines[i].id, v))
    BY <1>1, <1>3, <1>5, MeantChanged
  <2>3. DOMAIN With(wished, from.id, v) = DOMAIN wished
    BY <2>1 DEF With
  <2> QED BY <1>5, <2>1, <2>2, <2>3 DEF t, i
<1> QED BY <1>2, <1>4, <1>5

LEMMA SubmitKeeps ==
  ASSUME LinesInv, ~misplaced, NEW v \in Values, SubmitLine(v)
  PROVE  LinesInv'
PROOF
<1>1. /\ lines \in Seq(Line) /\ Wished(wished) /\ DOMAIN lines = 1..Len(lines)
      /\ AwaitedInv /\ RemovedInv /\ Stays(inSheet)
  BY LinesFacts DEF LinesInv, SheetInv, SubmitLine
<1>2. /\ lines' = SetAt(Target(inSheet), v)
      /\ wished' = IF inSheet.id \in DOMAIN wished
                   THEN With(wished, inSheet.id, v) ELSE wished
      /\ misplaced' = (misplaced \/ Misses(inSheet)) /\ inSheet' = NoPlace
      /\ table' = table /\ awaited' = awaited /\ removed' = removed
  BY DEF SubmitLine, SetAt
<1>3. /\ lines' \in Seq(Line) /\ Len(lines') = Len(lines)
      /\ \A j \in 1..Len(lines) : lines'[j].id = lines[j].id
  BY <1>1, <1>2, SetAtIs
<1>4. CASE Misses(inSheet)
  <2>1. table \in Misplacing
    BY <1>1, <1>4, Aim
  <2>2. Wished(wished')
    BY <1>1, <1>2 DEF Wished, With
  <2> QED BY <1>2, <1>3, <1>4, <2>1, <2>2, MisplacedStep
<1>5. CASE ~Misses(inSheet)
  <2>1. /\ Meant(lines', wished') /\ Wished(wished')
        /\ DOMAIN wished' = DOMAIN wished
    BY <1>1, <1>2, <1>5, SetKeeps
  <2>2. Kept
    BY <1>3 DEF Kept
  <2>3. AwaitedInv'
    BY <1>1, <1>2, <2>2, KeptStays
  <2>4. SheetInv' /\ RemovedInv'
    BY <1>1, <1>2, <2>1 DEF SheetInv, RemovedInv, Offers
  <2>5. misplaced' = misplaced
    BY <1>2, <1>5 DEF LinesInv, LinesTypeOK
  <2> QED BY <1>2, <1>3, <2>1, <2>3, <2>4, <2>5, LinesStep
<1> QED BY <1>4, <1>5

LEMMA DeleteKeeps ==
  ASSUME LinesInv, ~misplaced, DeleteLine
  PROVE  LinesInv'
PROOF
<1> DEFINE i == Target(inSheet)
<1>1. /\ lines \in Seq(Line) /\ Wished(wished) /\ Meant(lines, wished)
      /\ DOMAIN lines = 1..Len(lines) /\ Len(lines) \in Nat
      /\ AwaitedInv /\ RemovedInv /\ Stays(inSheet) /\ inSheet # NoPlace
      /\ table \in DOMAIN LineRows
  BY LinesFacts DEF LinesInv, SheetInv, DeleteLine
<1>2. /\ Offers("delete") /\ inSheet' = NoPlace
      /\ lines' = IF i \in DOMAIN lines THEN RemoveAt(lines, i) ELSE lines
      /\ wished' = Without(wished, inSheet.id)
      /\ misplaced' = (misplaced \/ Misses(inSheet))
      /\ table' = table /\ awaited' = awaited /\ removed' = removed
  BY DEF DeleteLine
<1> HIDE DEF i
<1>3. lines' \in Seq(Line)
  BY <1>1, <1>2, RemovedAt
<1>4. /\ DOMAIN wished' = DOMAIN wished \ {inSheet.id} /\ Wished(wished')
      /\ \A x \in DOMAIN wished \ {inSheet.id} : wished'[x] = wished[x]
  BY <1>1, <1>2, WithoutIs
<1>5. CASE Misses(inSheet)
  <2>1. table \in Misplacing
    BY <1>1, <1>5, Aim
  <2> QED BY <1>2, <1>3, <1>4, <1>5, <2>1, MisplacedStep
<1>6. CASE ~Misses(inSheet)
  <2>1. \/ i = 0 /\ inSheet.id \notin DOMAIN wished
        \/ i \in 1..Len(lines) /\ lines[i].id = inSheet.id
    BY <1>1, <1>6, Aim DEF i
  <2>2. Meant(lines', wished')
    <3>1. CASE i = 0 /\ inSheet.id \notin DOMAIN wished
      <4>1. lines' = lines
        BY <1>1, <1>2, <3>1
      <4>2. /\ DOMAIN wished' = DOMAIN wished
            /\ \A x \in DOMAIN wished : wished'[x] = wished[x]
        BY <1>4, <3>1
      <4> QED BY <1>1, <4>1, <4>2 DEF Meant
    <3>2. CASE i \in 1..Len(lines) /\ lines[i].id = inSheet.id
      <4>1. /\ lines' = RemoveAt(lines, i)
            /\ wished' = Without(wished, lines[i].id)
        BY <1>1, <1>2, <3>2
      <4> QED BY <1>1, <3>2, <4>1, MeantRemoved
    <3> QED BY <2>1, <3>1, <3>2
  <2>3. AwaitedInv'
    <3>1. table \notin Misplacing => Steady(LineRows[table])
      BY <1>1, LinesAssumption
    <3>2. awaited # NoPlace /\ awaited.place # 0 =>
            ~ (Points = "place" /\ table \notin Misplacing)
      BY <1>1, <1>2, <3>1 DEF AwaitedInv, Steady, Offers, Points
    <3> QED BY <1>1, <1>2, <3>2 DEF AwaitedInv, Stays, Offers, Points
  <2>4. SheetInv' /\ RemovedInv'
    BY <1>1, <1>2, <1>4 DEF SheetInv, RemovedInv, Offers
  <2>5. misplaced' = misplaced
    BY <1>2, <1>6 DEF LinesInv, LinesTypeOK
  <2> QED BY <1>2, <1>3, <1>4, <2>2, <2>3, <2>4, <2>5, LinesStep
<1> QED BY <1>5, <1>6

LEMMA FilledKeeps ==
  ASSUME LinesInv, ~misplaced, NEW v \in Values, Filled(v)
  PROVE  LinesInv'
PROOF
<1>1. /\ lines \in Seq(Line) /\ Wished(wished) /\ DOMAIN lines = 1..Len(lines)
      /\ Len(lines) \in Nat /\ Meant(lines, wished)
      /\ SheetInv /\ RemovedInv /\ Stays(awaited)
  BY LinesFacts DEF LinesInv, AwaitedInv, Filled
<1>2. /\ lines' = IF Target(awaited) > Len(lines)
                  THEN Append(lines, [id |-> awaited.id, value |-> v])
                  ELSE SetAt(Target(awaited), v)
      /\ wished' = IF awaited.id \in DOMAIN wished
                   THEN With(wished, awaited.id, v) ELSE wished
      /\ misplaced' = (misplaced \/ Misses(awaited)) /\ awaited' = NoPlace
      /\ table' = table /\ inSheet' = inSheet /\ removed' = removed
  BY DEF Filled, SetAt
<1>3. awaited.id \in Ids
  BY <1>1 DEF Stays, There
<1>4. CASE Misses(awaited)
  <2>1. table \in Misplacing
    BY <1>1, <1>4, Aim
  <2>2. Wished(wished')
    BY <1>1, <1>2, <1>3 DEF Wished, With
  <2>3. lines' \in Seq(Line)
    <3>1. [id |-> awaited.id, value |-> v] \in Line
      BY <1>3 DEF Line
    <3> HIDE DEF Filled
    <3> QED BY <1>1, <1>2, <3>1, SetAtIs
  <2> QED BY <1>2, <1>4, <2>1, <2>2, <2>3, MisplacedStep
<1>5. CASE ~Misses(awaited)
  <2>1. lines' = SetAt(Target(awaited), v)
    <3>1. Target(awaited) \in 0..Len(lines)
      BY <1>1, <1>5, Aim
    <3>2. ~(Target(awaited) > Len(lines))
      BY <1>1, <3>1
    <3> QED BY <1>2, <3>2
  <2>2. /\ Meant(lines', wished') /\ Wished(wished')
        /\ DOMAIN wished' = DOMAIN wished
    BY <1>1, <1>2, <1>5, <2>1, SetKeeps
  <2>3. lines' \in Seq(Line) /\ Kept
    BY <1>1, <2>1, SetAtIs DEF Kept
  <2>4. SheetInv'
    BY <1>1, <1>2, <2>3, KeptStays
  <2>5. AwaitedInv' /\ RemovedInv'
    BY <1>1, <1>2, <2>2 DEF AwaitedInv, RemovedInv, Offers
  <2>6. misplaced' = misplaced
    BY <1>2, <1>5 DEF LinesInv, LinesTypeOK
  <2> QED BY <1>2, <2>2, <2>3, <2>4, <2>5, <2>6, LinesStep
<1> QED BY <1>4, <1>5

-----------------------------------------------------------------------------
(* The steps that leave the lines as they are.                             *)
LEMMA OpenKeeps ==
  ASSUME LinesInv, ~misplaced, NEW i \in DOMAIN lines,
         OpenLine(i) \/ CreateFor(i)
  PROVE  LinesInv'
PROOF
<1>1. /\ lines \in Seq(Line) /\ Wished(wished) /\ Meant(lines, wished)
      /\ DOMAIN lines = 1..Len(lines) /\ Len(lines) \in Nat
      /\ Len(lines) <= MaxLines /\ SheetInv /\ AwaitedInv /\ RemovedInv
  BY LinesFacts DEF LinesInv
<1>2. /\ lines' = lines /\ wished' = wished /\ removed' = removed
      /\ table' = table /\ misplaced' = misplaced
  BY DEF OpenLine, CreateFor
<1> DEFINE from == [id |-> lines[i].id, place |-> i]
<1>3. Stays(from)
  <2>1. lines[i] \in Line /\ i \in 1..Len(lines)
    BY <1>1
  <2>2. lines[i].id \in Ids /\ i \in 0..MaxLines /\ i # 0
    BY <1>1, <2>1, LinesAssumption DEF Line
  <2>3. from \in There /\ from.place = i /\ from.id = lines[i].id
    BY <2>2 DEF There
  <2> HIDE DEF from
  <2> QED BY <2>1, <2>2, <2>3 DEF Stays, At
<1> HIDE DEF from
<1>4. Kept
  BY <1>2 DEF Kept
<1>5. RemovedInv'
  BY <1>1, <1>2 DEF RemovedInv, Offers
<1>6. CASE OpenLine(i)
  <2>1. Offers("open") /\ inSheet' = from /\ awaited' = awaited
    BY <1>6 DEF OpenLine, from
  <2>2. SheetInv'
    BY <1>2, <1>3, <2>1 DEF SheetInv, Offers, Stays, At, Points
  <2>3. AwaitedInv'
    BY <1>1, <1>2, <1>4, <2>1, KeptStays
  <2> QED BY <1>1, <1>2, <1>5, <2>2, <2>3, LinesStep
<1>7. CASE CreateFor(i)
  <2>1. Offers("ask") /\ awaited' = from /\ inSheet' = inSheet
    BY <1>7 DEF CreateFor, from
  <2>2. AwaitedInv'
    BY <1>2, <1>3, <2>1 DEF AwaitedInv, Offers, Stays, At, Points
  <2>3. SheetInv'
    BY <1>1, <1>2, <1>4, <2>1, KeptStays
  <2> QED BY <1>1, <1>2, <1>5, <2>2, <2>3, LinesStep
<1> QED BY <1>6, <1>7

LEMMA QuietKeeps ==
  ASSUME LinesInv, ~misplaced,
         \/ LeaveOut \/ CloseLine \/ NotAnswered
         \/ \E id \in Ids : LookUp(id)
  PROVE  LinesInv'
PROOF
<1>1. /\ lines \in Seq(Line) /\ Wished(wished) /\ Meant(lines, wished)
      /\ SheetInv /\ AwaitedInv /\ RemovedInv
  BY LinesFacts DEF LinesInv
<1>2. /\ lines' = lines /\ wished' = wished
      /\ table' = table /\ misplaced' = misplaced
  BY DEF LeaveOut, CloseLine, NotAnswered, LookUp
<1>3. Kept
  BY <1>2 DEF Kept
<1>4. SheetInv'
  <2>1. inSheet' = inSheet \/ inSheet' = NoPlace
    BY DEF LeaveOut, CloseLine, NotAnswered, LookUp
  <2>2. CASE inSheet' = inSheet
    BY <1>1, <1>2, <1>3, <2>2, KeptStays
  <2>3. CASE inSheet' = NoPlace
    BY <2>3 DEF SheetInv, NoPlace
  <2> QED BY <2>1, <2>2, <2>3
<1>5. AwaitedInv'
  <2>1. \/ awaited' = awaited \/ awaited' = NoPlace
        \/ \E id \in Ids : Offers("find") /\ awaited' = [id |-> id, place |-> 0]
    BY DEF LeaveOut, CloseLine, NotAnswered, LookUp
  <2>2. CASE awaited' = awaited
    BY <1>1, <1>2, <1>3, <2>2, KeptStays
  <2>3. CASE awaited' = NoPlace
    BY <2>3 DEF AwaitedInv, NoPlace
  <2>4. CASE \E id \in Ids : Offers("find")
                             /\ awaited' = [id |-> id, place |-> 0]
    <3>1. PICK id \in Ids : Offers("find")
                            /\ awaited' = [id |-> id, place |-> 0]
      BY <2>4
    <3>2. awaited' \in There /\ awaited'.place = 0
      BY <3>1, LinesAssumption DEF There
    <3> QED BY <1>2, <3>1, <3>2 DEF AwaitedInv, Offers
  <2> QED BY <2>1, <2>2, <2>3, <2>4
<1>6. RemovedInv'
  <2>1. removed' = removed \/ removed' = NoLine
    BY DEF LeaveOut, CloseLine, NotAnswered, LookUp
  <2> QED BY <1>1, <1>2, <2>1 DEF RemovedInv, Offers, NoLine
<1> QED BY <1>1, <1>2, <1>4, <1>5, <1>6, LinesStep

LEMMA AddedKeeps ==
  ASSUME LinesInv, ~misplaced, Added
  PROVE  LinesInv'
PROOF
<1>1. /\ lines \in Seq(Line) /\ Wished(wished) /\ Meant(lines, wished)
      /\ SheetInv /\ AwaitedInv /\ RemovedInv
      /\ LineRows[table] \in LineKinds /\ table \in DOMAIN LineRows
  BY LinesFacts DEF LinesInv
<1>2. /\ awaited # NoPlace /\ awaited.place = 0 /\ awaited' = NoPlace
      /\ lines' = OneMore(lines, awaited.id)
      /\ wished' = With(wished, awaited.id, More(wished, awaited.id))
      /\ table' = table /\ misplaced' = misplaced /\ inSheet' = inSheet
      /\ removed' = removed
  BY DEF Added
<1>3. Offers("find") /\ awaited.id \in Ids
  BY <1>1, <1>2 DEF AwaitedInv, Stays, There
<1>4. /\ lines' \in Seq(Line) /\ Meant(lines', wished') /\ Wished(wished')
      /\ Kept
  BY <1>1, <1>2, <1>3, MeantMore DEF Kept
<1>5. removed = NoLine
  BY <1>1, <1>3, LinesAssumption DEF RemovedInv, Offers
<1>6. SheetInv'
  BY <1>1, <1>2, <1>4, KeptStays
<1>7. RemovedInv' /\ AwaitedInv'
  BY <1>2, <1>5 DEF RemovedInv, AwaitedInv, NoLine, NoPlace
<1> QED BY <1>2, <1>4, <1>6, <1>7, LinesStep

-----------------------------------------------------------------------------
LEMMA LinesBegin == LinesInit => LinesInv
PROOF
<1> SUFFICES ASSUME LinesInit PROVE LinesInv
  OBVIOUS
<1>1. /\ table \in DOMAIN LineRows /\ inSheet = NoPlace /\ awaited = NoPlace
      /\ removed = NoLine /\ misplaced = FALSE /\ wished = [id \in Held |-> 1]
      /\ \A i \in DOMAIN lines : lines[i].id = i
  BY DEF LinesInit
<1>2. PICK n \in 0..MaxLines : lines \in [1..n -> [id : Ids, value : {1}]]
  BY DEF LinesInit
<1>3. 1 \in Values /\ MaxLines \in Nat
  BY LinesAssumption DEF Values
<1>4. lines \in [1..n -> Line]
  BY <1>2, <1>3 DEF Line
<1>5. /\ lines \in Seq(Line) /\ Len(lines) = n /\ DOMAIN lines = 1..n
      /\ \A i \in 1..n : lines[i] \in Line /\ lines[i].value = 1
  <2>1. n \in Nat
    BY <1>3
  <2>2. lines \in Seq(Line) /\ Len(lines) = n /\ DOMAIN lines = 1..n
    BY <1>4, <2>1
  <2>3. \A i \in 1..n : lines[i] \in [id : Ids, value : {1}]
    BY <1>2
  <2>4. \A i \in 1..n : lines[i].value = 1
    BY <2>3
  <2> QED BY <1>4, <2>2, <2>4
<1>6. /\ \A i \in 1..n : lines[i].id \in Ids /\ lines[i].id \in Held
      /\ \A id \in Held : id \in Ids /\ \E i \in 1..n : lines[i].id = id
  <2>1. \A i \in 1..n : lines[i].id \in Ids
    BY <1>5 DEF Line
  <2> QED BY <1>5, <2>1 DEF Held
<1>7. Meant(lines, wished)
  BY <1>1, <1>5, <1>6 DEF Meant
<1>8. Wished(wished)
  BY <1>1, <1>3, <1>6 DEF Wished
<1>9. LinesTypeOK
  BY <1>1, <1>5, <1>8 DEF LinesTypeOK, Wished, Line
<1> QED BY <1>1, <1>7, <1>9 DEF LinesInv, SheetInv, AwaitedInv, RemovedInv

LEMMA LinesStepKeeps == LinesInv /\ [LinesNext]_linesVars => LinesInv'
PROOF
<1> SUFFICES ASSUME LinesInv, [LinesNext]_linesVars PROVE LinesInv'
  OBVIOUS
<1>1. CASE UNCHANGED linesVars
  BY <1>1 DEF linesVars, LinesInv, LinesTypeOK, SheetInv, AwaitedInv,
              RemovedInv, Stays, At, Offers, Points
<1>2. CASE LinesNext
  <2>1. ~misplaced
    BY <1>2 DEF LinesNext
  <2>2. CASE PutBack \/ DeleteLine \/ Added
    BY <2>1, <2>2, PutBackKeeps, DeleteKeeps, AddedKeeps
  <2>3. CASE \/ LeaveOut \/ CloseLine \/ NotAnswered
             \/ \E id \in Ids : LookUp(id)
    BY <2>1, <2>3, QuietKeeps
  <2>4. ASSUME NEW v \in Values, SubmitLine(v) \/ Filled(v) PROVE LinesInv'
    BY <2>1, <2>4, SubmitKeeps, FilledKeeps
  <2>5. ASSUME NEW id \in Ids, AddLine(id) PROVE LinesInv'
    BY <2>1, <2>5, AddKeeps
  <2>6. ASSUME NEW i \in DOMAIN lines, NEW v \in Values, ChangeLine(i, v)
        PROVE  LinesInv'
    BY <2>1, <2>6, ChangeKeeps DEF ChangeLine
  <2>7. ASSUME NEW i \in DOMAIN lines, NEW id \in Ids, Duplicate(i, id)
        PROVE  LinesInv'
    BY <2>1, <2>7, CopyKeeps
  <2>8. ASSUME NEW i \in DOMAIN lines, RemoveLine(i) PROVE LinesInv'
    BY <2>1, <2>8, RemoveKeeps DEF RemoveLine
  <2>9. ASSUME NEW i \in DOMAIN lines, NoMoreOf(i) PROVE LinesInv'
    BY <2>1, <2>9, RemoveKeeps DEF NoMoreOf
  <2>10. ASSUME NEW i \in DOMAIN lines, MoveUp(i) PROVE LinesInv'
    BY <2>1, <2>10, UpKeeps
  <2>11. ASSUME NEW i \in DOMAIN lines, OpenLine(i) \/ CreateFor(i)
         PROVE  LinesInv'
    BY <2>1, <2>11, OpenKeeps
  <2>12. ASSUME NEW i \in DOMAIN lines, ReadAnew(i) PROVE LinesInv'
    <3>1. CASE /\ lines' = RemoveAt(lines, i)
               /\ wished' = Without(wished, lines[i].id)
      BY <2>1, <2>12, <3>1, RemoveKeeps DEF ReadAnew
    <3>2. ASSUME NEW v \in Values, lines' = [lines EXCEPT ![i].value = v],
                 wished' = With(wished, lines[i].id, v)
          PROVE  LinesInv'
      BY <2>1, <2>12, <3>2, ChangeKeeps DEF ReadAnew
    <3> QED BY <2>12, <3>1, <3>2 DEF ReadAnew
  <2> QED BY <1>2, <2>2, <2>3, <2>4, <2>5, <2>6, <2>7, <2>8, <2>9, <2>10,
             <2>11, <2>12 DEF LinesNext
<1> QED BY <1>1, <1>2

(* The lines keep their shape, and removed, opened and awaited ones too.   *)
THEOREM LinesTypes == LinesSpec => []LinesTypeOK
PROOF
<1>1. LinesInv => LinesTypeOK
  BY DEF LinesInv
<1> QED BY <1>1, LinesBegin, LinesStepKeeps, PTL DEF LinesSpec

(* Whatever happens between a gesture and its effect, it is for the line   *)
(* it was made on, an article has one line, and a line that comes back is  *)
(* the one removed: in every list but those of Misplacing.                 *)
THEOREM LinesAreAsMeant == LinesSpec => []LinesAsMeant
PROOF
<1>1. LinesInv => LinesAsMeant
  <2> SUFFICES ASSUME LinesInv PROVE LinesAsMeant
    OBVIOUS
  <2>1. CASE misplaced
    BY <2>1 DEF LinesInv, LinesAsMeant
  <2>2. CASE ~misplaced
    <3>1. /\ Held = DOMAIN wished /\ Len(lines) = Cardinality(Held)
          /\ Meant(lines, wished) /\ DOMAIN lines = 1..Len(lines)
      BY <2>2, LinesFacts
    <3> QED BY <2>2, <3>1 DEF LinesAsMeant, Meant
  <2> QED BY <2>1, <2>2
<1> QED BY <1>1, LinesBegin, LinesStepKeeps, PTL DEF LinesSpec

-----------------------------------------------------------------------------
(* OrderDetail: the page of an order.                                      *)
DetailSpec == DetailInit /\ [][DetailNext]_detailVars

Changes == [from : OrderStatuses, to : OrderStatuses]

Sold(status, paid, invoiced, filled, changes) ==
  [status |-> status, paid |-> paid, invoiced |-> invoiced,
   filled |-> filled, changes |-> changes]

LEMMA SoldIs ==
  ASSUME NEW a \in OrderStatuses, NEW p \in 0..MaxPaid, NEW b \in BOOLEAN,
         NEW f \in BOOLEAN, NEW c \in 0..MaxChanges
  PROVE  Sold(a, p, b, f, c) \in Sales
BY DEF Sold, Sales

(* What the back end makes of an order it changes.                         *)
LEMMA ResultsAre ==
  ASSUME NEW s \in Sales, NEW ask \in OrderAsks, NEW paid \in 0..MaxPaid,
         ask.does # "none", NEW t \in Results(s, ask, paid),
         ask.does = "status" => s.changes < MaxChanges
  PROVE  /\ t \in Sales
         /\ t.status = IF ask.does = "status" THEN ask.to ELSE s.status
         /\ t.changes = IF ask.does = "status" THEN s.changes + 1
                        ELSE s.changes
PROOF
<1>1. /\ s.status \in OrderStatuses /\ s.paid \in 0..MaxPaid
      /\ s.invoiced \in BOOLEAN /\ s.filled \in BOOLEAN
      /\ s.changes \in 0..MaxChanges /\ ask.to \in OrderStatuses
      /\ ask.does \in Kinds
  BY DEF Sales, OrderAsks
<1>2. CASE ask.does = "status"
  <2>1. t = [s EXCEPT !.status = ask.to, !.changes = @ + 1]
    BY <1>2 DEF Results
  <2>2. /\ s = Sold(s.status, s.paid, s.invoiced, s.filled, s.changes)
        /\ t = Sold(ask.to, s.paid, s.invoiced, s.filled, s.changes + 1)
    BY <2>1 DEF Sales, Sold
  <2>3. s.changes + 1 \in 0..MaxChanges
    BY <1>1, <1>2, DetailAssumption
  <2>4. t \in Sales
    BY <1>1, <2>2, <2>3, SoldIs
  <2> QED BY <1>2, <2>2, <2>4 DEF Sold
<1>3. CASE ask.does = "pay"
  BY <1>1, <1>3 DEF Results, Sales
<1>4. CASE ask.does = "issue"
  BY <1>1, <1>4 DEF Results, Sales
<1>5. CASE ask.does = "edit"
  BY <1>1, <1>5 DEF Results, Sales
<1> QED BY <1>1, <1>2, <1>3, <1>4, <1>5 DEF Kinds

LEMMA AsksAre ==
  /\ \A kind \in Kinds : /\ Plain(kind) \in OrderAsks
                         /\ Plain(kind).does = kind
                         /\ Plain(kind).to = "to_prepare"
  /\ \A status \in OrderStatuses :
       /\ To(status) \in OrderAsks /\ To(status).does = "status"
       /\ To(status).to = status
  /\ \A n \in -MaxPaid..MaxPaid :
       /\ Pay(n) \in OrderAsks /\ Pay(n).does = "pay" /\ Pay(n).amount = n
PROOF
<1>1. MaxPaid \in Nat /\ 0 \in -MaxPaid..MaxPaid
  BY DetailAssumption
<1>2. \A status \in OrderStatuses :
        To(status) = [does |-> "status", to |-> status, amount |-> 0]
  BY DEF To, Plain
<1>3. \A n \in -MaxPaid..MaxPaid :
        Pay(n) = [does |-> "pay", to |-> "to_prepare", amount |-> n]
  BY DEF Pay, Plain
<1>4. \A kind \in Kinds : /\ Plain(kind) \in OrderAsks
                          /\ Plain(kind).does = kind
                          /\ Plain(kind).to = "to_prepare"
  BY <1>1 DEF Plain, OrderAsks, OrderStatuses
<1>5. \A status \in OrderStatuses :
        /\ To(status) \in OrderAsks /\ To(status).does = "status"
        /\ To(status).to = status
  BY <1>1, <1>2 DEF OrderAsks, Kinds
<1>6. \A n \in -MaxPaid..MaxPaid :
        /\ Pay(n) \in OrderAsks /\ Pay(n).does = "pay" /\ Pay(n).amount = n
  BY <1>3 DEF OrderAsks, OrderStatuses, Kinds
<1> QED BY <1>4, <1>5, <1>6

(* The tables of the two sides, for a status.                              *)
LEMMA NextIs ==
  ASSUME NEW mode \in Modes, NEW status \in OrderStatuses
  PROVE  /\ NextStatus(status, mode) \subseteq
              AllowedTransitions(status, mode) \cap OrderStatuses
         /\ RevertStatus(status, mode) \subseteq
              AllowedTransitions(status, mode) \cap OrderStatuses
PROOF
<1>1. CASE mode = "delivery" \/ status = "prepared"
  <2>1. FlowStatuses(mode, status) = <<"to_prepare", "prepared", "shipped">>
    BY <1>1 DEF FlowStatuses
  <2>2. NextStatus(status, mode) =
          {IF i = 1 THEN "prepared" ELSE "shipped" :
             i \in {i \in 1..2 : status = IF i = 1 THEN "to_prepare"
                                          ELSE "prepared"}}
    BY <2>1 DEF NextStatus
  <2>3. RevertStatus(status, mode) =
          {IF i = 2 THEN "to_prepare" ELSE "prepared" :
             i \in {i \in 2..3 : status = IF i = 2 THEN "prepared"
                                          ELSE "shipped"}}
    BY <2>1 DEF RevertStatus
  <2> QED BY <1>1, <2>2, <2>3 DEF AllowedTransitions, OrderStatuses, Modes
<1>2. CASE ~(mode = "delivery" \/ status = "prepared")
  <2>1. FlowStatuses(mode, status) = <<"to_prepare", "shipped">>
    BY <1>2 DEF FlowStatuses
  <2>2. NextStatus(status, mode) =
          {"shipped" : i \in {i \in 1..1 : status = "to_prepare"}}
    BY <2>1 DEF NextStatus
  <2>3. RevertStatus(status, mode) =
          {"to_prepare" : i \in {i \in 2..2 : status = "shipped"}}
    BY <2>1 DEF RevertStatus
  <2> QED BY <1>2, <2>2, <2>3 DEF AllowedTransitions, OrderStatuses, Modes
<1> QED BY <1>1, <1>2

(* What the page offers, whatever it has read, is a request, and one the   *)
(* back end accepts if what it rests on is as it was read.                 *)
OfferAt(v, ask) ==
  /\ ask \in OrderAsks /\ ask.does # "none"
  /\ \A s \in Sales, shop \in ShownShop :
       RestsOn(ask, v.sale, v.seat) = RestsOn(ask, s, shop) =>
         Accepts(s, shop, ask)

LEMMA MovesOffered ==
  ASSUME NEW v \in Readings, NEW status \in OrderStatuses,
         status \in AllowedTransitions(v.sale.status, v.seat.mode)
  PROVE  OfferAt(v, To(status))
PROOF
<1> DEFINE ask == To(status)
<1>1. ask \in OrderAsks /\ ask.does = "status" /\ ask.to = status
  BY AsksAre
<1> HIDE DEF ask
<1>2. ASSUME NEW s \in Sales, NEW shop \in ShownShop,
             RestsOn(ask, v.sale, v.seat) = RestsOn(ask, s, shop)
      PROVE  Accepts(s, shop, ask)
  <2>1. <<v.sale.status, v.seat.mode>> = <<s.status, shop.mode>>
    BY <1>1, <1>2 DEF RestsOn
  <2>2. v.sale.status = s.status /\ v.seat.mode = shop.mode
    BY <2>1
  <2>3. status \in AllowedTransitions(s.status, shop.mode)
    BY <2>2
  <2> QED BY <1>1, <2>3 DEF Accepts
<1> QED BY <1>1, <1>2 DEF OfferAt, ask

LEMMA PaymentsOffered ==
  ASSUME NEW v \in Readings, v.sale.status # "cancelled",
         NEW n \in PaymentAmounts(v.sale)
  PROVE  OfferAt(v, Pay(n))
PROOF
<1> DEFINE ask == Pay(n)
<1>1. n \in -MaxPaid..MaxPaid
  <2>1. v.sale.paid \in 0..MaxPaid /\ Total \in Nat \ {0} /\ MaxPaid \in Nat
        /\ Total <= MaxPaid
    BY DetailAssumption DEF Readings, Sales
  <2>2. RemainingDue(v.sale) \in 0..MaxPaid
    BY <2>1 DEF RemainingDue
  <2> QED BY <2>1, <2>2 DEF PaymentAmounts
<1>2. ask \in OrderAsks /\ ask.does = "pay"
  BY <1>1, AsksAre
<1> HIDE DEF ask
<1>3. ASSUME NEW s \in Sales, NEW shop \in ShownShop,
             RestsOn(ask, v.sale, v.seat) = RestsOn(ask, s, shop)
      PROVE  Accepts(s, shop, ask)
  <2>1. s.status # "cancelled"
    BY <1>2, <1>3 DEF RestsOn
  <2> QED BY <1>2, <2>1 DEF Accepts
<1> QED BY <1>2, <1>3 DEF OfferAt, ask

LEMMA EditsOffered ==
  ASSUME NEW v \in Readings, v.sale.status \in StatusAllowsEdit
  PROVE  OfferAt(v, Plain("edit"))
PROOF
<1> DEFINE ask == Plain("edit")
<1>1. ask \in OrderAsks /\ ask.does = "edit"
  BY AsksAre DEF Kinds
<1> HIDE DEF ask
<1>2. ASSUME NEW s \in Sales, NEW shop \in ShownShop,
             RestsOn(ask, v.sale, v.seat) = RestsOn(ask, s, shop)
      PROVE  Accepts(s, shop, ask)
  <2>1. s.status \in StatusAllowsEdit
    BY <1>1, <1>2 DEF RestsOn
  <2> QED BY <1>1, <2>1 DEF Accepts, StatusAllowsEdit, StatusAllowsCancel
<1> QED BY <1>1, <1>2 DEF OfferAt, ask

LEMMA InvoiceOffered ==
  ASSUME NEW v \in Readings, v.sale.filled, v.seat.invoices
  PROVE  OfferAt(v, Plain("issue"))
PROOF
<1> DEFINE ask == Plain("issue")
<1>1. ask \in OrderAsks /\ ask.does = "issue"
  BY AsksAre DEF Kinds
<1> HIDE DEF ask
<1>2. ASSUME NEW s \in Sales, NEW shop \in ShownShop,
             RestsOn(ask, v.sale, v.seat) = RestsOn(ask, s, shop)
      PROVE  Accepts(s, shop, ask)
  <2>1. <<v.sale.filled, v.seat.invoices>> = <<s.filled, shop.invoices>>
    BY <1>1, <1>2 DEF RestsOn
  <2>2. v.sale.filled = s.filled /\ v.seat.invoices = shop.invoices
    BY <2>1
  <2>3. s.filled /\ shop.invoices
    BY <2>2
  <2> QED BY <1>1, <2>3 DEF Accepts
<1> QED BY <1>1, <1>2 DEF OfferAt, ask

LEMMA AllOffered ==
  ASSUME NEW v \in Readings, NEW ask \in Offered(v)
  PROVE  OfferAt(v, ask)
PROOF
<1>1. v.sale.status \in OrderStatuses /\ v.seat.mode \in Modes
  BY DEF Readings, Sales, ShownShop
<1>2. ASSUME NEW s \in NextStatus(v.sale.status, v.seat.mode)
                       \cup RevertStatus(v.sale.status, v.seat.mode)
      PROVE  OfferAt(v, To(s))
  BY <1>1, NextIs, MovesOffered
<1>3. v.sale.status = "cancelled" => OfferAt(v, To("to_prepare"))
  BY MovesOffered DEF AllowedTransitions, OrderStatuses
<1>4. v.sale.status \in StatusAllowsCancel => OfferAt(v, To("cancelled"))
  BY MovesOffered DEF AllowedTransitions, OrderStatuses, StatusAllowsCancel
<1>5. v.sale.status # "cancelled" =>
        \A n \in PaymentAmounts(v.sale) : OfferAt(v, Pay(n))
  BY PaymentsOffered
<1>6. v.sale.status \in StatusAllowsEdit => OfferAt(v, Plain("edit"))
  BY EditsOffered
<1>7. v.sale.filled => \A a \in IssueAllowed(v) : OfferAt(v, a)
  BY InvoiceOffered DEF IssueAllowed, When, InvoiceSheetAsk
<1> HIDE DEF OfferAt
<1>8. ask \in PrimaryAction(v) => OfferAt(v, ask)
  BY <1>2, <1>3, <1>5, <1>7 DEF PrimaryAction, When
<1>9. ask \in MenuActions(v) => OfferAt(v, ask)
  BY <1>2, <1>4, <1>7 DEF MenuActions, When
<1>10. ask \in HeaderActions(v) \cup CustomerActions(v) => OfferAt(v, ask)
  BY <1>6 DEF HeaderActions, CustomerActions, When
<1>11. ask \in StepperActions(v) => OfferAt(v, ask)
  BY <1>2 DEF StepperActions, When
<1>12. ask \in PaymentActions(v) \cup InvoiceActions(v) => OfferAt(v, ask)
  BY <1>5, <1>7 DEF PaymentActions, InvoiceActions, When
<1> QED BY <1>8, <1>9, <1>10, <1>11, <1>12 DEF Offered

-----------------------------------------------------------------------------
(* A gesture under way was offered by what the page showed when it began.  *)
GestureInv ==
  /\ act.ask.does # "none" => OfferAt(act.seen, act.ask)
  /\ act.sent => act.ask.does # "none"

DetailInv == DetailTypeOK /\ GestureInv

Acts == [ask : OrderAsks, sent : BOOLEAN, paid : 0..MaxPaid, seen : Readings]

LEMMA NoneIs ==
  /\ NoGesture \in Acts /\ NoGesture.ask.does = "none" /\ ~NoGesture.sent
  /\ Unread \in Readings /\ Unread.sale.status = "to_prepare"
PROOF
<1>1. Plain("none") \in OrderAsks /\ Plain("none").does = "none"
  BY AsksAre DEF Kinds
<1>2. /\ 0 \in 0..MaxPaid /\ 0 \in 0..MaxChanges
  BY DetailAssumption
<1>3. Unread \in Readings
  BY <1>2 DEF Unread, Readings, Sales, ShownShop, OrderStatuses, Modes
<1> QED BY <1>1, <1>2, <1>3 DEF NoGesture, Acts, Unread

(* A change of status adds to the history of the order.                    *)
LEMMA PerformIs ==
  ASSUME DetailTypeOK, NEW ask \in OrderAsks, NEW paid \in 0..MaxPaid,
         ask.does # "none", Perform(ask, paid)
  PROVE  /\ sale' \in Sales /\ passed' \in Seq(Changes)
         /\ sale'.changes = Len(passed')
PROOF
<1>1. /\ sale \in Sales /\ passed \in Seq(Changes)
      /\ sale.changes = Len(passed) /\ sale' \in Results(sale, ask, paid)
  BY DEF DetailTypeOK, Changes, Perform
<1>2. CASE ask.does = "status"
  <2>1. /\ Len(passed) < MaxChanges
        /\ passed' = Append(passed, [from |-> sale.status, to |-> ask.to])
    BY <1>2 DEF Perform
  <2>2. [from |-> sale.status, to |-> ask.to] \in Changes
    BY <1>1 DEF Sales, OrderAsks, Changes
  <2>3. passed' \in Seq(Changes) /\ Len(passed') = Len(passed) + 1
    BY <1>1, <2>1, <2>2
  <2> QED BY <1>1, <1>2, <2>1, <2>3, ResultsAre
<1>3. CASE ask.does # "status"
  BY <1>1, <1>3, ResultsAre DEF Perform
<1> QED BY <1>2, <1>3

LEMMA DetailBegin == DetailInit => DetailInv
PROOF
<1> SUFFICES ASSUME DetailInit PROVE DetailInv
  OBVIOUS
<1>1. /\ seat \in ShownShop /\ moved = FALSE /\ act = NoGesture
      /\ passed \in {<<>>, <<[from |-> "to_prepare", to |-> "shipped"]>>}
      /\ sale = [Unread.sale EXCEPT
                   !.status = IF passed = <<>> THEN "to_prepare" ELSE "shipped",
                   !.changes = Len(passed)]
      /\ shows = [Unread EXCEPT !.sale = sale]
      /\ by = [page |-> 0, others |-> 0]
  BY DEF DetailInit, ShownShop
<1>2. passed \in Seq(Changes) /\ Len(passed) \in 0..1
  <2>1. [from |-> "to_prepare", to |-> "shipped"] \in Changes
    BY DEF Changes, OrderStatuses
  <2>2. CASE passed = <<>>
    BY <2>2
  <2>3. CASE passed = <<[from |-> "to_prepare", to |-> "shipped"]>>
    <3> DEFINE first == [from |-> "to_prepare", to |-> "shipped"]
    <3> HIDE DEF first
    <3>1. <<first>> \in Seq(Changes) /\ Len(<<first>>) = 1
      BY <2>1 DEF first
    <3> QED BY <2>3, <3>1 DEF first
  <2> QED BY <1>1, <2>2, <2>3
<1>3. /\ MaxChanges \in Nat \ {0} /\ MaxPaid \in Nat /\ MaxBy \in Nat
  BY DetailAssumption
<1>4. sale \in Sales /\ sale.changes = Len(passed)
  <2>1. sale = Sold(IF passed = <<>> THEN "to_prepare" ELSE "shipped",
                    0, FALSE, TRUE, Len(passed))
    BY <1>1 DEF Unread, Sold
  <2>2. Len(passed) \in 0..MaxChanges /\ 0 \in 0..MaxPaid
    BY <1>2, <1>3
  <2>3. (IF passed = <<>> THEN "to_prepare" ELSE "shipped") \in OrderStatuses
    BY DEF OrderStatuses
  <2>4. sale \in Sales
    BY <2>1, <2>2, <2>3, SoldIs
  <2> QED BY <2>1, <2>4 DEF Sold
<1>5. shows \in Readings
  BY <1>1, <1>4, NoneIs DEF Readings
<1>6. by \in [page : 0..MaxBy, others : 0..MaxBy]
  BY <1>1, <1>3
<1>7. DetailTypeOK
  BY <1>1, <1>2, <1>4, <1>5, <1>6, NoneIs DEF DetailTypeOK, Changes, Acts
<1>8. GestureInv
  BY <1>1, NoneIs DEF GestureInv
<1> QED BY <1>7, <1>8 DEF DetailInv

LEMMA DetailStepKeeps == DetailInv /\ [DetailNext]_detailVars => DetailInv'
PROOF
<1> SUFFICES ASSUME DetailInv, [DetailNext]_detailVars PROVE DetailInv'
  OBVIOUS
<1>0. /\ sale \in Sales /\ seat \in ShownShop /\ moved \in BOOLEAN
      /\ passed \in Seq(Changes) /\ sale.changes = Len(passed)
      /\ shows \in Readings /\ act \in Acts
      /\ by \in [page : 0..MaxBy, others : 0..MaxBy] /\ GestureInv
      /\ MaxBy \in Nat
  BY DetailAssumption DEF DetailInv, DetailTypeOK, Changes, Acts
<1> DEFINE Same == /\ sale' \in Sales /\ seat' \in ShownShop /\ moved' \in BOOLEAN
                   /\ passed' \in Seq(Changes) /\ sale'.changes = Len(passed')
                   /\ shows' \in Readings /\ act' \in Acts
                   /\ by' \in [page : 0..MaxBy, others : 0..MaxBy]
<1>a. Same => DetailTypeOK'
  BY DEF DetailTypeOK, Changes, Acts
<1>b. act' = act => GestureInv'
  BY <1>0 DEF GestureInv
<1>c. act' = NoGesture => GestureInv' /\ act' \in Acts
  BY NoneIs DEF GestureInv
<1>1. CASE UNCHANGED detailVars
  BY <1>0, <1>1, <1>a, <1>b DEF detailVars, DetailInv
<1>2. CASE BeginGesture
  <2>1. PICK ask \in Offered(shows) :
          act' = [ask |-> ask, seen |-> shows, paid |-> 0,
                  sent |-> /\ ask.does = "status" /\ ask.to # "cancelled"
                           /\ shows.sale.status # "cancelled"]
    BY <1>2 DEF BeginGesture
  <2>2. OfferAt(shows, ask)
    BY <1>0, AllOffered
  <2>3. /\ act'.ask = ask /\ act'.seen = shows
        /\ act'.sent => ask.does = "status"
    BY <2>1
  <2>4. act' \in Acts
    <3>1. ask \in OrderAsks /\ 0 \in 0..MaxPaid
      BY <2>2, DetailAssumption DEF OfferAt
    <3>2. (/\ ask.does = "status" /\ ask.to # "cancelled"
           /\ shows.sale.status # "cancelled") \in BOOLEAN
      OBVIOUS
    <3> QED BY <1>0, <2>1, <3>1, <3>2 DEF Acts
  <2>5. GestureInv'
    BY <2>2, <2>3 DEF GestureInv
  <2>6. Same
    BY <1>0, <1>2, <2>4 DEF BeginGesture
  <2> HIDE DEF Same
  <2> QED BY <1>a, <2>5, <2>6 DEF DetailInv
<1>3. CASE SendAsk
  <2> DEFINE paid == shows.sale.paid + act.ask.amount
             now == IF paid < 0 THEN 0 ELSE paid
  <2>1. /\ act.ask.does # "none" /\ paid <= MaxPaid
        /\ act' = [act EXCEPT !.sent = TRUE, !.paid = now]
    BY <1>3 DEF SendAsk
  <2>2. shows.sale.paid \in 0..MaxPaid /\ act.ask.amount \in -MaxPaid..MaxPaid
    BY <1>0 DEF Readings, Sales, Acts, OrderAsks
  <2>3. now \in 0..MaxPaid
    BY <2>1, <2>2, DetailAssumption
  <2> HIDE DEF now
  <2>4. act' = [ask |-> act.ask, sent |-> TRUE, paid |-> now, seen |-> act.seen]
    BY <1>0, <2>1 DEF Acts
  <2>5. act' \in Acts /\ act'.ask = act.ask /\ act'.seen = act.seen
    BY <1>0, <2>3, <2>4 DEF Acts
  <2>6. GestureInv'
    BY <1>0, <2>1, <2>5 DEF GestureInv
  <2>7. Same
    BY <1>0, <1>3, <2>5 DEF SendAsk
  <2> HIDE DEF Same
  <2> QED BY <1>a, <2>6, <2>7 DEF DetailInv
<1>4. CASE LeaveGesture
  <2>1. Same
    BY <1>0, <1>4, <1>c DEF LeaveGesture
  <2> QED BY <1>4, <1>a, <1>c, <2>1 DEF DetailInv, LeaveGesture
<1>5. CASE AskArrives
  <2>1. sale' \in Sales /\ passed' \in Seq(Changes)
        /\ sale'.changes = Len(passed')
    <3>1. /\ act.ask \in OrderAsks /\ act.paid \in 0..MaxPaid
          /\ act.ask.does # "none"
      BY <1>0, <1>5 DEF AskArrives, GestureInv, Acts
    <3>2. CASE Accepts(sale, seat, act.ask)
      BY <1>5, <3>1, <3>2, PerformIs DEF AskArrives, DetailInv
    <3>3. CASE ~Accepts(sale, seat, act.ask)
      BY <1>0, <1>5, <3>3 DEF AskArrives
    <3> QED BY <3>2, <3>3
  <2>2. /\ act' = NoGesture /\ seat' = seat /\ moved' = moved
        /\ shows' = shows /\ by' = by
    BY <1>5 DEF AskArrives
  <2>3. Same
    BY <1>0, <1>c, <2>1, <2>2
  <2> QED BY <1>a, <1>c, <2>2, <2>3 DEF DetailInv
<1>6. CASE Meanwhile
  <2>1. sale' \in Sales /\ passed' \in Seq(Changes)
        /\ sale'.changes = Len(passed')
    <3>1. ASSUME NEW status \in OrderStatuses, Perform(To(status), 0)
          PROVE  sale' \in Sales /\ passed' \in Seq(Changes)
                   /\ sale'.changes = Len(passed')
      BY <3>1, AsksAre, PerformIs, DetailAssumption DEF DetailInv
    <3>2. ASSUME NEW paid \in 0..Total \ {sale.paid}, Perform(Pay(0), paid)
          PROVE  sale' \in Sales /\ passed' \in Seq(Changes)
                   /\ sale'.changes = Len(passed')
      <4>1. 0 \in -MaxPaid..MaxPaid /\ paid \in 0..MaxPaid
        BY DetailAssumption
      <4> QED BY <3>2, <4>1, AsksAre, PerformIs DEF DetailInv
    <3>3. ASSUME NEW kind \in {"issue", "edit"}, Perform(Plain(kind), 0)
          PROVE  sale' \in Sales /\ passed' \in Seq(Changes)
                   /\ sale'.changes = Len(passed')
      <4>1. kind \in Kinds /\ kind # "none" /\ 0 \in 0..MaxPaid
        BY DetailAssumption DEF Kinds
      <4> QED BY <3>3, <4>1, AsksAre, PerformIs DEF DetailInv
    <3> QED BY <1>6, <3>1, <3>2, <3>3 DEF Meanwhile
  <2>2. /\ act' = act /\ seat' = seat /\ moved' = moved /\ shows' = shows
        /\ by' = [by EXCEPT !.others = @ + 1] /\ by.others < MaxBy
    BY <1>6 DEF Meanwhile
  <2>3. by' \in [page : 0..MaxBy, others : 0..MaxBy]
    BY <1>0, <2>2
  <2>4. Same
    BY <1>0, <2>1, <2>2, <2>3
  <2> QED BY <1>a, <1>b, <2>2, <2>4 DEF DetailInv
<1>7. CASE SeatMoves
  <2>1. /\ seat' \in ShownShop /\ moved' \in BOOLEAN
        /\ sale' = sale /\ passed' = passed /\ shows' = shows /\ act' = act
        /\ by' = [by EXCEPT !.others = @ + 1] /\ by.others < MaxBy
    BY <1>7 DEF SeatMoves, ShownShop
  <2>2. by' \in [page : 0..MaxBy, others : 0..MaxBy]
    BY <1>0, <2>1
  <2>3. Same
    BY <1>0, <2>1, <2>2
  <2> QED BY <1>a, <1>b, <2>1, <2>3 DEF DetailInv
<1>8. CASE ReadAgain
  <2>1. shows' \in Readings
    <3>1. [shows EXCEPT !.sale = sale] \in Readings
      BY <1>0 DEF Readings
    <3>2. [shows EXCEPT !.seat.mode = seat.mode] \in Readings
      BY <1>0 DEF Readings, ShownShop
    <3>3. [shows EXCEPT !.seat.invoices = seat.invoices] \in Readings
      BY <1>0 DEF Readings, ShownShop
    <3>4. [shows EXCEPT !.passed = Len(passed)] \in Readings
      <4>1. Len(passed) \in 0..MaxChanges
        BY <1>0 DEF Sales
      <4> QED BY <1>0, <4>1 DEF Readings
    <3> QED BY <1>8, <3>1, <3>2, <3>3, <3>4 DEF ReadAgain
  <2>2. /\ sale' = sale /\ passed' = passed /\ seat' = seat /\ moved' = moved
        /\ act' = act /\ by' = by
    BY <1>8 DEF ReadAgain
  <2>3. Same
    BY <1>0, <2>1, <2>2
  <2> QED BY <1>a, <1>b, <2>2, <2>3 DEF DetailInv
<1> QED BY <1>1, <1>2, <1>3, <1>4, <1>5, <1>6, <1>7, <1>8 DEF DetailNext

(* The variables of the page of an order keep their shape.                 *)
THEOREM DetailTypes == DetailSpec => []DetailTypeOK
PROOF
<1>1. DetailInv => DetailTypeOK
  BY DEF DetailInv
<1> QED BY <1>1, DetailBegin, DetailStepKeeps, PTL DEF DetailSpec

(* What the page of an order offers is refused only if what it rests on    *)
(* has changed since: the table of statuses of the frontend and that of    *)
(* the backend agree, whatever the mode of the shop becomes.               *)
THEOREM OffersFit == DetailSpec => []OfferedFits
PROOF
<1>1. DetailInv => OfferedFits
  BY DEF DetailInv, DetailTypeOK, GestureInv, OfferAt, OfferedFits
<1> QED BY <1>1, DetailBegin, DetailStepKeeps, PTL DEF DetailSpec

-----------------------------------------------------------------------------
(* The life of an order, from the history of its statuses.                 *)
After(h, k) == IF k = 0 THEN "to_prepare" ELSE h[k].to
Now(h) == After(h, Len(h))
TopOf(h) == IF Now(h) # "cancelled" THEN Now(h) ELSE h[Len(h)].from
Visits(h, s) == \E k \in 0..Len(h) : After(h, k) = s
LastIn(h, s, k) ==
  After(h, k) = s /\ \A j \in k + 1..Len(h) : After(h, j) # s

Order(s) ==
  IF s = "to_prepare" THEN 1 ELSE IF s = "prepared" THEN 2
  ELSE IF s = "shipped" THEN 3 ELSE 4

(* A status it went through has a last time; what a cancelled order left   *)
(* is a step that may be cancelled.                                        *)
History(h) ==
  /\ \A s \in OrderStatuses :
       Visits(h, s) => \E k \in 0..Len(h) : LastIn(h, s, k)
  /\ Now(h) = "cancelled" =>
       /\ Len(h) >= 1 /\ TopOf(h) \in {"to_prepare", "prepared"}
       /\ Visits(h, TopOf(h))

(* A step at or under the one it is at (or, cancelled, the one it left).   *)
Passed(h, s) ==
  \/ Order(TopOf(h)) > Order(s)
  \/ Now(h) = "cancelled" /\ TopOf(h) = s

(* In a shop that has kept its mode, it goes through the steps one by one, *)
(* so that it has been in those under it and above them since.             *)
Life(h, mode) ==
  /\ mode = "on_site" => ~Visits(h, "prepared")
  /\ mode = "delivery" /\ Visits(h, "shipped") => Visits(h, "prepared")
  /\ \A s \in OrderStatuses, k \in 0..Len(h) :
       s # "cancelled" /\ LastIn(h, s, k) /\ Passed(h, s) =>
         \A j \in k + 1..Len(h) : Order(After(h, j)) > Order(s)

LEMMA HistoryAppended ==
  ASSUME NEW h \in Seq(Changes), NEW mode \in Modes, History(h),
         NEW t \in OrderStatuses, t \in AllowedTransitions(Now(h), mode)
  PROVE  LET g == Append(h, [from |-> Now(h), to |-> t])
         IN  /\ g \in Seq(Changes) /\ Len(g) = Len(h) + 1 /\ Now(g) = t
             /\ \A k \in 0..Len(h) : After(g, k) = After(h, k)
             /\ g[Len(g)].from = Now(h)
             /\ History(g)
PROOF
<1> DEFINE e == [from |-> Now(h), to |-> t]
           g == Append(h, e)
<1>1. Len(h) \in Nat /\ \A k \in 1..Len(h) : h[k] \in Changes
  OBVIOUS
<1>2. Now(h) \in OrderStatuses
  BY <1>1 DEF Now, After, OrderStatuses, Changes
<1>3. e \in Changes /\ e.from = Now(h) /\ e.to = t
  BY <1>2 DEF Changes
<1> HIDE DEF e
<1>4. /\ g \in Seq(Changes) /\ Len(g) = Len(h) + 1
      /\ \A k \in 1..Len(h) : g[k] = h[k]
      /\ g[Len(h) + 1] = e
  BY <1>3
<1> HIDE DEF g
<1>5. \A k \in 0..Len(h) : After(g, k) = After(h, k)
  BY <1>1, <1>4 DEF After
<1>6. /\ After(g, Len(h) + 1) = t /\ Now(g) = t
      /\ g[Len(g)].from = Now(h)
  BY <1>1, <1>3, <1>4 DEF After, Now
<1>7. \A s : Visits(g, s) <=> Visits(h, s) \/ s = t
  <2>1. \A k \in 0..Len(g) : k \in 0..Len(h) \/ k = Len(h) + 1
    BY <1>1, <1>4
  <2>2. Len(h) + 1 \in 0..Len(g) /\ \A k \in 0..Len(h) : k \in 0..Len(g)
    BY <1>1, <1>4
  <2> QED BY <1>5, <1>6, <2>1, <2>2 DEF Visits
<1>8. ASSUME NEW s \in OrderStatuses, Visits(g, s)
      PROVE  \E k \in 0..Len(g) : LastIn(g, s, k)
  <2>1. CASE s = t
    <3>1. LastIn(g, s, Len(g))
      BY <1>4, <1>6, <2>1 DEF LastIn
    <3> QED BY <1>4, <3>1
  <2>2. CASE s # t
    <3>1. PICK k \in 0..Len(h) : LastIn(h, s, k)
      BY <1>7, <1>8, <2>2 DEF History
    <3>2. After(g, k) = s
      BY <1>5, <3>1 DEF LastIn
    <3>3. ASSUME NEW j \in k + 1..Len(g) PROVE After(g, j) # s
      <4>1. CASE j = Len(h) + 1
        BY <1>6, <2>2, <4>1
      <4>2. CASE j # Len(h) + 1
        <5>1. j \in k + 1..Len(h) /\ j \in 0..Len(h)
          BY <1>1, <1>4, <4>2
        <5> QED BY <1>5, <3>1, <5>1 DEF LastIn
      <4> QED BY <4>1, <4>2
    <3>4. k \in 0..Len(g) /\ LastIn(g, s, k)
      BY <1>1, <1>4, <3>2, <3>3 DEF LastIn
    <3> QED BY <3>4
  <2> QED BY <2>1, <2>2
<1>9. ASSUME Now(g) = "cancelled"
      PROVE  /\ Len(g) >= 1 /\ TopOf(g) \in {"to_prepare", "prepared"}
             /\ Visits(g, TopOf(g))
  <2>1. TopOf(g) = Now(h) /\ t = "cancelled"
    BY <1>6, <1>9 DEF TopOf
  <2>2. Now(h) \in {"to_prepare", "prepared"}
    BY <1>2, <2>1 DEF AllowedTransitions, OrderStatuses, Modes
  <2>3. Visits(h, Now(h))
    BY <1>1 DEF Visits, Now
  <2> QED BY <1>1, <1>4, <1>7, <2>1, <2>2, <2>3
<1>10. History(g)
  BY <1>8, <1>9 DEF History
<1> QED BY <1>4, <1>5, <1>6, <1>10 DEF g, e

LEMMA LifeAppended ==
  ASSUME NEW h \in Seq(Changes), NEW mode \in Modes, History(h),
         Life(h, mode),
         NEW t \in OrderStatuses, t \in AllowedTransitions(Now(h), mode)
  PROVE  Life(Append(h, [from |-> Now(h), to |-> t]), mode)
PROOF
<1> DEFINE g == Append(h, [from |-> Now(h), to |-> t])
           c == Now(h)
<1>1. /\ g \in Seq(Changes) /\ Len(g) = Len(h) + 1 /\ Now(g) = t
      /\ \A k \in 0..Len(h) : After(g, k) = After(h, k)
      /\ g[Len(g)].from = c
  BY HistoryAppended
<1>2. Len(h) \in Nat /\ After(g, Len(h) + 1) = t /\ After(h, Len(h)) = c
  BY <1>1 DEF Now
<1>3. TopOf(g) = IF t # "cancelled" THEN t ELSE c
  BY <1>1 DEF TopOf
<1>4. c \in OrderStatuses
  <2>1. Len(h) # 0 => h[Len(h)] \in Changes
    BY <1>2
  <2> QED BY <1>2, <2>1 DEF After, OrderStatuses, Changes
<1> HIDE DEF g, c
<1>5. \A s : Visits(g, s) <=> Visits(h, s) \/ s = t
  <2>1. \A k \in 0..Len(g) : k \in 0..Len(h) \/ k = Len(h) + 1
    BY <1>1, <1>2
  <2>2. Len(h) + 1 \in 0..Len(g) /\ \A k \in 0..Len(h) : k \in 0..Len(g)
    BY <1>1, <1>2
  <2> QED BY <1>1, <1>2, <2>1, <2>2 DEF Visits
<1>6. Visits(h, c)
  BY <1>2 DEF Visits
<1>7. t \in AllowedTransitions(c, mode)
  BY DEF c
<1>8. mode = "on_site" => c # "prepared" /\ t # "prepared"
  BY <1>4, <1>6, <1>7 DEF Life, AllowedTransitions, OrderStatuses
<1>9. mode = "delivery" /\ t = "shipped" => c = "prepared"
  BY <1>4, <1>7 DEF AllowedTransitions, OrderStatuses
<1>10. ASSUME NEW s \in OrderStatuses, NEW k \in 0..Len(g), s # "cancelled",
              LastIn(g, s, k), Passed(g, s), NEW j \in k + 1..Len(g)
       PROVE  Order(After(g, j)) > Order(s)
  <2>1. k \in 0..Len(h) /\ t # s
    BY <1>1, <1>2, <1>10 DEF LastIn
  <2>2. LastIn(h, s, k)
    <3>1. \A i \in k + 1..Len(h) : i \in 0..Len(h) /\ i \in k + 1..Len(g)
      BY <1>1, <1>2, <2>1
    <3> QED BY <1>1, <1>10, <2>1, <3>1 DEF LastIn
  <2>3. /\ Order(t) > Order(s)
        /\ t # "cancelled" => Order(t) > Order(s)
        /\ t = "cancelled" => Order(c) > Order(s) \/ c = s
    BY <1>1, <1>3, <1>10 DEF Passed, Order, OrderStatuses
  <2>4. CASE j = Len(h) + 1
    BY <1>2, <2>3, <2>4
  <2>5. CASE j # Len(h) + 1
    <3>1. j \in k + 1..Len(h) /\ j \in 0..Len(h)
      BY <1>1, <1>2, <2>1, <2>5
    <3>2. c # s
      BY <1>2, <2>1, <2>2, <3>1 DEF LastIn
    <3>3. s = "prepared" => mode # "on_site"
      <4>1. Visits(h, s)
        BY <2>1, <2>2 DEF Visits, LastIn
      <4> QED BY <4>1 DEF Life
    <3>4. c # "cancelled"
      BY <1>4, <1>7, <2>3 DEF AllowedTransitions, Order, OrderStatuses
    <3>5. Order(c) > Order(s)
      BY <1>4, <1>7, <2>1, <2>3, <3>2, <3>3, <3>4
         DEF AllowedTransitions, Order, OrderStatuses, Modes
    <3>6. Passed(h, s)
      BY <3>4, <3>5 DEF Passed, TopOf, c
    <3>7. Order(After(h, j)) > Order(s)
      BY <1>10, <2>1, <2>2, <3>1, <3>6 DEF Life
    <3> QED BY <1>1, <3>1, <3>7
  <2> QED BY <2>4, <2>5
<1>11. Life(g, mode)
  BY <1>5, <1>6, <1>8, <1>9, <1>10 DEF Life
<1> QED BY <1>11 DEF g

(* The history of the order is one of those lives: its steps are those the *)
(* shop allows, in the mode it has kept.                                   *)
PassedInv ==
  /\ passed # <<>> => passed[1].from = "to_prepare"
  /\ sale.status = Now(passed)
  /\ History(passed)
  /\ ~moved => Life(passed, seat.mode)

LivedInv == DetailInv /\ PassedInv

LEMMA PassedAppended ==
  ASSUME DetailTypeOK, PassedInv, NEW ask \in OrderAsks,
         NEW paid \in 0..MaxPaid, ask.does # "none",
         Accepts(sale, seat, ask), Perform(ask, paid), seat' = seat,
         moved' = moved
  PROVE  PassedInv'
PROOF
<1>1. /\ sale \in Sales /\ passed \in Seq(Changes)
      /\ sale.changes = Len(passed) /\ sale' \in Results(sale, ask, paid)
      /\ seat.mode \in Modes /\ ask.to \in OrderStatuses
      /\ ask.does \in Kinds
  BY DEF DetailTypeOK, Changes, Perform, ShownShop, OrderAsks
<1>2. CASE ask.does = "status"
  <2> DEFINE t == ask.to
  <2>1. /\ passed' = Append(passed, [from |-> Now(passed), to |-> t])
        /\ t \in AllowedTransitions(Now(passed), seat.mode)
        /\ Len(passed) < MaxChanges
    BY <1>2 DEF Perform, Accepts, PassedInv
  <2>2. sale'.status = t
    BY <1>1, <1>2, <2>1, ResultsAre
  <2> HIDE DEF t
  <2>3. /\ Now(passed') = t /\ History(passed')
        /\ passed' \in Seq(Changes) /\ Len(passed') = Len(passed) + 1
    BY <1>1, <2>1, HistoryAppended DEF PassedInv, t
  <2>4. ~moved => Life(passed', seat.mode)
    BY <1>1, <2>1, LifeAppended DEF PassedInv, t
  <2>5. passed'[1].from = "to_prepare"
    <3>1. CASE passed = <<>>
      <4>1. Now(passed) = "to_prepare" /\ Len(passed) = 0
        BY <3>1 DEF Now, After
      <4>2. passed'[1] = [from |-> Now(passed), to |-> t]
        BY <1>1, <2>1, <4>1
      <4> QED BY <4>1, <4>2
    <3>2. CASE passed # <<>>
      <4>1. passed'[1] = passed[1]
        BY <1>1, <2>1, <3>2
      <4> QED BY <3>2, <4>1 DEF PassedInv
    <3> QED BY <3>1, <3>2
  <2> QED BY <2>2, <2>3, <2>4, <2>5 DEF PassedInv
<1>3. CASE ask.does # "status"
  <2>1. passed' = passed /\ sale'.status = sale.status
    BY <1>1, <1>3, ResultsAre DEF Perform
  <2> QED BY <2>1 DEF PassedInv
<1> QED BY <1>2, <1>3

LEMMA LivedBegin == DetailInit => LivedInv
PROOF
<1> SUFFICES ASSUME DetailInit PROVE PassedInv
  BY DetailBegin DEF LivedInv
<1> DEFINE handed == <<[from |-> "to_prepare", to |-> "shipped"]>>
<1>1. /\ seat.mode \in Modes /\ passed \in {<<>>, handed}
      /\ sale.status = IF passed = <<>> THEN "to_prepare" ELSE "shipped"
      /\ sale.status \in StatusSwitch(seat.mode)
  <2>1. DetailInv
    BY DetailBegin
  <2>2. /\ sale = [Unread.sale EXCEPT
                     !.status = IF passed = <<>> THEN "to_prepare"
                                ELSE "shipped",
                     !.changes = Len(passed)]
        /\ sale.status \in StatusSwitch(seat.mode)
        /\ passed \in {<<>>, handed}
    BY DEF DetailInit
  <2>3. sale.status = IF passed = <<>> THEN "to_prepare" ELSE "shipped"
    BY <2>2 DEF Unread
  <2> QED BY <2>1, <2>2, <2>3 DEF DetailInv, DetailTypeOK, ShownShop
<1>2. CASE passed = <<>>
  <2>1. /\ Len(passed) = 0 /\ \A k \in 0..Len(passed) : k = 0
        /\ After(passed, 0) = "to_prepare"
    BY <1>2 DEF After
  <2>2. Now(passed) = "to_prepare" /\ TopOf(passed) = "to_prepare"
    BY <2>1 DEF Now, TopOf
  <2>3. History(passed)
    BY <2>1, <2>2 DEF History, Visits, LastIn
  <2>4. Life(passed, seat.mode)
    BY <2>1, <2>2 DEF Life, Visits, Passed, Order, LastIn
  <2> QED BY <1>1, <1>2, <2>2, <2>3, <2>4 DEF PassedInv
<1>3. CASE passed = handed
  <2>1. /\ Len(passed) = 1 /\ \A k \in 0..Len(passed) : k = 0 \/ k = 1
        /\ 0 \in 0..Len(passed) /\ 1 \in 0..Len(passed)
        /\ After(passed, 0) = "to_prepare" /\ After(passed, 1) = "shipped"
        /\ passed[1].from = "to_prepare" /\ passed # <<>>
    BY <1>3 DEF After
  <2>2. Now(passed) = "shipped" /\ TopOf(passed) = "shipped"
    BY <2>1 DEF Now, TopOf
  <2>3. History(passed)
    BY <2>1, <2>2 DEF History, Visits, LastIn
  <2>4. seat.mode # "delivery"
    BY <1>1, <2>1 DEF StatusSwitch, When
  <2>5. Life(passed, seat.mode)
    <3>1. ~Visits(passed, "prepared")
      BY <2>1 DEF Visits
    <3>2. ASSUME NEW s \in OrderStatuses, NEW k \in 0..Len(passed),
                 s # "cancelled", LastIn(passed, s, k), Passed(passed, s),
                 NEW j \in k + 1..Len(passed)
          PROVE  Order(After(passed, j)) > Order(s)
      <4>1. s = "to_prepare" \/ s = "shipped"
        BY <2>1, <3>2 DEF LastIn
      <4>2. k = 0 /\ j = 1
        BY <2>1
      <4>3. s = "to_prepare"
        BY <2>1, <3>2, <4>2 DEF LastIn
      <4> QED BY <2>1, <4>2, <4>3 DEF Order
    <3> QED BY <2>4, <3>1, <3>2 DEF Life
  <2> QED BY <1>1, <2>1, <2>2, <2>3, <2>5 DEF PassedInv
<1> QED BY <1>1, <1>2, <1>3

LEMMA LivedStepKeeps == LivedInv /\ [DetailNext]_detailVars => LivedInv'
PROOF
<1> SUFFICES ASSUME LivedInv, [DetailNext]_detailVars PROVE PassedInv'
  BY DetailStepKeeps DEF LivedInv
<1>0. DetailTypeOK /\ PassedInv /\ GestureInv
  BY DEF LivedInv, DetailInv
<1>1. CASE /\ sale' = sale /\ passed' = passed /\ seat' = seat
           /\ moved' = moved
  BY <1>0, <1>1 DEF PassedInv
<1>2. CASE AskArrives
  <2>1. CASE Accepts(sale, seat, act.ask)
    <3>1. /\ act.ask \in OrderAsks /\ act.paid \in 0..MaxPaid
          /\ act.ask.does # "none"
      BY <1>0, <1>2 DEF AskArrives, GestureInv, DetailTypeOK
    <3>2. Perform(act.ask, act.paid) /\ seat' = seat /\ moved' = moved
      BY <1>2, <2>1 DEF AskArrives
    <3> QED BY <1>0, <2>1, <3>1, <3>2, PassedAppended
  <2>2. CASE ~Accepts(sale, seat, act.ask)
    BY <1>1, <1>2, <2>2 DEF AskArrives
  <2> QED BY <2>1, <2>2
<1>3. CASE Meanwhile
  <2>1. seat' = seat /\ moved' = moved
    BY <1>3 DEF Meanwhile
  <2>2. ASSUME NEW status \in OrderStatuses,
               Accepts(sale, seat, To(status)), Perform(To(status), 0)
        PROVE  PassedInv'
    <3>1. 0 \in 0..MaxPaid
      BY DetailAssumption
    <3>2. To(status) \in OrderAsks /\ To(status).does # "none"
      BY AsksAre
    <3> QED BY <1>0, <2>1, <2>2, <3>1, <3>2, PassedAppended
  <2>3. ASSUME NEW paid \in 0..Total \ {sale.paid},
               Accepts(sale, seat, Pay(0)), Perform(Pay(0), paid)
        PROVE  PassedInv'
    <3>1. 0 \in -MaxPaid..MaxPaid /\ paid \in 0..MaxPaid
      BY DetailAssumption
    <3>2. Pay(0) \in OrderAsks /\ Pay(0).does # "none"
      BY <3>1, AsksAre
    <3> QED BY <1>0, <2>1, <2>3, <3>1, <3>2, PassedAppended
  <2>4. ASSUME NEW kind \in {"issue", "edit"},
               Accepts(sale, seat, Plain(kind)), Perform(Plain(kind), 0)
        PROVE  PassedInv'
    <3>1. kind \in Kinds /\ kind # "none" /\ 0 \in 0..MaxPaid
      BY DetailAssumption DEF Kinds
    <3>2. Plain(kind) \in OrderAsks /\ Plain(kind).does # "none"
      BY <3>1, AsksAre
    <3> QED BY <1>0, <2>1, <2>4, <3>1, <3>2, PassedAppended
  <2> QED BY <1>3, <2>2, <2>3, <2>4 DEF Meanwhile
<1>4. CASE SeatMoves
  <2>1. /\ sale' = sale /\ passed' = passed
        /\ moved' = (moved \/ seat'.mode # seat.mode)
    BY <1>4 DEF SeatMoves
  <2> QED BY <1>0, <2>1 DEF PassedInv
<1> QED BY <1>1, <1>2, <1>3, <1>4
        DEF DetailNext, detailVars, BeginGesture, SendAsk, LeaveGesture,
            ReadAgain

-----------------------------------------------------------------------------
(* What is drawn of such a life.                                           *)
LEMMA Ranks ==
  /\ Rank("to_prepare") = 1 /\ Rank("prepared") = 2
  /\ Rank("shipped") = 3 /\ Rank("cancelled") = 4
PROOF
<1> DEFINE all == <<"to_prepare", "prepared", "shipped", "cancelled">>
<1>1. /\ all[1] = "to_prepare" /\ all[2] = "prepared"
      /\ all[3] = "shipped" /\ all[4] = "cancelled"
      /\ \A n \in 1..4 : n = 1 \/ n = 2 \/ n = 3 \/ n = 4
  OBVIOUS
<1> HIDE DEF all
<1>2. \A status : Rank(status) = CHOOSE n \in 1..4 : all[n] = status
  BY DEF Rank, all
<1>3. ASSUME NEW n \in 1..4 PROVE Rank(all[n]) = n
  <2>1. \A m \in 1..4 : all[m] = all[n] => m = n
    BY <1>1
  <2>2. (CHOOSE m \in 1..4 : all[m] = all[n]) = n
    BY <2>1
  <2> QED BY <1>2, <2>2
<1> QED BY <1>1, <1>3

LEMMA OrderIsRank == \A s \in OrderStatuses : Rank(s) = Order(s)
BY Ranks DEF Order, OrderStatuses

LEMMA FlowIs ==
  ASSUME NEW mode \in Modes, NEW status
  PROVE  LET flow == FlowStatuses(mode, status)
         IN  /\ flow \in Seq(OrderStatuses) /\ Len(flow) \in 2..3
             /\ flow[1] = "to_prepare" /\ flow[Len(flow)] = "shipped"
             /\ Len(flow) = 3 <=> mode = "delivery" \/ status = "prepared"
             /\ Len(flow) = 3 => flow[2] = "prepared"
PROOF
<1>1. CASE mode = "delivery" \/ status = "prepared"
  <2>1. FlowStatuses(mode, status) = <<"to_prepare", "prepared", "shipped">>
    BY <1>1 DEF FlowStatuses
  <2>2. /\ <<"to_prepare", "prepared", "shipped">> \in Seq(OrderStatuses)
        /\ Len(<<"to_prepare", "prepared", "shipped">>) = 3
    BY DEF OrderStatuses
  <2> QED BY <1>1, <2>1, <2>2
<1>2. CASE ~(mode = "delivery" \/ status = "prepared")
  <2>1. FlowStatuses(mode, status) = <<"to_prepare", "shipped">>
    BY <1>2 DEF FlowStatuses
  <2>2. /\ <<"to_prepare", "shipped">> \in Seq(OrderStatuses)
        /\ Len(<<"to_prepare", "shipped">>) = 2
    BY DEF OrderStatuses
  <2> QED BY <1>2, <2>1, <2>2
<1> QED BY <1>1, <1>2

(* A step done has a time, and it is the last the order was there.         *)
LEMMA StepDone ==
  ASSUME NEW h \in Seq(Changes), NEW mode \in Modes, History(h),
         Life(h, mode), NEW s \in OrderStatuses, s # "cancelled",
         s = "prepared" => mode = "delivery",
         Passed(h, s) \/ (s = "shipped" /\ Now(h) = "shipped")
  PROVE  \E k \in 0..Len(h) :
           /\ LastIn(h, s, k)
           /\ \A j \in k + 1..Len(h) : Order(After(h, j)) > Order(s)
PROOF
<1>1. Len(h) \in Nat /\ After(h, 0) = "to_prepare"
  BY DEF After
<1>2. CASE Passed(h, s)
  <2>1. Visits(h, s)
    <3>1. CASE s = "to_prepare"
      BY <1>1, <3>1 DEF Visits
    <3>2. CASE s = TopOf(h) /\ Now(h) = "cancelled"
      BY <3>2 DEF History
    <3>3. CASE s = "shipped" /\ s # TopOf(h)
      <4>1. Order(TopOf(h)) > 3
        BY <1>2, <3>3 DEF Passed, Order
      <4>2. TopOf(h) = Now(h) \/ TopOf(h) \in {"to_prepare", "prepared"}
        BY DEF TopOf, History
      <4>3. Now(h) # "cancelled" => TopOf(h) # "cancelled"
        BY DEF TopOf
      <4>4. Now(h) \in OrderStatuses
        <5>1. Len(h) # 0 => h[Len(h)] \in Changes
          BY <1>1
        <5> QED BY <1>1, <5>1 DEF Now, After, OrderStatuses, Changes
      <4> QED BY <4>1, <4>2, <4>3, <4>4 DEF Order, OrderStatuses, History
    <3>4. CASE s = "prepared" /\ ~(s = TopOf(h) /\ Now(h) = "cancelled")
      <4>1. Order(TopOf(h)) > 2
        BY <1>2, <3>4 DEF Passed, Order
      <4>2. Now(h) = "cancelled" => TopOf(h) \in {"to_prepare", "prepared"}
        BY DEF History
      <4>3. Now(h) # "cancelled" /\ TopOf(h) = Now(h)
        BY <4>1, <4>2 DEF Order, TopOf
      <4>4. Now(h) \in OrderStatuses
        <5>1. Len(h) # 0 => h[Len(h)] \in Changes
          BY <1>1
        <5> QED BY <1>1, <5>1 DEF Now, After, OrderStatuses, Changes
      <4>5. Now(h) = "shipped"
        BY <4>1, <4>3, <4>4 DEF Order, OrderStatuses
      <4>6. Visits(h, "shipped")
        BY <1>1, <4>5 DEF Visits, Now
      <4> QED BY <3>4, <4>6 DEF Life
    <3> QED BY <3>1, <3>2, <3>3, <3>4, <1>2
        DEF OrderStatuses, Passed, Order
  <2>2. PICK k \in 0..Len(h) : LastIn(h, s, k)
    BY <2>1 DEF History
  <2> QED BY <1>2, <2>2 DEF Life
<1>3. CASE s = "shipped" /\ Now(h) = "shipped"
  <2>1. LastIn(h, s, Len(h)) /\ \A j \in Len(h) + 1..Len(h) : FALSE
    BY <1>1, <1>3 DEF LastIn, Now
  <2> QED BY <1>1, <2>1
<1> QED BY <1>2, <1>3

LEMMA AllOfIt ==
  ASSUME NEW h \in Seq(Changes)
  PROVE  /\ SubSeq(h, 1, Len(h)) = h
         /\ \A s : LastTimeTo(h, s) = {i \in 1..Len(h) : LastIn(h, s, i)}
PROOF
<1>1. Len(h) \in Nat /\ DOMAIN h = 1..Len(h)
  OBVIOUS
<1>2. SubSeq(h, 1, Len(h)) = h
  <2> DEFINE t == SubSeq(h, 1, Len(h))
  <2>1. t \in Seq(Changes) /\ Len(t) = Len(h) /\ \A i \in 1..Len(h) : t[i] = h[i]
    BY <1>1
  <2> HIDE DEF t
  <2>2. t = h
    BY <2>1, SeqEqual
  <2> QED BY <2>2 DEF t
<1>3. ASSUME NEW s, NEW i \in 1..Len(h)
      PROVE  LastIn(h, s, i) <=>
               h[i].to = s /\ \A j \in DOMAIN h : j > i => h[j].to # s
  <2>1. \A j \in 1..Len(h) : j > i <=> j \in i + 1..Len(h)
    BY <1>1
  <2>2. \A j \in i + 1..Len(h) : j \in 1..Len(h)
    BY <1>1
  <2>3. \A j \in 1..Len(h) : After(h, j) = h[j].to
    BY DEF After
  <2> QED BY <1>1, <2>1, <2>2, <2>3 DEF LastIn
<1> QED BY <1>1, <1>2, <1>3 DEF LastTimeTo

LEMMA LivedIsDrawn ==
  ASSUME LivedInv, ~moved,
         shows = [sale |-> sale, seat |-> seat, passed |-> Len(passed)],
         NEW step \in OrderSteps(shows)
  PROVE  \E k \in step.at :
           /\ StatusAfter(k) = step.step
           /\ \A j \in k + 1..Len(passed) :
                Rank(StatusAfter(j)) > Rank(step.step)
PROOF
<1> DEFINE n == Len(passed)
           mode == seat.mode
           top == TopOf(passed)
           flow == FlowStatuses(shows.seat.mode, Reached(shows))
<1>1. /\ passed \in Seq(Changes) /\ n \in Nat /\ mode \in Modes
      /\ History(passed) /\ Life(passed, mode) /\ sale.status = Now(passed)
      /\ sale.status \in OrderStatuses
      /\ passed # <<>> => passed[1].from = "to_prepare"
  BY DEF LivedInv, DetailInv, DetailTypeOK, PassedInv, Changes, ShownShop, Sales
<1>2. /\ shows.sale.status = sale.status /\ shows.seat.mode = mode
      /\ SubSeq(passed, 1, shows.passed) = passed
  BY <1>1, AllOfIt
<1>3. passed = <<>> => sale.status = "to_prepare"
  BY <1>1 DEF Now, After
<1>4. (IF passed = <<>> THEN shows.sale.status ELSE passed[1].from)
        = "to_prepare"
  BY <1>1, <1>2, <1>3
<1>5. \A s : LastTimeTo(passed, s) = {i \in 1..n : LastIn(passed, s, i)}
  BY <1>1, AllOfIt
<1>6. Reached(shows) = top
  <2>1. CASE sale.status # "cancelled"
    BY <1>1, <1>2, <2>1 DEF Reached, TopOf
  <2>2. CASE sale.status = "cancelled"
    <3>1. n >= 1 /\ top = passed[n].from
      BY <1>1, <2>2 DEF History, TopOf
    <3>2. After(passed, n) = "cancelled"
      BY <1>1, <2>2 DEF Now
    <3>3. \A i \in 1..n : LastIn(passed, "cancelled", i) <=> i = n
      BY <1>1, <3>1, <3>2 DEF LastIn
    <3>4. LastTimeTo(passed, "cancelled") = {n}
      BY <1>1, <1>5, <3>1, <3>3
    <3> DEFINE all == SubSeq(passed, 1, shows.passed)
               left == {all[i].from : i \in LastTimeTo(all, "cancelled")}
    <3>5. left = {top}
      <4>1. all = passed
        BY <1>2
      <4> HIDE DEF all
      <4>2. LastTimeTo(all, "cancelled") = {n} /\ all[n].from = top
        BY <3>1, <3>4, <4>1
      <4> QED BY <4>2
    <3> HIDE DEF left
    <3>6. left # {} /\ (CHOOSE status \in left : TRUE) = top
      BY <3>5
    <3> QED BY <1>2, <2>2, <3>6 DEF Reached, left
  <2> QED BY <2>1, <2>2
<1>7. top \in {"to_prepare", "prepared", "shipped"}
      /\ (sale.status = "cancelled" => top # "shipped")
  BY <1>1 DEF TopOf, History, OrderStatuses
<1>8. top = "prepared" => mode = "delivery"
  <2>1. Visits(passed, top)
    <3>1. CASE Now(passed) = "cancelled"
      BY <1>1, <3>1 DEF History
    <3>2. CASE Now(passed) # "cancelled"
      BY <1>1, <3>2 DEF TopOf, Visits, Now
    <3> QED BY <3>1, <3>2
  <2> QED BY <1>1, <2>1 DEF Life, Modes
<1> HIDE DEF n, mode, top
<1>9. /\ flow \in Seq(OrderStatuses) /\ Len(flow) \in 2..3
      /\ DOMAIN flow = 1..Len(flow)
      /\ flow[1] = "to_prepare" /\ flow[Len(flow)] = "shipped"
      /\ Len(flow) = 3 <=> mode = "delivery"
      /\ Len(flow) = 3 => flow[2] = "prepared"
  <2>1. flow = FlowStatuses(mode, top)
    BY <1>2, <1>6 DEF mode
  <2> HIDE DEF flow
  <2> QED BY <1>1, <1>8, <2>1, FlowIs
<1> DEFINE here == {i \in DOMAIN flow : flow[i] = Reached(shows)}
<1> HIDE DEF flow
<1>10. \E k \in 1..Len(flow) : here = {k} /\ flow[k] = top
  <2>1. \A i \in 1..Len(flow) : i = 1 \/ i = 2 \/ i = 3
    BY <1>9
  <2>2. CASE top = "to_prepare"
    <3>1. here = {1}
      BY <1>6, <1>9, <2>1, <2>2
    <3> QED BY <1>9, <2>2, <3>1
  <2>3. CASE top = "prepared"
    <3>1. here = {2} /\ 2 \in 1..Len(flow)
      BY <1>6, <1>8, <1>9, <2>1, <2>3
    <3> QED BY <1>8, <1>9, <2>3, <3>1
  <2>4. CASE top = "shipped"
    <3>1. here = {Len(flow)}
      BY <1>6, <1>9, <2>1, <2>4
    <3> QED BY <1>9, <2>4, <3>1
  <2> QED BY <1>7, <2>2, <2>3, <2>4
<1>11. PICK m \in 1..Len(flow) : here = {m} /\ flow[m] = top
  BY <1>10
<1>12. PICK i \in 1..Len(flow) :
         /\ step = [step |-> flow[i], at |-> ReachedAt(shows, flow, i)]
         /\ \E k \in IF here = {} THEN {1} ELSE here :
              i < k \/ (i = k /\ (k = Len(flow) \/ sale.status = "cancelled"))
  <2>1. PICK i \in DOMAIN flow :
          /\ step = [step |-> flow[i], at |-> ReachedAt(shows, flow, i)]
          /\ \E k \in IF here = {} THEN {1} ELSE here :
               \/ i < k
               \/ i = k /\ (k = Len(flow) \/ shows.sale.status = "cancelled")
    BY DEF OrderSteps, flow
  <2> QED BY <1>2, <1>9, <2>1
<1>13. i < m \/ (i = m /\ (m = Len(flow) \/ sale.status = "cancelled"))
  <2>1. (IF here = {} THEN {1} ELSE here) = {m}
    BY <1>11
  <2> HIDE DEF here
  <2> QED BY <1>12, <2>1
<1> DEFINE s == flow[i]
<1>14. s \in {"to_prepare", "prepared", "shipped"}
       /\ (s = "prepared" => mode = "delivery")
       /\ (s = "to_prepare" <=> i = 1)
  BY <1>9
<1>15. Passed(passed, s) \/ (s = "shipped" /\ Now(passed) = "shipped")
  <2>1. CASE i < m
    <3>1. Order(flow[m]) > Order(s)
      BY <1>9, <2>1 DEF Order
    <3> QED BY <1>11, <3>1 DEF Passed, top
  <2>2. CASE i = m /\ sale.status = "cancelled"
    BY <1>1, <1>11, <2>2 DEF Passed, top
  <2>3. CASE i = m /\ m = Len(flow) /\ sale.status # "cancelled"
    <3>1. s = "shipped" /\ s = top
      BY <1>9, <1>11, <2>3
    <3> QED BY <1>1, <2>3, <3>1 DEF TopOf, top
  <2> QED BY <1>13, <2>1, <2>2, <2>3
<1> HIDE DEF s
<1>16. PICK k \in 0..n :
         /\ LastIn(passed, s, k)
         /\ \A j \in k + 1..n : Order(After(passed, j)) > Order(s)
  BY <1>1, <1>14, <1>15, StepDone DEF OrderStatuses, n
<1>17. k \in ReachedAt(shows, flow, i)
  <2>1. ReachedAt(shows, flow, i) =
          IF LastTimeTo(passed, s) # {} THEN LastTimeTo(passed, s)
          ELSE IF \E j \in i..Len(flow) : flow[j] = "to_prepare" THEN {0} ELSE {}
    BY <1>2, <1>4 DEF ReachedAt, s
  <2>2. CASE k # 0
    <3>1. k \in LastTimeTo(passed, s)
      BY <1>1, <1>5, <1>16, <2>2
    <3> QED BY <2>1, <3>1
  <2>3. CASE k = 0
    <3>1. s = "to_prepare"
      BY <1>16, <2>3 DEF LastIn, After
    <3>2. LastTimeTo(passed, s) = {}
      <4>1. \A j \in 1..n : After(passed, j) # s /\ ~LastIn(passed, s, j)
        BY <1>1, <1>16, <2>3 DEF LastIn, n
      <4> QED BY <1>5, <4>1
    <3>3. \E j \in i..Len(flow) : flow[j] = "to_prepare"
      BY <1>9, <1>14, <3>1
    <3> QED BY <2>1, <2>3, <3>2, <3>3
  <2> QED BY <2>2, <2>3
<1>18. \A j \in 0..n : StatusAfter(j) = After(passed, j)
                       /\ StatusAfter(j) \in OrderStatuses
  <2>1. ASSUME NEW j \in 1..n PROVE passed[j].to \in OrderStatuses
    <3>1. passed[j] \in Changes
      BY <1>1 DEF n
    <3> QED BY <3>1 DEF Changes
  <2>2. StatusAfter(0) = "to_prepare"
    BY <1>1, <1>3 DEF StatusAfter
  <2> QED BY <1>1, <2>1, <2>2 DEF StatusAfter, After, OrderStatuses
<1>19. StatusAfter(k) = s
  BY <1>16, <1>18 DEF LastIn
<1>20. s \in OrderStatuses
  BY <1>14 DEF OrderStatuses
<1>21. ASSUME NEW j \in k + 1..n PROVE Rank(StatusAfter(j)) > Rank(s)
  <2>1. j \in 0..n
    BY <1>1
  <2>2. /\ Rank(StatusAfter(j)) = Order(After(passed, j))
        /\ Rank(s) = Order(s)
    BY <1>18, <1>20, <2>1, OrderIsRank
  <2> QED BY <1>16, <2>2
<1>22. step.step = s /\ step.at = ReachedAt(shows, flow, i)
  BY <1>12 DEF s
<1> QED BY <1>17, <1>19, <1>21, <1>22 DEF n

(* The steps drawn on the page of an order are its life: each one said     *)
(* done has a time, the order was there then, and only further since.      *)
THEOREM StepsAreAsLived == DetailSpec => []StepsAsLived
PROOF
<1>1. LivedInv => StepsAsLived
  BY LivedIsDrawn DEF StepsAsLived
<1> QED BY <1>1, LivedBegin, LivedStepKeeps, PTL DEF DetailSpec
=============================================================================
