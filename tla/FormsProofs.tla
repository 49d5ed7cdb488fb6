----------------------------- MODULE FormsProofs -----------------------------
(***************************************************************************)
(* Proofs about what is typed in a browser: the invoice editors of         *)
(* DraftEditor, the pages of SettingsForm and ProfileAutosave that keep    *)
(* what is typed while it is saved, and the forms of Submission that send  *)
(* once, for any rows and any bounds.                                      *)
(***************************************************************************)
EXTENDS DraftEditor, SettingsForm, ProfileAutosave, ZakatAutosave, Submission,
        SequenceTheorems, TLAPS


-----------------------------------------------------------------------------
(* DraftEditor.                                                            *)


Revision == [content : Forms, by : Editors]
Draft == [status : {"none", "draft", "issued", "deleted"},
          stored : Seq(Revision)]
Answered == [id : 0..Docs, version : Nat]
Editor ==
  [place : {"closed", "open", "left", "done"}, id : 0..Docs, version : Nat,
   form : Forms, dirty : BOOLEAN, status : Statuses, timer : BOOLEAN,
   chain : Seq(Tags), call : Calls, carried : Forms, answer : Answered,
   step : Steps]

(* Editor e, which has shown `seen`, has shown version v of a draft whose  *)
(* versions are `stored`.                                                  *)
HasShown(seen, stored, v) ==
  v \in 1..Len(stored) /\ stored[v].content \in seen

(* What an editor that has shown `seen` keeps of it: the version it saves  *)
(* over, what a save carries and the version it was answered.              *)
Showing(drafts, seen, r) ==
  /\ IF r.place \in {"closed", "done"}
       THEN r.chain = <<>> /\ ~r.timer /\ r.step = "none"
       ELSE r.form \in seen
  /\ r.call # "none" => r.chain # <<>> /\ r.carried \in seen
  /\ r.id # 0 => HasShown(seen, drafts[r.id].stored, r.version)
  /\ r.call = "ok" =>
       /\ r.answer.id # 0
       /\ HasShown(seen, drafts[r.answer.id].stored, r.answer.version)
  /\ r.status = "conflict" => r.id # 0

EveryoneShowing == \A e \in Editors : Showing(doc, screens[e], ed[e])

EditorInv ==
  /\ EveryoneShowing
  /\ \A d \in DocIds : doc[d].status = "none" <=> doc[d].stored = <<>>
  /\ NoSilentOverwrite

LEMMA EditorTypes ==
  EditorTypeOK <=>
    /\ doc \in [DocIds -> Draft] /\ ed \in [Editors -> Editor]
    /\ keys \in Forms /\ screens \in [Editors -> SUBSET Forms]
    /\ created \in [Editors -> Nat] /\ unheard \in BOOLEAN
BY DEF EditorTypeOK, Draft, Revision, Editor, Answered

(* Whatever ends the save at the head of the chain, the rest is as it was. *)
LEMMA Finished ==
  ASSUME NEW r \in Editor, r.chain # <<>>, NEW saved \in BOOLEAN
  PROVE  LET n == Finish(r, saved) IN
         /\ n \in Editor /\ n.call = "none" /\ n.place = r.place
         /\ n.id = r.id /\ n.version = r.version /\ n.form = r.form
         /\ n.status = r.status /\ n.timer = r.timer
<1>1. Tail(r.chain) \in Seq(Tags)
  BY DEF Editor
<1>2. NoAnswer \in Answered /\ 0 \in Forms
  BY DraftEditorAssumption DEF NoAnswer, Answered, Forms
<1>3. QED
  BY <1>1, <1>2 DEF Finish, Editor, Calls, Steps

LEMMA FlushedTyped ==
  ASSUME NEW r \in Editor, NEW tag \in Tags
  PROVE  LET n == Flushed(r, tag) IN
         /\ n \in Editor /\ n.chain # <<>> /\ ~n.timer
         /\ n.place = r.place /\ n.id = r.id /\ n.version = r.version
         /\ n.form = r.form /\ n.status = r.status /\ n.call = r.call
         /\ n.carried = r.carried /\ n.answer = r.answer
<1>1. Append(r.chain, tag) \in Seq(Tags) /\ Append(r.chain, tag) # <<>>
  BY DEF Editor
<1>2. QED
  BY <1>1 DEF Flushed, Editor, Steps

LEMMA ClosedTyped == Closed \in Editor
BY DraftEditorAssumption DEF Closed, Editor, NoAnswer, Answered, Forms, Calls,
   Steps, Statuses

(* A step of one editor that leaves every stored version where it is.      *)
LEMMA EditorStep ==
  ASSUME EditorTypeOK, EveryoneShowing, NEW e \in Editors, NEW r \in Editor,
         Set(e, r), Showing(doc', screens'[e], r),
         doc' \in [DocIds -> Draft], screens' \in [Editors -> SUBSET Forms],
         keys' \in Forms, created' \in [Editors -> Nat], unheard' \in BOOLEAN,
         \A x \in Editors : screens[x] \subseteq screens'[x],
         \A d \in DocIds : \A v \in 1..Len(doc[d].stored) :
           v \in 1..Len(doc'[d].stored) /\ doc'[d].stored[v] = doc[d].stored[v]
  PROVE  EditorTypeOK' /\ EveryoneShowing'
<1>1. ed \in [Editors -> Editor]
  BY EditorTypes
<1>2. ed'[e] = r /\ \A x \in Editors : x # e => ed'[x] = ed[x]
  BY <1>1 DEF Set
<1>3. EditorTypeOK'
  <2>1. ed' \in [Editors -> Editor]
    BY <1>1 DEF Set
  <2>2. QED
    BY <2>1 DEF EditorTypeOK, Draft, Revision, Editor, Answered
<1>4. ASSUME NEW x \in Editors, x # e
      PROVE  Showing(doc', screens'[x], ed'[x])
  <2>1. Showing(doc, screens[x], ed[x])
    BY DEF EveryoneShowing
  <2>2. ed[x] \in Editor
    BY <1>1
  <2>3. ASSUME NEW d \in DocIds, NEW v,
               HasShown(screens[x], doc[d].stored, v)
        PROVE  HasShown(screens'[x], doc'[d].stored, v)
    BY <2>3 DEF HasShown
  <2>4. /\ ed[x].id # 0 => ed[x].id \in DocIds
        /\ ed[x].answer.id # 0 => ed[x].answer.id \in DocIds
    BY <2>2 DEF Editor, Answered, DocIds
  <2>5. QED
    BY <1>2, <1>4, <2>1, <2>3, <2>4 DEF Showing
<1>5. QED
  BY <1>2, <1>3, <1>4 DEF EveryoneShowing

(* A step of one editor that stores nothing.                               *)
LEMMA QuietStep ==
  ASSUME EditorTypeOK, EditorInv, NEW e \in Editors, NEW r \in Editor,
         Set(e, r), Showing(doc, screens'[e], r), UNCHANGED <<doc, created>>,
         screens' \in [Editors -> SUBSET Forms], keys' \in Forms,
         unheard' \in BOOLEAN,
         \A x \in Editors : screens[x] \subseteq screens'[x]
  PROVE  EditorTypeOK' /\ EditorInv'
<1>1. doc' \in [DocIds -> Draft] /\ created' \in [Editors -> Nat]
  BY EditorTypes
<1>2. EditorTypeOK' /\ EveryoneShowing'
  BY <1>1, EditorStep DEF EditorInv
<1>3. NoSilentOverwrite'
  <2>1. ASSUME NEW d \in DocIds, NEW v \in DOMAIN doc[d].stored, v > 1
        PROVE  doc[d].stored[v - 1].content \in
                 screens'[doc[d].stored[v].by]
    <3>1. doc[d].stored[v].by \in Editors
      <4>1. doc[d].stored \in Seq(Revision)
        BY EditorTypes DEF Draft
      <4>2. doc[d].stored[v] \in Revision
        BY <4>1
      <4>3. QED
        BY <4>2 DEF Revision
    <3>2. QED
      BY <2>1, <3>1 DEF EditorInv, NoSilentOverwrite
  <2>2. QED
    BY <2>1 DEF NoSilentOverwrite
<1>4. QED
  BY <1>2, <1>3 DEF EditorInv

(* A step of one editor that only changes what a draft has become.         *)
LEMMA StatusStep ==
  ASSUME EditorTypeOK, EditorInv, NEW e \in Editors, NEW r \in Editor,
         Set(e, r), Showing(doc, screens[e], r),
         UNCHANGED <<keys, screens, created, unheard>>,
         NEW d, doc[d].status = "draft", NEW state \in {"issued", "deleted"},
         doc' = [doc EXCEPT ![d].status = state]
  PROVE  EditorTypeOK' /\ EditorInv'
<1>1. doc \in [DocIds -> Draft]
  BY EditorTypes
<1>2. /\ doc' \in [DocIds -> Draft]
      /\ \A x \in DocIds : doc'[x].stored = doc[x].stored
      /\ \A x \in DocIds :
           doc'[x].status = "none" <=> doc[x].status = "none"
  <2>1. CASE d \in DocIds
    <3>1. doc[d] \in Draft
      BY <1>1, <2>1
    <3>2. /\ [doc[d] EXCEPT !.status = state] \in Draft
          /\ [doc[d] EXCEPT !.status = state].stored = doc[d].stored
          /\ [doc[d] EXCEPT !.status = state].status = state
      BY <3>1 DEF Draft
    <3>3. QED
      BY <1>1, <2>1, <3>2
  <2>2. CASE d \notin DocIds
    BY <1>1, <2>2
  <2>3. QED
    BY <2>1, <2>2
<1>3. Showing(doc', screens'[e], r)
  <2>1. /\ r.id # 0 => r.id \in DocIds
        /\ r.answer.id # 0 => r.answer.id \in DocIds
    BY DEF Editor, Answered, DocIds
  <2>2. QED
    BY <1>2, <2>1 DEF Showing
<1>4. EditorTypeOK' /\ EveryoneShowing'
  BY <1>2, <1>3, EditorStep, EditorTypes DEF EditorInv
<1>5. NoSilentOverwrite'
  BY <1>2 DEF EditorInv, NoSilentOverwrite
<1>6. QED
  BY <1>2, <1>4, <1>5 DEF EditorInv

-----------------------------------------------------------------------------
(* Creating a draft and saving one are the steps that store a version.     *)

LEMMA CreateStep ==
  ASSUME EditorTypeOK, EditorInv, NEW e \in Editors, Create(e)
  PROVE  EditorTypeOK' /\ EditorInv'
<1>1. /\ doc \in [DocIds -> Draft] /\ ed[e] \in Editor
      /\ created \in [Editors -> Nat] /\ screens \in [Editors -> SUBSET Forms]
      /\ Showing(doc, screens[e], ed[e])
  BY EditorTypes DEF EditorInv, EveryoneShowing
<1>2. PICK d \in DocIds :
        /\ doc[d].status = "none"
        /\ doc' = [doc EXCEPT ![d] =
             [status |-> "draft",
              stored |-> <<[content |-> ed[e].carried, by |-> e]>>]]
        /\ Set(e, [ed[e] EXCEPT !.call = "ok",
                                !.answer = [id |-> d, version |-> 1]])
  BY DEF Create
<1> DEFINE r == [ed[e] EXCEPT !.call = "ok",
                              !.answer = [id |-> d, version |-> 1]]
           first == [content |-> ed[e].carried, by |-> e]
<1>3. /\ ed[e].call = "sent" /\ ed[e].id = 0
      /\ UNCHANGED <<keys, screens, unheard>>
      /\ created' = [created EXCEPT ![e] = @ + 1]
  BY DEF Create
<1>4. first \in Revision /\ ed[e].carried \in screens[e]
  BY <1>1, <1>3 DEF Revision, Editor, Showing
<1>5. /\ [status |-> "draft", stored |-> <<first>>] \in Draft
      /\ doc'[d] = [status |-> "draft", stored |-> <<first>>]
      /\ \A x \in DocIds : x # d => doc'[x] = doc[x]
      /\ doc' \in [DocIds -> Draft]
  BY <1>1, <1>2, <1>4 DEF Draft
<1>6. doc[d].stored = <<>>
  BY <1>2 DEF EditorInv
<1>7. d \in Nat \ {0} /\ d \in 0..Docs
  BY DraftEditorAssumption DEF DocIds
<1>8. /\ r \in Editor /\ r.call = "ok" /\ r.answer = [id |-> d, version |-> 1]
      /\ r.id = 0 /\ r.place = ed[e].place /\ r.chain = ed[e].chain
      /\ r.timer = ed[e].timer /\ r.form = ed[e].form
      /\ r.carried = ed[e].carried /\ r.status = ed[e].status
  <2>1. [id |-> d, version |-> 1] \in Answered
    BY <1>7 DEF Answered
  <2>2. QED
    BY <1>1, <1>3, <2>1 DEF Editor, Calls
<1>9. HasShown(screens[e], <<first>>, 1)
  BY <1>4 DEF HasShown
<1>10. Showing(doc', screens'[e], r)
  <2>1. Showing(doc, screens[e], ed[e]) /\ screens' = screens
    BY <1>1, <1>3
  <2>2. doc'[d].stored = <<first>>
    BY <1>5
  <2>3. r.answer.id = d /\ r.answer.version = 1
    BY <1>8
  <2> HIDE DEF r, first
  <2>4. QED
    BY <1>3, <1>7, <1>8, <1>9, <2>1, <2>2, <2>3 DEF Showing
<1>11. created' \in [Editors -> Nat]
  BY <1>1, <1>3
<1>12. \A x \in DocIds : \A v \in 1..Len(doc[x].stored) :
         v \in 1..Len(doc'[x].stored) /\ doc'[x].stored[v] = doc[x].stored[v]
  BY <1>5, <1>6
<1>13. Set(e, r) /\ keys' \in Forms /\ unheard' \in BOOLEAN
  BY <1>2, <1>3, EditorTypes
<1>14. EditorTypeOK' /\ EveryoneShowing'
  <2> HIDE DEF r, first
  <2>1. QED
    BY <1>1, <1>3, <1>5, <1>8, <1>10, <1>11, <1>12, <1>13, EditorStep
       DEF EditorInv
<1>15. NoSilentOverwrite'
  <2>1. ASSUME NEW x \in DocIds, NEW v \in DOMAIN doc'[x].stored, v > 1
        PROVE  doc'[x].stored[v - 1].content \in
                 screens'[doc'[x].stored[v].by]
    <3>1. CASE x = d
      BY <1>5, <2>1, <3>1
    <3>2. CASE x # d
      BY <1>3, <1>5, <2>1, <3>2 DEF EditorInv, NoSilentOverwrite
    <3>3. QED
      BY <3>1, <3>2
  <2>2. QED
    BY <2>1 DEF NoSilentOverwrite
<1>16. \A x \in DocIds : doc'[x].status = "none" <=> doc'[x].stored = <<>>
  BY <1>5 DEF EditorInv
<1>17. QED
  BY <1>14, <1>15, <1>16 DEF EditorInv

LEMMA SaveStep ==
  ASSUME EditorTypeOK, EditorInv, NEW e \in Editors, Save(e)
  PROVE  EditorTypeOK' /\ EditorInv'
<1> DEFINE d == ed[e].id
           stored == doc[d].stored
           new == [content |-> ed[e].carried, by |-> e]
           r == [ed[e] EXCEPT !.call = "ok",
                   !.answer = [id |-> d, version |-> Len(stored) + 1]]
<1>1. /\ doc \in [DocIds -> Draft] /\ ed[e] \in Editor
      /\ screens \in [Editors -> SUBSET Forms]
      /\ Showing(doc, screens[e], ed[e])
  BY EditorTypes DEF EditorInv, EveryoneShowing
<1>2. /\ ed[e].call = "sent" /\ d # 0 /\ doc[d].status = "draft"
      /\ ed[e].version = Len(stored)
      /\ doc' = [doc EXCEPT ![d].stored = Append(@, new)]
      /\ Set(e, r) /\ UNCHANGED <<keys, screens, created, unheard>>
  BY DEF Save, Current, Version
<1>3. d \in DocIds /\ d \in 0..Docs
  BY <1>1, <1>2 DEF Editor, DocIds
<1>4. stored \in Seq(Revision) /\ doc[d] \in Draft
  BY <1>1, <1>3 DEF Draft
<1>5. new \in Revision /\ ed[e].carried \in screens[e]
  BY <1>1, <1>2 DEF Revision, Editor, Showing
<1>6. /\ Append(stored, new) \in Seq(Revision)
      /\ Len(Append(stored, new)) = Len(stored) + 1
      /\ \A v \in 1..Len(stored) : Append(stored, new)[v] = stored[v]
      /\ Append(stored, new)[Len(stored) + 1] = new
      /\ Len(stored) \in Nat
  <2> HIDE DEF d, stored, new
  <2>1. QED
    BY <1>4, <1>5
<1>7. /\ doc'[d].stored = Append(stored, new) /\ doc'[d].status = "draft"
      /\ \A x \in DocIds : x # d => doc'[x] = doc[x]
      /\ doc' \in [DocIds -> Draft]
  <2> DEFINE n == [doc[d] EXCEPT !.stored = Append(stored, new)]
  <2>1. n \in Draft /\ n.stored = Append(stored, new) /\ n.status = "draft"
    BY <1>2, <1>4, <1>6 DEF Draft
  <2>2. doc' = [doc EXCEPT ![d] = n]
    BY <1>2
  <2> HIDE DEF n
  <2>3. QED
    BY <1>1, <1>3, <2>1, <2>2
<1>8. /\ r \in Editor /\ r.call = "ok"
      /\ r.answer = [id |-> d, version |-> Len(stored) + 1]
      /\ r.id = d /\ r.version = Len(stored) /\ r.place = ed[e].place
      /\ r.chain = ed[e].chain /\ r.timer = ed[e].timer
      /\ r.form = ed[e].form /\ r.carried = ed[e].carried
      /\ r.status = ed[e].status
  <2>1. [id |-> d, version |-> Len(stored) + 1] \in Answered
    BY <1>3, <1>6 DEF Answered
  <2>2. QED
    BY <1>1, <1>2, <2>1 DEF Editor, Calls
<1>9. /\ r.answer.id = d /\ r.answer.version = Len(stored) + 1
      /\ ed[e].id = d
  BY <1>8
<1>10. HasShown(screens[e], stored, Len(stored))
  BY <1>1, <1>2 DEF Showing
<1> HIDE DEF r, new, stored, d
<1>11. /\ HasShown(screens[e], Append(stored, new), Len(stored) + 1)
       /\ HasShown(screens[e], Append(stored, new), Len(stored))
  <2>1. new.content \in screens[e] /\ new.by = e
    BY <1>5 DEF new
  <2>2. QED
    BY <1>6, <1>10, <2>1 DEF HasShown
<1>12. Showing(doc', screens'[e], r)
  BY <1>1, <1>2, <1>7, <1>8, <1>9, <1>11 DEF Showing
<1>13. \A x \in DocIds : \A v \in 1..Len(doc[x].stored) :
         v \in 1..Len(doc'[x].stored) /\ doc'[x].stored[v] = doc[x].stored[v]
  <2>1. ASSUME NEW x \in DocIds, NEW v \in 1..Len(doc[x].stored)
        PROVE  v \in 1..Len(doc'[x].stored) /\
               doc'[x].stored[v] = doc[x].stored[v]
    <3>1. CASE x = d
      <4>1. doc[x].stored = stored /\ doc'[x].stored = Append(stored, new)
        BY <1>7, <3>1 DEF stored
      <4>2. QED
        BY <1>6, <2>1, <4>1
    <3>2. CASE x # d
      BY <1>7, <2>1, <3>2
    <3>3. QED
      BY <3>1, <3>2
  <2>2. QED
    BY <2>1
<1>14. EditorTypeOK' /\ EveryoneShowing'
  BY <1>1, <1>2, <1>7, <1>8, <1>12, <1>13, EditorStep, EditorTypes
     DEF EditorInv
<1>15. NoSilentOverwrite'
  <2>1. ASSUME NEW x \in DocIds, NEW v \in DOMAIN doc'[x].stored, v > 1
        PROVE  doc'[x].stored[v - 1].content \in
                 screens'[doc'[x].stored[v].by]
    <3>1. CASE x = d /\ v = Len(stored) + 1
      <4>1. doc'[x].stored[v] = new /\ doc'[x].stored[v - 1] = stored[v - 1]
        BY <1>6, <1>7, <2>1, <3>1
      <4>2. new.by = e /\ stored[Len(stored)].content \in screens[e]
        BY <1>10 DEF HasShown, new
      <4>3. v - 1 = Len(stored) /\ screens' = screens
        BY <1>2, <1>6, <3>1
      <4>4. doc'[x].stored[v - 1].content \in screens[e]
        BY <4>1, <4>2, <4>3
      <4>5. QED
        BY <4>1, <4>2, <4>3, <4>4
    <3>2. CASE x # d \/ v # Len(stored) + 1
      <4>1. v \in 1..Len(doc[x].stored) /\ v - 1 \in 1..Len(doc[x].stored)
        <5>1. CASE x = d
          <6>1. doc[x].stored = stored /\ v \in 1..Len(stored) + 1
            BY <1>6, <1>7, <2>1, <5>1 DEF stored
          <6>2. QED
            BY <1>6, <2>1, <3>2, <5>1, <6>1
        <5>2. CASE x # d
          <6>1. doc[x].stored \in Seq(Revision) /\ doc'[x] = doc[x]
            BY <1>1, <1>7, <5>2 DEF Draft
          <6>2. QED
            BY <2>1, <6>1
        <5>3. QED
          BY <5>1, <5>2
      <4>2. /\ doc'[x].stored[v] = doc[x].stored[v]
            /\ doc'[x].stored[v - 1] = doc[x].stored[v - 1]
        BY <1>13, <4>1
      <4>3. v \in DOMAIN doc[x].stored
        <5>1. doc[x].stored \in Seq(Revision)
          BY <1>1 DEF Draft
        <5>2. QED
          BY <4>1, <5>1
      <4>4. QED
        BY <1>2, <2>1, <4>2, <4>3 DEF EditorInv, NoSilentOverwrite
    <3>3. QED
      BY <3>1, <3>2
  <2>2. QED
    BY <2>1 DEF NoSilentOverwrite
<1>16. QED
  <2>1. \A x \in DocIds : doc'[x].status = "none" <=> doc'[x].stored = <<>>
    <3>1. Append(stored, new) # <<>>
      BY <1>6
    <3>2. QED
      BY <1>7, <3>1 DEF EditorInv
  <2>2. QED
    BY <1>14, <1>15, <2>1 DEF EditorInv

-----------------------------------------------------------------------------
(* Typing, and the answers to a save.                                      *)

(* What every step of editor e starts from.                                *)
LEMMA Starting ==
  ASSUME EditorTypeOK, EditorInv, NEW e \in Editors
  PROVE  /\ doc \in [DocIds -> Draft] /\ ed[e] \in Editor
         /\ screens \in [Editors -> SUBSET Forms]
         /\ keys \in Forms /\ unheard \in BOOLEAN
         /\ Showing(doc, screens[e], ed[e])
BY EditorTypes DEF EditorInv, EveryoneShowing

(* The last version of a draft that exists is one of its versions.         *)
LEMMA LastVersion ==
  ASSUME EditorTypeOK, NEW d \in DocIds, doc[d].stored # <<>>
  PROVE  /\ Version(d) \in 1..Len(doc[d].stored) /\ Version(d) \in Nat
         /\ doc[d].stored[Version(d)].content \in Forms
<1>1. doc[d].stored \in Seq(Revision)
  BY EditorTypes DEF Draft
<1>2. Version(d) \in 1..Len(doc[d].stored)
  BY <1>1 DEF Version
<1>3. doc[d].stored[Version(d)] \in Revision
  BY <1>1, <1>2
<1>4. QED
  BY <1>1, <1>2, <1>3 DEF Revision, Version

LEMMA OpenStep ==
  ASSUME EditorTypeOK, EditorInv, NEW e \in Editors, Open(e)
  PROVE  EditorTypeOK' /\ EditorInv'
<1>1. PICK d \in DocIds :
        LET shown == doc[d].stored[Version(d)].content IN
        /\ doc[d].status = "draft"
        /\ Set(e, [Closed EXCEPT !.place = "open", !.id = d,
                                 !.version = Version(d), !.form = shown])
        /\ screens' = [screens EXCEPT ![e] = @ \cup {shown}]
  BY DEF Open
<1> DEFINE shown == doc[d].stored[Version(d)].content
           r == [Closed EXCEPT !.place = "open", !.id = d,
                               !.version = Version(d), !.form = shown]
<1>2. UNCHANGED <<doc, keys, created, unheard>>
  BY DEF Open
<1>3. Version(d) \in 1..Len(doc[d].stored) /\ Version(d) \in Nat
      /\ shown \in Forms
  BY <1>1, LastVersion DEF EditorInv
<1>4. d \in 0..Docs /\ d # 0
  BY DraftEditorAssumption DEF DocIds
<1> HIDE DEF shown
<1>5. /\ r \in Editor /\ r.place = "open" /\ r.id = d
      /\ r.version = Version(d) /\ r.form = shown /\ r.call = "none"
      /\ r.status = "idle"
  BY <1>3, <1>4, ClosedTyped DEF Closed, Editor
<1>6. /\ screens' \in [Editors -> SUBSET Forms]
      /\ \A x \in Editors : screens[x] \subseteq screens'[x]
      /\ shown \in screens'[e]
  <2>1. screens' = [screens EXCEPT ![e] = @ \cup {shown}]
    BY <1>1 DEF shown
  <2>2. QED
    BY <1>3, <2>1, Starting
<1>7. Set(e, r)
  BY <1>1 DEF shown
<1> HIDE DEF r
<1>8. HasShown(screens'[e], doc[d].stored, Version(d))
  BY <1>3, <1>6 DEF HasShown, shown
<1>9. Showing(doc, screens'[e], r)
  BY <1>5, <1>6, <1>8 DEF Showing
<1>10. QED
  BY <1>2, <1>5, <1>6, <1>7, <1>9, QuietStep, Starting

LEMMA TypeStep ==
  ASSUME EditorTypeOK, EditorInv, NEW e \in Editors, Type(e)
  PROVE  EditorTypeOK' /\ EditorInv'
<1> DEFINE r == [ed[e] EXCEPT
                   !.form = keys + 1, !.dirty = TRUE, !.timer = TRUE,
                   !.status = IF @ = "saving" THEN @ ELSE "pending"]
<1>1. /\ ed[e].place = "open" /\ ed[e].status # "conflict"
      /\ keys < MaxTyped /\ keys' = keys + 1
      /\ Set(e, r) /\ screens' = [screens EXCEPT ![e] = @ \cup {keys + 1}]
      /\ UNCHANGED <<doc, created, unheard>>
  BY DEF Type
<1>2. keys + 1 \in Forms
  BY <1>1, Starting, DraftEditorAssumption DEF Forms
<1>3. /\ r \in Editor /\ r.place = "open" /\ r.id = ed[e].id
      /\ r.version = ed[e].version /\ r.form = keys + 1
      /\ r.call = ed[e].call /\ r.chain = ed[e].chain
      /\ r.carried = ed[e].carried /\ r.answer = ed[e].answer
      /\ r.status # "conflict"
  BY <1>1, <1>2, Starting DEF Editor, Statuses
<1>4. /\ screens' \in [Editors -> SUBSET Forms]
      /\ \A x \in Editors : screens[x] \subseteq screens'[x]
      /\ keys + 1 \in screens'[e]
  BY <1>1, <1>2, Starting
<1> HIDE DEF r
<1>5. Showing(doc, screens'[e], r)
  <2>1. \A stored, v : HasShown(screens[e], stored, v)
                          => HasShown(screens'[e], stored, v)
    BY <1>4 DEF HasShown
  <2>2. QED
    BY <1>1, <1>3, <1>4, <2>1, Starting DEF Showing
<1>6. QED
  BY <1>1, <1>2, <1>3, <1>4, <1>5, QuietStep, Starting

LEMMA ReloadStep ==
  ASSUME EditorTypeOK, EditorInv, NEW e \in Editors, ReloadDraft(e)
  PROVE  EditorTypeOK' /\ EditorInv'
<1> DEFINE d == ed[e].id
           shown == doc[d].stored[Version(d)].content
           r == [ed[e] EXCEPT
                   !.version = Version(d), !.dirty = FALSE,
                   !.status = "saved", !.form = shown]
<1>1. /\ ed[e].place = "open" /\ ed[e].status = "conflict"
      /\ Set(e, r) /\ screens' = [screens EXCEPT ![e] = @ \cup {shown}]
      /\ UNCHANGED <<doc, keys, created, unheard>>
  BY DEF ReloadDraft
<1>2. d \in DocIds /\ HasShown(screens[e], doc[d].stored, ed[e].version)
  BY <1>1, Starting DEF Showing, Editor, DocIds
<1>3. doc[d].stored # <<>>
  <2>1. ed[e].version \in 1..Len(doc[d].stored)
    BY <1>2 DEF HasShown
  <2>2. QED
    BY <2>1
<1>4. Version(d) \in 1..Len(doc[d].stored) /\ Version(d) \in Nat
      /\ shown \in Forms
  BY <1>2, <1>3, LastVersion
<1> HIDE DEF shown
<1>5. /\ r \in Editor /\ r.place = "open" /\ r.id = d
      /\ r.version = Version(d) /\ r.form = shown
      /\ r.call = ed[e].call /\ r.chain = ed[e].chain
      /\ r.carried = ed[e].carried /\ r.answer = ed[e].answer
      /\ r.status = "saved"
  BY <1>1, <1>4, Starting DEF Editor, Statuses
<1>6. /\ screens' \in [Editors -> SUBSET Forms]
      /\ \A x \in Editors : screens[x] \subseteq screens'[x]
      /\ shown \in screens'[e]
  BY <1>1, <1>4, Starting
<1>7. HasShown(screens'[e], doc[d].stored, Version(d))
  BY <1>4, <1>6 DEF HasShown, shown
<1> HIDE DEF r, d
<1>8. Showing(doc, screens'[e], r)
  <2>1. \A stored, v : HasShown(screens[e], stored, v)
                          => HasShown(screens'[e], stored, v)
    BY <1>6 DEF HasShown
  <2>2. QED
    BY <1>1, <1>5, <1>6, <1>7, <2>1, Starting DEF Showing
<1>9. QED
  BY <1>1, <1>5, <1>6, <1>8, QuietStep, Starting

(* Editor e changes, in what Showing reads, only what keeps it true.       *)
LEMMA Keeps ==
  ASSUME EditorTypeOK, EditorInv, NEW e \in Editors, NEW r \in Editor,
         Set(e, r), UNCHANGED <<doc, keys, screens, created>>,
         unheard' \in BOOLEAN, Showing(doc, screens[e], r)
  PROVE  EditorTypeOK' /\ EditorInv'
BY QuietStep, Starting

(* An editor whose save has ended, whatever else it says now.              *)
LEMMA EndedShowing ==
  ASSUME EditorTypeOK, EditorInv, NEW e \in Editors, NEW n \in Editor,
         NEW saved \in BOOLEAN, ed[e].chain # <<>>,
         n.chain = ed[e].chain, n.form = ed[e].form, n.timer = ed[e].timer,
         n.place \in {ed[e].place, "left"},
         n.id # 0 => HasShown(screens[e], doc[n.id].stored, n.version),
         n.status = "conflict" => n.id # 0
  PROVE  Finish(n, saved) \in Editor
         /\ Showing(doc, screens[e], Finish(n, saved))
<1>1. ed[e].form \in screens[e] /\ ed[e].place \notin {"closed", "done"}
  BY Starting DEF Showing
<1> DEFINE f == Finish(n, saved)
<1>2. /\ f \in Editor /\ f.call = "none" /\ f.place = n.place
      /\ f.id = n.id /\ f.version = n.version /\ f.form = n.form
      /\ f.status = n.status
  BY Finished
<1> HIDE DEF f
<1>3. Showing(doc, screens[e], f)
  BY <1>1, <1>2 DEF Showing
<1>4. QED
  BY <1>2, <1>3 DEF f

LEMMA AnswerStep ==
  ASSUME EditorTypeOK, EditorInv, NEW e \in Editors,
         SaveAnswered(e) \/ Refused(e) \/ Unreachable(e)
  PROVE  EditorTypeOK' /\ EditorInv'
<1>1. /\ ed[e] \in Editor /\ Showing(doc, screens[e], ed[e])
      /\ UNCHANGED <<doc, keys, screens, created>> /\ unheard' \in BOOLEAN
  BY Starting DEF SaveAnswered, Refused, Unreachable
<1>2. ed[e].chain # <<>>
  BY <1>1 DEF SaveAnswered, Refused, Unreachable, Showing
<1>3. CASE SaveAnswered(e)
  <2> DEFINE n == [ed[e] EXCEPT
        !.id = ed[e].answer.id, !.version = ed[e].answer.version,
        !.status = IF ed[e].dirty THEN "pending" ELSE "saved"]
  <2>1. Set(e, Finish(n, TRUE)) /\ ed[e].call = "ok"
    BY <1>3 DEF SaveAnswered
  <2>2. /\ n \in Editor /\ n.chain = ed[e].chain /\ n.form = ed[e].form
        /\ n.timer = ed[e].timer /\ n.place = ed[e].place
        /\ n.id = ed[e].answer.id /\ n.version = ed[e].answer.version
        /\ n.status # "conflict"
    BY <1>1 DEF Editor, Answered, Statuses
  <2> HIDE DEF n
  <2>3. n.id # 0 => HasShown(screens[e], doc[n.id].stored, n.version)
    BY <1>1, <2>1, <2>2 DEF Showing
  <2>4. Finish(n, TRUE) \in Editor /\ Showing(doc, screens[e], Finish(n, TRUE))
    BY <1>2, <2>2, <2>3, EndedShowing
  <2>5. QED
    BY <1>1, <2>1, <2>4, Keeps
<1>4. ASSUME NEW n \in Editor, NEW saved \in BOOLEAN,
             n.chain = ed[e].chain, n.form = ed[e].form,
             n.timer = ed[e].timer, n.place \in {ed[e].place, "left"},
             n.id = ed[e].id, n.version = ed[e].version,
             n.status = "conflict" => n.id # 0, Set(e, Finish(n, saved))
      PROVE  EditorTypeOK' /\ EditorInv'
  <2>1. n.id # 0 => HasShown(screens[e], doc[n.id].stored, n.version)
    BY <1>1, <1>4 DEF Showing
  <2>2. Finish(n, saved) \in Editor
        /\ Showing(doc, screens[e], Finish(n, saved))
    BY <1>2, <1>4, <2>1, EndedShowing
  <2>3. QED
    BY <1>1, <1>4, <2>2, Keeps
<1>5. CASE Refused(e)
  <2> DEFINE n(state, place) ==
        [[ed[e] EXCEPT !.dirty = TRUE] EXCEPT !.status = state,
                                              !.place = place]
  <2>1. ASSUME NEW state \in Statuses, NEW place \in {ed[e].place, "left"}
        PROVE  /\ n(state, place) \in Editor
               /\ n(state, place).chain = ed[e].chain
               /\ n(state, place).form = ed[e].form
               /\ n(state, place).timer = ed[e].timer
               /\ n(state, place).place = place
               /\ n(state, place).id = ed[e].id
               /\ n(state, place).version = ed[e].version
    BY <1>1 DEF Editor
  <2>2. \E state \in Statuses, place \in {ed[e].place, "left"} :
          Set(e, Finish(n(state, place), FALSE))
    <3>1. /\ [[ed[e] EXCEPT !.dirty = TRUE] EXCEPT !.status = "conflict"]
               = n("conflict", ed[e].place)
          /\ [[ed[e] EXCEPT !.dirty = TRUE] EXCEPT !.status = "error"]
               = n("error", ed[e].place)
      BY <1>1 DEF Editor
    <3>2. {"conflict", "saved", "error"} \subseteq Statuses
      BY DEF Statuses
    <3>3. QED
      BY <1>5, <3>1, <3>2 DEF Refused
  <2>3. ed[e].id # 0
    BY <1>5 DEF Refused
  <2> HIDE DEF n
  <2>4. QED
    BY <1>4, <2>1, <2>2, <2>3
<1>6. CASE Unreachable(e)
  <2> DEFINE n == [ed[e] EXCEPT !.dirty = TRUE, !.status = "error"]
  <2>1. Set(e, Finish(n, FALSE))
    BY <1>6 DEF Unreachable
  <2>2. /\ n \in Editor /\ n.chain = ed[e].chain /\ n.form = ed[e].form
        /\ n.timer = ed[e].timer /\ n.place = ed[e].place
        /\ n.id = ed[e].id /\ n.version = ed[e].version
        /\ n.status # "conflict"
    BY <1>1 DEF Editor, Statuses
  <2> HIDE DEF n
  <2>3. QED
    BY <1>4, <2>1, <2>2
<1>7. QED
  BY <1>3, <1>5, <1>6

LEMMA PersistStep ==
  ASSUME EditorTypeOK, EditorInv, NEW e \in Editors, Persist(e)
  PROVE  EditorTypeOK' /\ EditorInv'
<1>1. /\ ed[e] \in Editor /\ Showing(doc, screens[e], ed[e])
      /\ UNCHANGED <<doc, keys, screens, created, unheard>>
      /\ unheard \in BOOLEAN /\ ed[e].chain # <<>> /\ ed[e].call = "none"
  BY Starting DEF Persist
<1>2. ASSUME NEW saved \in BOOLEAN, Set(e, Finish(ed[e], saved))
      PROVE  EditorTypeOK' /\ EditorInv'
  <2>1. Finish(ed[e], saved) \in Editor
        /\ Showing(doc, screens[e], Finish(ed[e], saved))
    <3>1. ed[e].id # 0
            => HasShown(screens[e], doc[ed[e].id].stored, ed[e].version)
      BY <1>1 DEF Showing
    <3>2. ed[e].status = "conflict" => ed[e].id # 0
      BY <1>1 DEF Showing
    <3>3. QED
      BY <1>1, <3>1, <3>2, EndedShowing
  <2>2. QED
    BY <1>1, <1>2, <2>1, Keeps
<1>3. ASSUME Set(e, [ed[e] EXCEPT !.dirty = FALSE, !.status = "saving",
                                  !.call = "sent", !.carried = ed[e].form])
      PROVE  EditorTypeOK' /\ EditorInv'
  <2> DEFINE r == [ed[e] EXCEPT !.dirty = FALSE, !.status = "saving",
                                !.call = "sent", !.carried = ed[e].form]
  <2>1. /\ r \in Editor /\ r.place = ed[e].place /\ r.id = ed[e].id
        /\ r.version = ed[e].version /\ r.form = ed[e].form
        /\ r.chain = ed[e].chain /\ r.timer = ed[e].timer
        /\ r.call = "sent" /\ r.carried = ed[e].form
        /\ r.status = "saving"
    BY <1>1 DEF Editor, Statuses, Calls
  <2> HIDE DEF r
  <2>2. Showing(doc, screens[e], r)
    BY <1>1, <2>1 DEF Showing
  <2>3. Set(e, r)
    BY <1>3 DEF r
  <2>4. QED
    BY <1>1, <2>1, <2>2, <2>3, Keeps
<1>4. QED
  BY <1>2, <1>3 DEF Persist

-----------------------------------------------------------------------------
(* Issuing, deleting and leaving.                                          *)

(* An editor that keeps what Showing reads, chaining perhaps one more save *)
(* and perhaps on its way out.                                             *)
LEMMA StillShowing ==
  ASSUME EditorTypeOK, EditorInv, NEW e \in Editors, NEW r \in Editor,
         ed[e].place \notin {"closed", "done"},
         r.place \in {ed[e].place, "left"},
         r.id = ed[e].id, r.version = ed[e].version, r.form = ed[e].form,
         r.call = ed[e].call, r.carried = ed[e].carried,
         r.answer = ed[e].answer, r.status = ed[e].status,
         r.chain = ed[e].chain \/ r.chain # <<>>
  PROVE  Showing(doc, screens[e], r)
BY Starting DEF Showing

LEMMA FlushStep ==
  ASSUME EditorTypeOK, EditorInv, NEW e \in Editors,
         TimerFires(e) \/ \E tag \in {"issue", "delete"} : Begin(e, tag)
  PROVE  EditorTypeOK' /\ EditorInv'
<1>1. PICK tag \in Tags : Set(e, Flushed(ed[e], tag))
  BY DEF TimerFires, Begin, Tags
<1>2. /\ ed[e] \in Editor /\ Showing(doc, screens[e], ed[e])
      /\ UNCHANGED <<doc, keys, screens, created, unheard>>
      /\ unheard \in BOOLEAN
  BY Starting DEF TimerFires, Begin
<1>3. ed[e].place \notin {"closed", "done"}
  BY <1>2 DEF TimerFires, Begin, Showing
<1> DEFINE r == Flushed(ed[e], tag)
<1>4. /\ r \in Editor /\ r.chain # <<>> /\ r.place = ed[e].place
      /\ r.id = ed[e].id /\ r.version = ed[e].version
      /\ r.form = ed[e].form /\ r.status = ed[e].status
      /\ r.call = ed[e].call /\ r.carried = ed[e].carried
      /\ r.answer = ed[e].answer
  BY <1>2, FlushedTyped
<1> HIDE DEF r
<1>5. Showing(doc, screens[e], r)
  BY <1>3, <1>4, StillShowing
<1>6. QED
  BY <1>1, <1>2, <1>4, <1>5, Keeps DEF r

(* The page moves on: its place and what it is about are all that changes. *)
MovedOn(r, place, step) == [r EXCEPT !.place = place, !.step = step]

LEMMA MovedShowing ==
  ASSUME EditorTypeOK, EditorInv, NEW e \in Editors,
         ed[e].place \notin {"closed", "done"},
         NEW place \in {ed[e].place, "left"}, NEW step \in Steps
  PROVE  /\ MovedOn(ed[e], place, step) \in Editor
         /\ Showing(doc, screens[e], MovedOn(ed[e], place, step))
<1> DEFINE r == MovedOn(ed[e], place, step)
<1>1. /\ r \in Editor /\ r.place = place
      /\ r.id = ed[e].id /\ r.version = ed[e].version
      /\ r.form = ed[e].form /\ r.status = ed[e].status
      /\ r.call = ed[e].call /\ r.carried = ed[e].carried
      /\ r.answer = ed[e].answer /\ r.chain = ed[e].chain
  BY Starting DEF MovedOn, Editor
<1> HIDE DEF r
<1>2. Showing(doc, screens[e], r)
  BY <1>1, StillShowing
<1>3. QED
  BY <1>1, <1>2 DEF r

LEMMA SheetStep ==
  ASSUME EditorTypeOK, EditorInv, NEW e \in Editors,
         Check(e) \/ CloseSheet(e) \/ Issue(e) \/ RemoveDraft(e)
  PROVE  EditorTypeOK' /\ EditorInv'
<1>1. /\ ed[e] \in Editor /\ Showing(doc, screens[e], ed[e])
      /\ unheard \in BOOLEAN /\ UNCHANGED <<keys, screens, created, unheard>>
  BY Starting DEF Check, CloseSheet, Issue, RemoveDraft
<1>2. ed[e].place \notin {"closed", "done"}
  BY <1>1 DEF Check, CloseSheet, Issue, RemoveDraft, Showing
<1>3. PICK place \in {ed[e].place, "left"}, step \in Steps :
        Set(e, MovedOn(ed[e], place, step))
  <2>1. \A step \in Steps :
          [ed[e] EXCEPT !.step = step] = MovedOn(ed[e], ed[e].place, step)
    BY <1>1 DEF MovedOn, Editor
  <2>2. /\ [ed[e] EXCEPT !.place = "left", !.step = "none"]
             = MovedOn(ed[e], "left", "none")
        /\ [[ed[e] EXCEPT !.step = "none"] EXCEPT !.place = "left"]
             = MovedOn(ed[e], "left", "none")
    BY <1>1 DEF MovedOn, Editor
  <2>3. {"none", "shown", "issuing"} \subseteq Steps
    BY DEF Steps
  <2>4. CASE Check(e) \/ CloseSheet(e)
    BY <2>1, <2>3, <2>4 DEF Check, CloseSheet
  <2>5. CASE Issue(e)
    BY <2>1, <2>2, <2>3, <2>5 DEF Issue
  <2>6. CASE RemoveDraft(e)
    BY <2>1, <2>2, <2>3, <2>6 DEF RemoveDraft
  <2>7. QED
    BY <2>4, <2>5, <2>6
<1> DEFINE r == MovedOn(ed[e], place, step)
<1>4. r \in Editor /\ Showing(doc, screens[e], r)
  BY <1>2, MovedShowing
<1>5. \/ UNCHANGED doc
      \/ \E state \in {"issued", "deleted"} :
           /\ doc[ed[e].id].status = "draft"
           /\ doc' = [doc EXCEPT ![ed[e].id].status = state]
  BY DEF Check, CloseSheet, Issue, RemoveDraft
<1> HIDE DEF r
<1>6. CASE UNCHANGED doc
  BY <1>1, <1>3, <1>4, <1>6, Keeps DEF r
<1>7. CASE \E state \in {"issued", "deleted"} :
             /\ doc[ed[e].id].status = "draft"
             /\ doc' = [doc EXCEPT ![ed[e].id].status = state]
  BY <1>1, <1>3, <1>4, <1>7, StatusStep DEF r
<1>8. QED
  BY <1>5, <1>6, <1>7

LEMMA LeaveStep ==
  ASSUME EditorTypeOK, EditorInv, NEW e \in Editors, Leave(e)
  PROVE  EditorTypeOK' /\ EditorInv'
<1> DEFINE r == MovedOn(ed[e], "left", "none")
           n == Flushed(r, "save")
<1>1. /\ ed[e].place = "open" /\ (Set(e, r) \/ Set(e, n))
      /\ UNCHANGED <<doc, keys, screens, created, unheard>>
  BY DEF Leave, MovedOn
<1>2. ed[e] \in Editor /\ unheard \in BOOLEAN
  BY Starting
<1>3. /\ r \in Editor /\ r.place = "left" /\ Showing(doc, screens[e], r)
      /\ r.id = ed[e].id /\ r.version = ed[e].version
      /\ r.form = ed[e].form /\ r.status = ed[e].status
      /\ r.call = ed[e].call /\ r.carried = ed[e].carried
      /\ r.answer = ed[e].answer
  <2>1. "none" \in Steps /\ ed[e].place \notin {"closed", "done"}
    BY <1>1 DEF Steps
  <2>2. r \in Editor /\ Showing(doc, screens[e], r)
    <3> HIDE DEF r
    <3>1. QED
      BY <2>1, MovedShowing DEF r
  <2>3. QED
    BY <1>2, <2>2 DEF MovedOn, Editor
<1> HIDE DEF r
<1>4. /\ n \in Editor /\ n.chain # <<>> /\ n.place = r.place
      /\ n.id = r.id /\ n.version = r.version
      /\ n.form = r.form /\ n.status = r.status
      /\ n.call = r.call /\ n.carried = r.carried
      /\ n.answer = r.answer
  BY <1>3, FlushedTyped, "save" \in Tags DEF Tags
<1> HIDE DEF n
<1>5. Showing(doc, screens[e], n)
  BY <1>1, <1>3, <1>4, StillShowing
<1>6. QED
  BY <1>1, <1>2, <1>3, <1>4, <1>5, Keeps

LEMMA ForgetStep ==
  ASSUME EditorTypeOK, EditorInv, NEW e \in Editors, Forget(e)
  PROVE  EditorTypeOK' /\ EditorInv'
<1> DEFINE r == [Closed EXCEPT !.place = "done"]
<1>1. Set(e, r) /\ UNCHANGED <<doc, keys, screens, created, unheard>>
  BY DEF Forget
<1>2. /\ r \in Editor /\ r.place = "done" /\ r.chain = <<>> /\ ~r.timer
      /\ r.call = "none" /\ r.id = 0 /\ r.status = "idle"
      /\ r.step = "none"
  BY ClosedTyped DEF Closed, Editor
<1> HIDE DEF r
<1>3. Showing(doc, screens[e], r)
  BY <1>2 DEF Showing
<1>4. QED
  BY <1>1, <1>2, <1>3, Starting, Keeps

-----------------------------------------------------------------------------
LEMMA EditorStarts ==
  ASSUME EditorInit
  PROVE  EditorTypeOK /\ EditorInv
<1> DEFINE opened == [Closed EXCEPT !.place = "open"]
<1>1. /\ opened \in Editor /\ opened.place = "open" /\ opened.form = 0
      /\ opened.id = 0 /\ opened.call = "none" /\ opened.status = "idle"
  BY ClosedTyped DEF Closed, Editor
<1>2. /\ Closed \in Editor /\ Closed.place = "closed" /\ Closed.id = 0
      /\ Closed.chain = <<>> /\ ~Closed.timer /\ Closed.call = "none"
      /\ Closed.status = "idle" /\ Closed.step = "none"
  BY ClosedTyped DEF Closed
<1>3. 0 \in Forms
  BY DraftEditorAssumption DEF Forms
<1>4. ed = [e \in Editors |-> IF e \in Fresh THEN opened ELSE Closed]
  BY DEF EditorInit
<1> HIDE DEF opened
<1>5. ed \in [Editors -> Editor]
  BY <1>1, <1>2, <1>4
<1>6. [status |-> "none", stored |-> <<>>] \in Draft
  BY DEF Draft
<1>7. EditorTypeOK
  BY <1>3, <1>5, <1>6, EditorTypes DEF EditorInit
<1>8. ASSUME NEW e \in Editors PROVE Showing(doc, screens[e], ed[e])
  <2>1. CASE e \in Fresh
    <3>1. ed[e] = opened /\ 0 \in screens[e]
      BY <1>4, <2>1 DEF EditorInit
    <3>2. QED
      BY <1>1, <3>1 DEF Showing
  <2>2. CASE e \notin Fresh
    <3>1. ed[e] = Closed
      BY <1>4, <2>2
    <3>2. QED
      BY <1>2, <3>1 DEF Showing
  <2>3. QED
    BY <2>1, <2>2
<1>9. \A d \in DocIds : doc[d].status = "none" /\ doc[d].stored = <<>>
  BY DEF EditorInit
<1>10. NoSilentOverwrite
  BY <1>9 DEF NoSilentOverwrite
<1>11. QED
  BY <1>7, <1>8, <1>9, <1>10 DEF EditorInv, EveryoneShowing

LEMMA EditorStays ==
  EditorTypeOK /\ EditorInv /\ [EditorNext]_editorVars
    => EditorTypeOK' /\ EditorInv'
<1> SUFFICES ASSUME EditorTypeOK, EditorInv, [EditorNext]_editorVars
             PROVE  EditorTypeOK' /\ EditorInv'
  OBVIOUS
<1>1. ASSUME NEW e \in Editors,
             \/ Open(e) \/ Type(e) \/ TimerFires(e) \/ Persist(e)
             \/ Respond(e) \/ ReloadDraft(e)
             \/ \E tag \in {"issue", "delete"} : Begin(e, tag)
             \/ Check(e) \/ CloseSheet(e) \/ Issue(e) \/ RemoveDraft(e)
             \/ Leave(e) \/ Forget(e)
      PROVE  EditorTypeOK' /\ EditorInv'
  <2>1. CASE Open(e) \/ Type(e) \/ ReloadDraft(e)
    BY <2>1, OpenStep, TypeStep, ReloadStep
  <2>2. CASE \/ TimerFires(e) \/ Persist(e)
             \/ \E tag \in {"issue", "delete"} : Begin(e, tag)
    BY <2>2, FlushStep, PersistStep
  <2>3. CASE Respond(e)
    BY <2>3, CreateStep, SaveStep, AnswerStep DEF Respond
  <2>4. CASE Check(e) \/ CloseSheet(e) \/ Issue(e) \/ RemoveDraft(e)
    BY <2>4, SheetStep
  <2>5. CASE Leave(e) \/ Forget(e)
    BY <2>5, LeaveStep, ForgetStep
  <2>6. QED
    BY <1>1, <2>1, <2>2, <2>3, <2>4, <2>5
<1>2. CASE EditorNext
  BY <1>1, <1>2 DEF EditorNext
<1>3. CASE UNCHANGED editorVars
  BY <1>3 DEF editorVars, EditorTypeOK, DocIds, Forms, EditorInv,
     EveryoneShowing, Showing, HasShown, NoSilentOverwrite
<1>4. QED
  BY <1>2, <1>3

(* Every editor page, every draft and every answer keep their form.        *)
THEOREM EditorTypeCorrect == EditorSpec => []EditorTypeOK
<1>1. EditorSpec => [](EditorTypeOK /\ EditorInv)
  BY EditorStarts, EditorStays, PTL DEF EditorSpec
<1>2. QED
  BY <1>1, PTL

(* Whatever is typed, saved, refused, lost or read again by any number of  *)
(* editors of the same drafts, no save replaces a version its editor never *)
(* showed.                                                                 *)
THEOREM NothingOverwrittenUnseen == EditorSpec => []NoSilentOverwrite
<1>1. EditorSpec => [](EditorTypeOK /\ EditorInv)
  BY EditorStarts, EditorStays, PTL DEF EditorSpec
<1>2. EditorInv => NoSilentOverwrite
  BY DEF EditorInv
<1>3. QED
  BY <1>1, <1>2, PTL

(* A blank form that has created its draft knows it, or is about to hear   *)
(* of it, or is no longer open, unless the answer was lost.                *)
Identified(r, n, lost) ==
  n > 0 /\ r.id = 0 => lost \/ r.call = "ok" \/ r.place = "done"

CreatedInv == \A e \in Editors : Identified(ed[e], created[e], unheard)

(* One editor moves; the others have created what they had.                *)
LEMMA IdentifiedStep ==
  ASSUME EditorTypeOK, CreatedInv, NEW e \in Editors, NEW r, Set(e, r),
         \A x \in Editors : x # e => created'[x] = created[x],
         unheard => unheard', Identified(r, created'[e], unheard')
  PROVE  CreatedInv'
<1>1. ed \in [Editors -> Editor]
  BY EditorTypes
<1>2. ed'[e] = r /\ \A x \in Editors : x # e => ed'[x] = ed[x]
  BY <1>1 DEF Set
<1>3. QED
  BY <1>2 DEF CreatedInv, Identified

(* What a page does without its save, it does as long as it is open, and   *)
(* it keeps the draft it knows.                                            *)
LEMMA OpenIdentified ==
  ASSUME EditorTypeOK, EditorInv, CreatedInv, NEW e \in Editors, NEW r,
         Set(e, r), UNCHANGED <<created, unheard>>,
         ed[e].place \notin {"closed", "done"},
         r.id = ed[e].id, r.call = ed[e].call
  PROVE  CreatedInv'
<1>1. Identified(r, created[e], unheard)
  BY DEF CreatedInv, Identified
<1>2. QED
  BY <1>1, IdentifiedStep

LEMMA PageIdentified ==
  ASSUME EditorTypeOK, EditorInv, CreatedInv, NEW e \in Editors,
         \/ Type(e) \/ TimerFires(e) \/ ReloadDraft(e)
         \/ \E tag \in {"issue", "delete"} : Begin(e, tag)
         \/ Check(e) \/ CloseSheet(e) \/ Issue(e) \/ RemoveDraft(e) \/ Leave(e)
  PROVE  CreatedInv'
<1>1. /\ ed[e] \in Editor /\ Showing(doc, screens[e], ed[e])
      /\ UNCHANGED <<created, unheard>>
  BY Starting DEF Type, TimerFires, ReloadDraft, Begin, Check, CloseSheet,
     Issue, RemoveDraft, Leave
<1>2. ed[e].place \notin {"closed", "done"}
  BY <1>1 DEF Type, TimerFires, ReloadDraft, Begin, Check, CloseSheet,
     Issue, RemoveDraft, Leave, Showing
<1>3. ed \in [Editors -> Editor]
  BY EditorTypes
<1>4. Set(e, ed'[e]) /\ ed'[e].id = ed[e].id /\ ed'[e].call = ed[e].call
  <2>1. ASSUME NEW r \in Editor, Set(e, r),
               r.id = ed[e].id, r.call = ed[e].call
        PROVE  Set(e, ed'[e]) /\ ed'[e].id = ed[e].id /\ ed'[e].call = ed[e].call
    <3>1. ed'[e] = r
      BY <1>3, <2>1 DEF Set
    <3> QED BY <2>1, <3>1
  <2>2. \A place \in {ed[e].place, "left"}, step \in Steps :
          LET r == MovedOn(ed[e], place, step) IN
          /\ r \in Editor /\ r.id = ed[e].id /\ r.call = ed[e].call
    BY <1>1 DEF MovedOn, Editor
  <2>3. \A step \in Steps :
          [ed[e] EXCEPT !.step = step] = MovedOn(ed[e], ed[e].place, step)
    BY <1>1 DEF MovedOn, Editor
  <2>4. /\ [ed[e] EXCEPT !.place = "left", !.step = "none"]
             = MovedOn(ed[e], "left", "none")
        /\ [[ed[e] EXCEPT !.step = "none"] EXCEPT !.place = "left"]
             = MovedOn(ed[e], "left", "none")
    BY <1>1 DEF MovedOn, Editor
  <2>5. {"none", "shown", "issuing"} \subseteq Steps
    BY DEF Steps
  <2>6. CASE Type(e)
    BY <1>1, <1>3, <2>6 DEF Type, Set, Editor
  <2>7. CASE ReloadDraft(e)
    BY <1>1, <1>3, <2>7 DEF ReloadDraft, Set, Editor
  <2>8. CASE TimerFires(e) \/ \E tag \in {"issue", "delete"} : Begin(e, tag)
    <3>1. PICK tag \in Tags : Set(e, Flushed(ed[e], tag))
      BY <2>8 DEF TimerFires, Begin, Tags
    <3> QED BY <1>1, <2>1, <3>1, FlushedTyped
  <2>9. CASE Check(e) \/ CloseSheet(e) \/ Issue(e) \/ RemoveDraft(e)
    <3>1. \E place \in {ed[e].place, "left"}, step \in Steps :
            Set(e, MovedOn(ed[e], place, step))
      <4>1. CASE Check(e) \/ CloseSheet(e)
        BY <2>3, <2>5, <4>1 DEF Check, CloseSheet
      <4>2. CASE Issue(e)
        BY <2>3, <2>4, <2>5, <4>2 DEF Issue
      <4>3. CASE RemoveDraft(e)
        BY <2>3, <2>4, <2>5, <4>3 DEF RemoveDraft
      <4> QED BY <2>9, <4>1, <4>2, <4>3
    <3> QED BY <2>1, <2>2, <3>1
  <2>10. CASE Leave(e)
    <3> DEFINE r == MovedOn(ed[e], "left", "none")
               n == Flushed(r, "save")
    <3>1. r \in Editor /\ r.id = ed[e].id /\ r.call = ed[e].call
      <4>1. "none" \in Steps
        BY DEF Steps
      <4> QED BY <2>2, <4>1
    <3>2. Set(e, r) \/ Set(e, n)
      BY <2>10 DEF Leave, MovedOn
    <3> HIDE DEF r
    <3>3. n \in Editor /\ n.id = r.id /\ n.call = r.call
      BY <3>1, FlushedTyped, "save" \in Tags DEF Tags
    <3> HIDE DEF n
    <3> QED BY <2>1, <3>1, <3>2, <3>3
  <2> QED
    BY <2>6, <2>7, <2>8, <2>9, <2>10
<1>5. QED
  BY <1>1, <1>2, <1>4, OpenIdentified

LEMMA SaveIdentified ==
  ASSUME EditorTypeOK, EditorInv, CreatedInv, NEW e \in Editors,
         Persist(e) \/ Respond(e)
  PROVE  CreatedInv'
<1>1. /\ ed[e] \in Editor /\ Showing(doc, screens[e], ed[e])
      /\ Identified(ed[e], created[e], unheard)
  BY Starting DEF CreatedInv
<1>2. created \in [Editors -> Nat]
  BY EditorTypes
<1>3. ASSUME NEW n \in Editor, NEW saved \in BOOLEAN, n.chain = ed[e].chain,
             ed[e].chain # <<>>, Set(e, Finish(n, saved)), UNCHANGED created,
             unheard => unheard', Identified([n EXCEPT !.call = "none"], created[e], unheard')
      PROVE  CreatedInv'
  <2> DEFINE f == Finish(n, saved)
  <2>1. f.id = n.id /\ f.place = n.place /\ f.call = "none"
    BY <1>3, Finished
  <2>2. Identified(f, created[e], unheard')
    BY <1>3, <2>1 DEF Identified, Editor
  <2> HIDE DEF f
  <2>3. Set(e, f)
    BY <1>3 DEF f
  <2> QED BY <1>3, <2>2, <2>3, IdentifiedStep
<1>4. CASE Persist(e)
  <2>1. ed[e].chain # <<>> /\ ed[e].call = "none" /\ UNCHANGED <<created, unheard>>
    BY <1>4 DEF Persist
  <2>2. created[e] > 0 /\ ed[e].id = 0 => unheard
    BY <1>1, <2>1 DEF Identified, Showing
  <2>3. \A saved \in BOOLEAN : Set(e, Finish(ed[e], saved)) => CreatedInv'
    BY <1>1, <1>3, <2>1, <2>2 DEF Identified, Editor
  <2> DEFINE r == [ed[e] EXCEPT !.dirty = FALSE, !.status = "saving",
                                !.call = "sent", !.carried = ed[e].form]
  <2>4. r.id = ed[e].id
    BY <1>1 DEF Editor
  <2>5. Set(e, r) => CreatedInv'
    <3> HIDE DEF r
    <3> QED BY <2>1, <2>2, <2>4, IdentifiedStep DEF Identified
  <2> QED BY <1>4, <2>3, <2>5 DEF Persist
<1>5. CASE Create(e)
  <2>1. PICK a : Set(e, [ed[e] EXCEPT !.call = "ok", !.answer = a])
    BY <1>5 DEF Create
  <2> DEFINE r == [ed[e] EXCEPT !.call = "ok", !.answer = a]
  <2>2. r.call = "ok"
    BY <1>1 DEF Editor
  <2>3. /\ \A x \in Editors : x # e => created'[x] = created[x]
        /\ unheard' = unheard
    BY <1>2, <1>5 DEF Create
  <2> HIDE DEF r
  <2>4. Set(e, r)
    BY <2>1 DEF r
  <2> QED BY <2>2, <2>3, <2>4, IdentifiedStep DEF Identified
<1>6. CASE Save(e)
  <2>1. PICK a : Set(e, [ed[e] EXCEPT !.call = "ok", !.answer = a])
    BY <1>6 DEF Save
  <2> DEFINE r == [ed[e] EXCEPT !.call = "ok", !.answer = a]
  <2>2. r.call = "ok"
    BY <1>1 DEF Editor
  <2>3. UNCHANGED <<created, unheard>>
    BY <1>6 DEF Save
  <2> HIDE DEF r
  <2>4. Set(e, r)
    BY <2>1 DEF r
  <2> QED BY <2>2, <2>3, <2>4, IdentifiedStep DEF Identified
<1>7. CASE SaveAnswered(e)
  <2> DEFINE n == [ed[e] EXCEPT
       !.id = ed[e].answer.id, !.version = ed[e].answer.version,
       !.status = IF ed[e].dirty THEN "pending" ELSE "saved"]
  <2>1. /\ n \in Editor /\ n.chain = ed[e].chain /\ n.id # 0
        /\ ed[e].chain # <<>>
    BY <1>1, <1>7 DEF SaveAnswered, Showing, Editor, Answered, Statuses
  <2>2. Set(e, Finish(n, TRUE)) /\ UNCHANGED <<created, unheard>>
    BY <1>7 DEF SaveAnswered
  <2> HIDE DEF n
  <2>3. Identified([n EXCEPT !.call = "none"], created[e], unheard')
    BY <2>1 DEF Identified, Editor
  <2> QED BY <1>3, <2>1, <2>2, <2>3
<1>8. CASE Refused(e)
  <2>1. /\ ed[e].id # 0 /\ ed[e].chain # <<>> /\ UNCHANGED <<created, unheard>>
    BY <1>1, <1>8 DEF Refused, Showing
  <2>2. PICK n \in Editor : /\ n.id = ed[e].id /\ n.chain = ed[e].chain
                            /\ Set(e, Finish(n, FALSE))
    BY <1>1, <1>8 DEF Refused, Editor, Statuses
  <2>3. Identified([n EXCEPT !.call = "none"], created[e], unheard')
    BY <2>1, <2>2 DEF Identified, Editor
  <2> QED BY <1>3, <2>1, <2>2, <2>3
<1>9. CASE Unreachable(e)
  <2> DEFINE n == [ed[e] EXCEPT !.dirty = TRUE, !.status = "error"]
  <2>1. /\ Set(e, Finish(n, FALSE)) /\ UNCHANGED created
        /\ unheard' = (unheard \/ ed[e].call = "ok") /\ ed[e].call # "none"
    BY <1>9 DEF Unreachable
  <2>2. /\ n \in Editor /\ n.chain = ed[e].chain /\ n.id = ed[e].id
        /\ ed[e].chain # <<>>
    BY <1>1, <2>1 DEF Showing, Editor, Statuses
  <2>3. created[e] > 0 /\ ed[e].id = 0 => unheard'
    BY <1>1, <2>1 DEF Identified, Showing
  <2> HIDE DEF n
  <2>4. Identified([n EXCEPT !.call = "none"], created[e], unheard')
    BY <2>2, <2>3 DEF Identified, Editor
  <2> QED BY <1>3, <2>1, <2>2, <2>4
<1>10. QED
  BY <1>4, <1>5, <1>6, <1>7, <1>8, <1>9 DEF Respond

LEMMA DoorIdentified ==
  ASSUME EditorTypeOK, EditorInv, CreatedInv, NEW e \in Editors,
         Open(e) \/ Forget(e)
  PROVE  CreatedInv'
<1>1. UNCHANGED <<created, unheard>>
  BY DEF Open, Forget
<1>2. \E r : Set(e, r) /\ (r.id # 0 \/ r.place = "done")
  <2>1. CASE Open(e)
    <3>1. PICK d \in DocIds :
            Set(e, [Closed EXCEPT !.place = "open", !.id = d,
                                  !.version = Version(d),
                                  !.form = doc[d].stored[Version(d)].content])
      BY <2>1 DEF Open
    <3> DEFINE r == [Closed EXCEPT !.place = "open", !.id = d,
                                   !.version = Version(d),
                                   !.form = doc[d].stored[Version(d)].content]
    <3>2. r.id # 0
      BY DEF Closed, DocIds
    <3>3. Set(e, r)
      BY <3>1
    <3> HIDE DEF r
    <3> QED BY <3>2, <3>3
  <2>2. CASE Forget(e)
    <3> DEFINE r == [Closed EXCEPT !.place = "done"]
    <3>1. r.place = "done"
      BY DEF Closed
    <3>2. Set(e, r)
      BY <2>2 DEF Forget
    <3> HIDE DEF r
    <3> QED BY <3>1, <3>2
  <2> QED BY <2>1, <2>2
<1>3. QED
  BY <1>1, <1>2, IdentifiedStep DEF Identified

(* For any number of editors and drafts, a blank form creates one draft,   *)
(* however its saves, its "Issue" and its leaving overlap, unless the      *)
(* answer to the creation was lost.                                        *)
THEOREM OneDraftEach == EditorSpec => []OneDraft
<1>1. EditorInit => CreatedInv
  BY DEF EditorInit, CreatedInv, Identified
<1>2. /\ EditorTypeOK /\ EditorInv /\ CreatedInv /\ [EditorNext]_editorVars
      => CreatedInv'
  <2> SUFFICES ASSUME EditorTypeOK, EditorInv, CreatedInv,
                      [EditorNext]_editorVars
               PROVE  CreatedInv'
    OBVIOUS
  <2>1. CASE EditorNext
    <3>1. PICK e \in Editors :
            \/ Open(e) \/ Type(e) \/ TimerFires(e) \/ Persist(e)
            \/ Respond(e) \/ ReloadDraft(e)
            \/ \E tag \in {"issue", "delete"} : Begin(e, tag)
            \/ Check(e) \/ CloseSheet(e) \/ Issue(e) \/ RemoveDraft(e)
            \/ Leave(e) \/ Forget(e)
      BY <2>1 DEF EditorNext
    <3> QED BY <3>1, PageIdentified, SaveIdentified, DoorIdentified
  <2>2. CASE UNCHANGED editorVars
    BY <2>2 DEF editorVars, CreatedInv
  <2> QED BY <2>1, <2>2
<1>3. EditorTypeOK /\ EditorInv /\ CreatedInv => OneDraft
  <2> SUFFICES ASSUME EditorTypeOK, EditorInv, CreatedInv, NEW e \in Editors,
                      ed[e].call = "sent", ed[e].id = 0, created[e] > 0
               PROVE  unheard
    BY DEF OneDraft
  <2>1. Showing(doc, screens[e], ed[e]) /\ Identified(ed[e], created[e], unheard)
    BY DEF EditorInv, EveryoneShowing, CreatedInv
  <2> QED BY <2>1 DEF Showing, Identified
<1>4. EditorSpec => [](EditorTypeOK /\ EditorInv)
  BY EditorStarts, EditorStays, PTL DEF EditorSpec
<1>5. QED
  BY <1>1, <1>2, <1>3, <1>4, PTL DEF EditorSpec

-----------------------------------------------------------------------------
(* SettingsForm and ProfileAutosave.                                        *)


Values == [Fields -> {0, 1}]
Typings == [Fields -> Contents]

(* FormTypeOK, variable by variable.                                       *)
FormTyped ==
  /\ followed \in BOOLEAN
  /\ row \in Values /\ cached \in Values /\ base \in Values
  /\ answer \in Values /\ read \in Values
  /\ typed \in Typings /\ sent \in Typings
  /\ wanted \in [Fields -> Contents \cup {None}]
  /\ saving \in {"none", "sent", "stored", "reading"}
  /\ reading \in {"none", "asked", "read"}
  /\ others \in 0..MaxOthers

LEMMA FormTypes == FormTypeOK <=> FormTyped
BY DEF FormTypeOK, FormTyped, Values, Typings

(* What the backend stores is a content as it normalises them.             *)
LEMMA KeptIsValue == ASSUME NEW vs \in Typings PROVE Kept(vs) \in Values
BY DEF Kept, Stored, Values, Typings, Contents

LEMMA ValuesAreTypings == Values \subseteq Typings /\ Blank \in Values
BY DEF Values, Typings, Contents, Blank

(* The variables of a form have their types.                               *)
THEOREM FormTypeCorrect == FormSpec => []FormTypeOK
<1>1. FormInit => FormTyped
  BY ValuesAreTypings, MaxOthersAssumption DEF FormInit, FormTyped, Nothing,
     None
<1>2. FormTyped /\ [FormNext]_formVars => FormTyped'
  <2> SUFFICES ASSUME FormTyped, [FormNext]_formVars PROVE FormTyped'
    OBVIOUS
  <2> USE ValuesAreTypings
  <2>1. ASSUME NEW f \in Fields, NEW v \in Contents, TypeField(f, v)
        PROVE  FormTyped'
    BY <2>1 DEF TypeField, FormTyped, Typings
  <2>2. CASE CancelForm
    BY <2>2 DEF CancelForm, FormTyped, Nothing
  <2>3. CASE StoreForm
    BY <2>3, KeptIsValue DEF StoreForm, FormTyped
  <2>4. CASE SubmitForm \/ FailSave \/ AnswerSave
    BY <2>4 DEF SubmitForm, FailSave, AnswerSave, FormTyped
  <2>5. CASE FinishSave
    <3>1. typed' \in Typings
      BY <2>5 DEF FinishSave, ResetKeeping, FormTyped, Typings, Values,
         Contents
    <3>2. wanted' \in [Fields -> Contents \cup {None}]
      BY <2>5 DEF FinishSave, FormTyped
    <3>3. QED
      BY <2>5, <3>1, <3>2 DEF FinishSave, ResetKeeping, FormTyped
  <2>6. CASE AskForm \/ ReadForm \/ FailReading
    BY <2>6 DEF AskForm, ReadForm, FailReading, FormTyped
  <2>7. CASE ArriveForm
    <3>1. CASE ResetKeeping(Dirty, read) /\
               wanted' = [f \in Fields |->
                            IF wanted[f] = read[f] THEN None ELSE wanted[f]]
      <4>1. typed' \in Typings /\ base' \in Values
        BY <3>1 DEF ResetKeeping, FormTyped, Typings, Values, Contents
      <4>2. wanted' \in [Fields -> Contents \cup {None}]
        BY <3>1 DEF FormTyped
      <4>3. QED
        BY <2>7, <4>1, <4>2 DEF ArriveForm, FormTyped
    <3>2. CASE UNCHANGED <<base, typed, wanted>>
      BY <2>7, <3>2 DEF ArriveForm, FormTyped
    <3>3. QED
      BY <2>7, <3>1, <3>2 DEF ArriveForm
  <2>8. ASSUME NEW f \in Fields, NEW v \in {0, 1}, OtherDevice(f, v)
        PROVE  FormTyped'
    BY <2>8, MaxOthersAssumption DEF OtherDevice, FormTyped, Values
  <2>9. CASE UNCHANGED formVars
    BY <2>9 DEF formVars, FormTyped
  <2>10. QED
    BY <2>1, <2>2, <2>3, <2>4, <2>5, <2>6, <2>7, <2>8, <2>9 DEF FormNext
<1>3. QED
  BY <1>1, <1>2, FormTypes, PTL DEF FormSpec

(* An edit that is still wanted is shown, and differs from what the form   *)
(* has of the backend: so a reading finds the field edited, and keeps it.  *)
Protected ==
  \A f \in Fields :
    wanted[f] # None => typed[f] = wanted[f] /\ wanted[f] # base[f]

(* Whatever is read, saved or refused meanwhile, and in whatever order,    *)
(* an edit stays in its field until it is saved or given up.               *)
THEOREM EditsAreKept == FormSpec => []TypedIsKept
<1>1. FormInit => Protected
  BY DEF FormInit, Protected, Nothing
<1>2. FormTyped /\ Protected /\ [FormNext]_formVars => Protected'
  <2> SUFFICES ASSUME FormTyped, Protected, [FormNext]_formVars
               PROVE  Protected'
    OBVIOUS
  <2>1. ASSUME NEW f \in Fields, NEW v \in Contents, TypeField(f, v)
        PROVE  Protected'
    BY <2>1 DEF TypeField, Protected, FormTyped, Typings
  <2>2. CASE CancelForm
    BY <2>2 DEF CancelForm, Protected, Nothing
  <2>3. CASE FinishSave
    <3>1. ASSUME NEW f \in Fields, wanted'[f] # None
          PROVE  typed'[f] = wanted'[f] /\ wanted'[f] # base'[f]
      <4>1. wanted'[f] = wanted[f] /\ wanted[f] \notin {sent[f], answer[f]}
        BY <2>3, <3>1 DEF FinishSave
      <4>2. typed[f] = wanted[f]
        BY <3>1, <4>1 DEF Protected
      <4>3. typed'[f] = typed[f] /\ base'[f] = answer[f]
        BY <2>3, <4>1, <4>2 DEF FinishSave, ResetKeeping
      <4>4. QED
        BY <4>1, <4>2, <4>3
    <3>2. QED
      BY <3>1 DEF Protected
  <2>4. CASE ArriveForm
    <3>1. CASE ResetKeeping(Dirty, read) /\
               wanted' = [f \in Fields |->
                            IF wanted[f] = read[f] THEN None ELSE wanted[f]]
      BY <3>1 DEF ResetKeeping, Dirty, Protected
    <3>2. CASE UNCHANGED <<base, typed, wanted>>
      BY <3>2 DEF Protected
    <3>3. QED
      BY <2>4, <3>1, <3>2 DEF ArriveForm
  <2>5. CASE UNCHANGED <<base, typed, wanted>>
    BY <2>5 DEF Protected
  <2>6. QED
    BY <2>1, <2>2, <2>3, <2>4, <2>5 DEF FormNext, SubmitForm, StoreForm,
       FailSave, AnswerSave, AskForm, ReadForm, FailReading, OtherDevice,
       formVars
<1>3. Protected => TypedIsKept
  BY DEF Protected, TypedIsKept
<1>4. QED
  BY <1>1, <1>2, <1>3, FormTypeCorrect, FormTypes, PTL DEF FormSpec

-----------------------------------------------------------------------------
(* The settings of a person *)

Edits(X) == [X -> 1..MaxChoices]
Choices == [Preferences -> 0..MaxChoices]

ProfileTyped ==
  /\ profile \in Choices /\ panel \in Choices /\ chosen \in Choices
  /\ \E X \in SUBSET Preferences : queue \in Edits(X)
  /\ \E X \in SUBSET Preferences : batch \in Edits(X)
  /\ loop \in {"idle", "sent", "written", "reading"}
  /\ choices \in 0..MaxChoices /\ pause \in BOOLEAN

LEMMA ProfileTypes == ProfileTypeOK <=> ProfileTyped
BY DEF ProfileTypeOK, ProfileTyped, Edits, Choices

(* Edits merged with edits are edits; with choices they are choices.       *)
LEMMA MergedEdits ==
  ASSUME NEW X \in SUBSET Preferences, NEW Y \in SUBSET Preferences,
         NEW older \in Edits(X), NEW newer \in Edits(Y)
  PROVE  Merged(older, newer) \in Edits(X \cup Y)
BY DEF Edits, Merged

LEMMA MergedChoices ==
  ASSUME NEW Y \in SUBSET Preferences,
         NEW older \in Choices, NEW newer \in Edits(Y)
  PROVE  Merged(older, newer) \in Choices
BY ChoicesAssumption DEF Edits, Choices, Merged

LEMMA NoEditIsEdits == {} \in SUBSET Preferences /\ NoEdit \in Edits({})
BY DEF Edits, NoEdit

(* What the backend will have once all that waits is written.              *)
Owed(c) ==
  IF c \in DOMAIN queue THEN queue[c]
  ELSE IF c \in DOMAIN batch THEN batch[c] ELSE profile[c]

(* Written edits are the choices of the backend, and nothing but them is   *)
(* written twice when the answer is lost.                                  *)
ProfileInv ==
  /\ \A c \in Preferences : Owed(c) = chosen[c]
  /\ loop = "written" => \A c \in DOMAIN batch : profile[c] = batch[c]
  /\ loop \in {"idle", "reading"} => batch = NoEdit

(* The variables of the settings have their types.                         *)
THEOREM ProfileTypeCorrect == ProfileSpec => []ProfileTypeOK
<1>1. ProfileInit => ProfileTyped
  <2> SUFFICES ASSUME ProfileInit PROVE ProfileTyped
    OBVIOUS
  <2>1. NewProfile \in Choices /\ 0 \in 0..MaxChoices
    BY ChoicesAssumption DEF Choices, NewProfile
  <2>2. QED
    BY <2>1, NoEditIsEdits DEF ProfileInit, ProfileTyped
<1>2. ProfileTyped /\ [ProfileNext]_profileVars => ProfileTyped'
  <2> SUFFICES ASSUME ProfileTyped, [ProfileNext]_profileVars
               PROVE  ProfileTyped'
    OBVIOUS
  <2>1. PICK X \in SUBSET Preferences : queue \in Edits(X)
    BY DEF ProfileTyped
  <2>2. PICK Y \in SUBSET Preferences : batch \in Edits(Y)
    BY DEF ProfileTyped
  <2>3. ASSUME NEW c \in Preferences, Choose(c) PROVE ProfileTyped'
    <3>1. choices' \in 1..MaxChoices
      BY <2>3, ChoicesAssumption DEF Choose, ProfileTyped
    <3>2. [x \in {c} |-> choices'] \in Edits({c})
      BY <3>1 DEF Edits
    <3>3. queue' \in Edits(X \cup {c}) /\ X \cup {c} \in SUBSET Preferences
      BY <2>1, <2>3, <3>2, MergedEdits DEF Choose
    <3>4. panel' \in Choices /\ chosen' \in Choices
      BY <2>3, <3>1 DEF Choose, ProfileTyped, Choices
    <3>5. QED
      BY <2>3, <3>1, <3>3, <3>4 DEF Choose, ProfileTyped
  <2>4. CASE EndPause
    BY <2>4, NoEditIsEdits DEF EndPause, ProfileTyped
  <2>5. CASE WriteProfile
    <3>1. profile' \in Choices
      BY <2>2, <2>5, MergedChoices DEF WriteProfile, ProfileTyped
    <3>2. QED
      BY <2>5, <3>1 DEF WriteProfile, ProfileTyped
  <2>6. CASE NextBatch
    <3>1. panel' \in Choices
      BY <2>1, <2>6, MergedChoices DEF NextBatch, ProfileTyped
    <3>2. QED
      BY <2>6, <3>1, NoEditIsEdits DEF NextBatch, ProfileTyped
  <2>7. CASE FailProfile
    <3>1. queue' \in Edits(Y \cup X) /\ Y \cup X \in SUBSET Preferences
      BY <2>1, <2>2, <2>7, MergedEdits DEF FailProfile
    <3>2. QED
      BY <2>7, <3>1, NoEditIsEdits DEF FailProfile, ProfileTyped
  <2>8. CASE RefuseProfile \/ ReloadProfile
    BY <2>8, NoEditIsEdits DEF RefuseProfile, ReloadProfile, ProfileTyped
  <2>9. CASE UNCHANGED profileVars
    BY <2>9 DEF profileVars, ProfileTyped
  <2>10. QED
    BY <2>3, <2>4, <2>5, <2>6, <2>7, <2>8, <2>9 DEF ProfileNext
<1>3. QED
  BY <1>1, <1>2, ProfileTypes, PTL DEF ProfileSpec

(* However choices, pauses, answers and failures interleave, no choice is  *)
(* lost and none comes back: when nothing waits the backend has the last.  *)
THEOREM LastChoicesAreStored == ProfileSpec => []ChoicesStored
<1>1. ProfileInit => ProfileInv
  BY DEF ProfileInit, ProfileInv, Owed, NoEdit, NewProfile
<1>2. ProfileTyped /\ ProfileInv /\ [ProfileNext]_profileVars => ProfileInv'
  <2> SUFFICES ASSUME ProfileTyped, ProfileInv, [ProfileNext]_profileVars
               PROVE  ProfileInv'
    OBVIOUS
  <2>1. DOMAIN NoEdit = {}
    BY DEF NoEdit
  <2>2. DOMAIN queue \subseteq Preferences /\ DOMAIN batch \subseteq Preferences
    BY DEF ProfileTyped, Edits
  <2>3. ASSUME NEW c \in Preferences, Choose(c) PROVE ProfileInv'
    <3>1. chosen' = [chosen EXCEPT ![c] = choices']
      BY <2>3 DEF Choose
    <3>2. /\ DOMAIN queue' = DOMAIN queue \cup {c} /\ queue'[c] = choices'
          /\ \A d \in DOMAIN queue : d # c => queue'[d] = queue[d]
      <4> DEFINE new == [x \in {c} |-> choices']
      <4>1. DOMAIN new = {c} /\ new[c] = choices'
        OBVIOUS
      <4>2. queue' = Merged(queue, new)
        BY <2>3 DEF Choose
      <4> HIDE DEF new
      <4>3. QED
        BY <4>1, <4>2 DEF Merged
    <3>3. \A d \in Preferences : Owed(d)' = chosen'[d]
      BY <2>3, <3>1, <3>2 DEF Choose, ProfileInv, ProfileTyped, Choices, Owed
    <3>4. QED
      BY <2>3, <3>3 DEF Choose, ProfileInv
  <2>4. CASE EndPause
    BY <2>1, <2>4 DEF EndPause, ProfileInv, Owed
  <2>5. CASE WriteProfile
    <3>1. /\ \A c \in DOMAIN batch : profile'[c] = batch[c]
          /\ \A c \in Preferences \ DOMAIN batch : profile'[c] = profile[c]
      <4>1. DOMAIN profile = Preferences /\ profile' = Merged(profile, batch)
        BY <2>5 DEF WriteProfile, ProfileTyped, Choices
      <4>2. QED
        BY <2>2, <4>1 DEF Merged
    <3>2. QED
      BY <2>5, <3>1 DEF WriteProfile, ProfileInv, Owed
  <2>6. CASE NextBatch
    BY <2>1, <2>6 DEF NextBatch, ProfileInv, Owed
  <2>7. CASE FailProfile
    <3>1. \A c \in Preferences : Owed(c)' = Owed(c)
      BY <2>1, <2>7 DEF FailProfile, Owed, Merged
    <3>2. QED
      BY <2>7, <3>1 DEF FailProfile, ProfileInv
  <2>8. CASE RefuseProfile
    BY <2>1, <2>8 DEF RefuseProfile, ProfileInv, Owed
  <2>9. CASE ReloadProfile
    BY <2>9 DEF ReloadProfile, ProfileInv, Owed
  <2>10. CASE UNCHANGED profileVars
    BY <2>10 DEF profileVars, ProfileInv, Owed
  <2>11. QED
    BY <2>3, <2>4, <2>5, <2>6, <2>7, <2>8, <2>9, <2>10 DEF ProfileNext
<1>3. ProfileTyped /\ ProfileInv => ChoicesStored
  <2> SUFFICES ASSUME ProfileTyped, ProfileInv, queue = NoEdit, loop = "idle"
               PROVE  profile = chosen
    BY DEF ChoicesStored
  <2>1. \A c \in Preferences : profile[c] = chosen[c]
    BY DEF ProfileInv, Owed, NoEdit
  <2>2. QED
    BY <2>1 DEF ProfileTyped, Choices
<1>4. QED
  BY <1>1, <1>2, <1>3, ProfileTypeCorrect, ProfileTypes, PTL DEF ProfileSpec

-----------------------------------------------------------------------------
(* ZakatAutosave.                                                          *)

IsEdits(changes) ==
  /\ DOMAIN changes \in SUBSET Amounts
  /\ changes \in [DOMAIN changes -> 1..edits]

ZakatRequest ==
  /\ request = [state |-> request.state, changes |-> request.changes,
                version |-> request.version, answer |-> request.answer]
  /\ request.state \in {"none", "sent", "written", "conflict", "refused"}
  /\ IsEdits(request.changes) /\ request.version \in Nat
  /\ request.answer \in Sheet

ZakatTyped ==
  /\ sheet \in Sheet /\ page \in Sheet /\ IsEdits(pending) /\ ZakatRequest
  /\ timer \in BOOLEAN /\ excused \in BOOLEAN
  /\ flush \in [Callers -> {"idle", "waiting", "sending"}]
  /\ reload \in {"none", "asked"}
  /\ refresh \in [state : {"none", "asked", "read"}, sheet : Sheet]
  /\ status \in {"saved", "saving", "error"}
  /\ edits \in 0..MaxAmount /\ elsewhere \in 0..MaxElsewhere
  /\ latest \in [Amounts -> 0..edits] /\ sheet.amounts \in [Amounts -> 0..edits]

(* One request at a time; the sheet is only read again after a conflict or *)
(* a refusal.                                                              *)
OneRequest ==
  /\ request.state # "none" => Busy
  /\ reload = "asked" => request.state \in {"conflict", "refused"}

(* While nobody else edits the sheet and no answer of this page was lost   *)
(* or overtaken, the version of the page is that of the backend, whenever  *)
(* a request may start from it; and so is what is being read.              *)
VersionsMeet ==
  elsewhere = 0 /\ ~excused =>
    /\ request.state # "conflict"
    /\ request.state # "written" => page.version = sheet.version
    /\ request.state = "sent" => request.version = sheet.version
    /\ request.state = "written" => request.answer.version = sheet.version
    /\ refresh.state = "read" =>
         \/ refresh.sheet.version = sheet.version
         \/ /\ request.state = "written"
            /\ refresh.sheet.version < request.answer.version

(* The sheet of the backend, with what is sent and what waits, is what was *)
(* last typed; unless a conflict or a refusal is about to be told.         *)
ToBeStored(a) ==
  IF a \in DOMAIN pending THEN pending[a]
  ELSE IF request.state = "sent" /\ a \in DOMAIN request.changes
       THEN request.changes[a]
  ELSE sheet.amounts[a]

LatestWaits ==
  request.state \notin {"conflict", "refused"} \/ reload = "asked" =>
    \A a \in Amounts : latest[a] = ToBeStored(a)

ZakatInv ==
  ZakatTyped /\ OneRequest /\ VersionsMeet /\ LatestWaits /\ NoConflictAlone

LEMMA MergedAt ==
  ASSUME NEW older, NEW newer
  PROVE  /\ DOMAIN Merged(older, newer) = DOMAIN older \cup DOMAIN newer
         /\ \A f \in DOMAIN older \cup DOMAIN newer :
              Merged(older, newer)[f] = IF f \in DOMAIN newer THEN newer[f]
                                        ELSE older[f]
BY DEF Merged

LEMMA NothingToEdit == IsEdits(NoEdit) /\ DOMAIN NoEdit = {}
BY DEF IsEdits, NoEdit

LEMMA MergedIn ==
  ASSUME NEW older, NEW newer, NEW D, D = DOMAIN older \cup DOMAIN newer,
         NEW S, \A f \in D : Merged(older, newer)[f] \in S
  PROVE  Merged(older, newer) \in [D -> S]
<1>1. ASSUME NEW f \in D
      PROVE  (IF f \in DOMAIN newer THEN newer[f] ELSE older[f]) \in S
  <2>1. Merged(older, newer)[f] = IF f \in DOMAIN newer THEN newer[f]
                                  ELSE older[f]
    BY MergedAt
  <2> QED
    BY <2>1
<1>2. Merged(older, newer)
        = [f \in D |-> IF f \in DOMAIN newer THEN newer[f] ELSE older[f]]
  BY DEF Merged
<1> QED
  BY <1>1, <1>2

LEMMA EditsMerge ==
  ASSUME NEW older, NEW newer, IsEdits(older), IsEdits(newer)
  PROVE  IsEdits(Merged(older, newer))
<1> DEFINE D == DOMAIN older \cup DOMAIN newer
<1>1. D \in SUBSET Amounts
  BY DEF IsEdits
<1>2. D = DOMAIN older \cup DOMAIN newer /\ DOMAIN Merged(older, newer) = D
  BY MergedAt
<1>3. ASSUME NEW f \in D PROVE Merged(older, newer)[f] \in 1..edits
  <2>1. Merged(older, newer)[f] = IF f \in DOMAIN newer THEN newer[f]
                                  ELSE older[f]
    BY MergedAt
  <2>2. (IF f \in DOMAIN newer THEN newer[f] ELSE older[f]) \in 1..edits
    BY DEF IsEdits
  <2> QED
    BY <2>1, <2>2
<1> HIDE DEF D
<1>4. Merged(older, newer) \in [D -> 1..edits]
  BY <1>2, <1>3, MergedIn
<1> QED
  BY <1>1, <1>2, <1>4 DEF IsEdits

LEMMA AmountsMerge ==
  ASSUME NEW n \in Nat, NEW amounts \in [Amounts -> 0..n], edits <= n,
         edits \in Nat, NEW changes, IsEdits(changes)
  PROVE  /\ Merged(amounts, changes) \in [Amounts -> 0..n]
         /\ \A a \in Amounts : Merged(amounts, changes)[a] =
              IF a \in DOMAIN changes THEN changes[a] ELSE amounts[a]
<1>1. DOMAIN amounts \cup DOMAIN changes = Amounts
  BY DEF IsEdits
<1>2. ASSUME NEW a \in Amounts
      PROVE  /\ Merged(amounts, changes)[a] =
                  IF a \in DOMAIN changes THEN changes[a] ELSE amounts[a]
             /\ Merged(amounts, changes)[a] \in 0..n
  <2>1. Merged(amounts, changes)[a] =
          IF a \in DOMAIN changes THEN changes[a] ELSE amounts[a]
    BY <1>1, MergedAt
  <2>2. (IF a \in DOMAIN changes THEN changes[a] ELSE amounts[a]) \in 0..n
    BY DEF IsEdits
  <2> QED
    BY <2>1, <2>2
<1>3. Merged(amounts, changes) \in [Amounts -> 0..n]
  BY <1>1, <1>2, MergedIn
<1> QED
  BY <1>2, <1>3

LEMMA AppliedIs ==
  ASSUME NEW s \in Sheet, NEW changes, IsEdits(changes), edits \in 0..MaxAmount
  PROVE  /\ Applied(s, changes) \in Sheet
         /\ Applied(s, changes).version = s.version
         /\ Applied(s, changes).amounts = Merged(s.amounts, changes)
<1>1. Merged(s.amounts, changes) \in [Amounts -> 0..MaxAmount]
  <2>1. s.amounts \in [Amounts -> 0..MaxAmount]
    BY DEF Sheet
  <2>2. MaxAmount \in Nat /\ edits \in Nat /\ edits <= MaxAmount
    BY MaxAmountAssumption
  <2> QED
    BY <2>1, <2>2, AmountsMerge
<1>2. PICK m \in [Amounts -> 0..MaxAmount] : m = Merged(s.amounts, changes)
  BY <1>1
<1>3. Applied(s, changes) = [amounts |-> m, version |-> s.version]
  BY <1>2 DEF Applied, Sheet
<1>4. s.version \in Nat
  BY DEF Sheet
<1> QED
  BY <1>2, <1>3, <1>4 DEF Sheet

LEMMA NewSheetIs ==
  /\ NewSheet \in Sheet /\ NewSheet.version = 1
  /\ NewSheet.amounts = [a \in Amounts |-> 0]
  /\ NoRefresh \in [state : {"none", "asked", "read"}, sheet : Sheet]
  /\ NoRefresh.state = "none" /\ NoRequest.state = "none"
  /\ NoRequest.changes = NoEdit /\ NoRequest.version = 0
  /\ NoRequest.answer = NewSheet
<1>1. NewSheet \in Sheet
  BY MaxAmountAssumption DEF NewSheet, Sheet
<1> QED
  BY <1>1 DEF NewSheet, NoRefresh, NoRequest

LEMMA NoRequestTyped == ASSUME request' = NoRequest PROVE ZakatRequest'
<1>1. IsEdits(NoEdit)'
  BY DEF IsEdits, NoEdit
<1> QED
  BY <1>1, NewSheetIs DEF ZakatRequest, NoRequest

LEMMA ZakatStarts == ZakatInit => ZakatInv
<1> SUFFICES ASSUME ZakatInit PROVE ZakatInv
  OBVIOUS
<1> USE DEF ZakatInit
<1>1. ZakatRequest
  BY NewSheetIs, NothingToEdit DEF ZakatRequest, NoRequest
<1>2. ZakatTyped
  <2>1. /\ flush \in [Callers -> {"idle", "waiting", "sending"}]
        /\ latest \in [Amounts -> 0..edits] /\ latest = sheet.amounts
    BY NewSheetIs
  <2>2. /\ sheet \in Sheet /\ page \in Sheet /\ IsEdits(pending)
        /\ edits \in 0..MaxAmount /\ elsewhere \in 0..MaxElsewhere
        /\ refresh \in [state : {"none", "asked", "read"}, sheet : Sheet]
    BY NewSheetIs, NothingToEdit, MaxAmountAssumption
  <2> QED
    BY <1>1, <2>1, <2>2 DEF ZakatTyped
<1>3. OneRequest /\ VersionsMeet
  BY NewSheetIs DEF OneRequest, VersionsMeet
<1>4. LatestWaits
  BY NewSheetIs, NothingToEdit DEF LatestWaits, ToBeStored
<1> QED
  BY <1>2, <1>3, <1>4 DEF ZakatInv, NoConflictAlone

(* What the invariant needs when the sheet and the edits stay.             *)
LEMMA SameTypes ==
  ASSUME ZakatTyped, UNCHANGED <<sheet, edits, elsewhere>>,
         page' \in Sheet, IsEdits(pending'), ZakatRequest',
         timer' \in BOOLEAN, excused' \in BOOLEAN,
         flush' \in [Callers -> {"idle", "waiting", "sending"}],
         reload' \in {"none", "asked"},
         refresh' \in [state : {"none", "asked", "read"}, sheet : Sheet],
         status' \in {"saved", "saving", "error"},
         latest' \in [Amounts -> 0..edits]
  PROVE  ZakatTyped'
BY DEF ZakatTyped, IsEdits

LEMMA EditStep ==
  ASSUME ZakatInv, NEW a \in Amounts, EditAmount(a) PROVE ZakatInv'
<1> DEFINE e == [x \in {a} |-> edits']
<1>1. ZakatTyped /\ edits' = edits + 1 /\ edits' \in 0..MaxAmount /\ edits \in Nat
      /\ UNCHANGED <<sheet, flush, request, reload, refresh, elsewhere,
                     excused, conflicted>>
  BY MaxAmountAssumption DEF EditAmount, ZakatInv, ZakatTyped
<1>2. /\ page' = Applied(page, e) /\ pending' = Merged(pending, e)
      /\ latest' = [latest EXCEPT ![a] = edits'] /\ status' = "saving"
      /\ timer' = TRUE
  BY DEF EditAmount
<1>3. \A changes : IsEdits(changes) => IsEdits(changes)'
  BY <1>1 DEF IsEdits
<1>4. DOMAIN e = {a} /\ e[a] = edits'
  OBVIOUS
<1> HIDE DEF e
<1>5. page' \in Sheet /\ page'.version = page.version
  <2>1. Merged(page.amounts, e) \in [Amounts -> 0..MaxAmount]
    <3>1. DOMAIN page.amounts \cup DOMAIN e = Amounts
      BY <1>1, <1>4 DEF ZakatTyped, Sheet
    <3>2. ASSUME NEW x \in Amounts
          PROVE  Merged(page.amounts, e)[x] \in 0..MaxAmount
      <4>1. Merged(page.amounts, e)[x]
              = IF x \in DOMAIN e THEN e[x] ELSE page.amounts[x]
        BY <3>1, MergedAt
      <4>2. page.amounts[x] \in 0..MaxAmount
        BY <1>1 DEF ZakatTyped, Sheet
      <4> QED
        BY <1>1, <1>4, <4>1, <4>2
    <3> QED
      BY <3>1, <3>2, MergedIn
  <2>2. PICK m \in [Amounts -> 0..MaxAmount] : m = Merged(page.amounts, e)
    BY <2>1
  <2>3. page' = [amounts |-> m, version |-> page.version]
    BY <1>1, <1>2, <2>2 DEF ZakatTyped, Sheet, Applied
  <2> QED
    BY <1>1, <2>2, <2>3 DEF ZakatTyped, Sheet
<1>6. /\ DOMAIN pending' = DOMAIN pending \cup {a}
      /\ \A x \in DOMAIN pending' :
           pending'[x] = IF x = a THEN edits' ELSE pending[x]
      /\ pending' \in [DOMAIN pending' -> 1..edits']
  <2>1. /\ DOMAIN pending' = DOMAIN pending \cup {a}
        /\ \A x \in DOMAIN pending' :
             pending'[x] = IF x = a THEN edits' ELSE pending[x]
    <3>1. DOMAIN pending' = DOMAIN pending \cup DOMAIN e
      BY <1>2, MergedAt
    <3>2. ASSUME NEW x \in DOMAIN pending'
          PROVE  pending'[x] = IF x = a THEN edits' ELSE pending[x]
      <4>1. pending'[x] = IF x \in DOMAIN e THEN e[x] ELSE pending[x]
        BY <1>2, <3>1, MergedAt
      <4> QED
        BY <1>4, <4>1
    <3> QED
      BY <1>4, <3>1, <3>2
  <2>2. \A x \in DOMAIN pending' : pending'[x] \in 1..edits'
    BY <1>1, <2>1 DEF ZakatTyped, IsEdits
  <2>3. DOMAIN pending' = DOMAIN pending \cup DOMAIN e
    BY <1>4, <2>1
  <2>4. \A x \in DOMAIN pending' : Merged(pending, e)[x] \in 1..edits'
    BY <1>2, <2>2
  <2>5. pending' \in [DOMAIN pending' -> 1..edits']
    BY <1>2, <2>3, <2>4, MergedIn
  <2> QED
    BY <2>1, <2>5
<1>7. IsEdits(pending)'
  BY <1>1, <1>6 DEF IsEdits, ZakatTyped
<1>8. ZakatRequest'
  BY <1>1, <1>3 DEF ZakatTyped, ZakatRequest
<1>9. /\ latest' \in [Amounts -> 0..edits']
      /\ sheet'.amounts \in [Amounts -> 0..edits']
  BY <1>1, <1>2 DEF ZakatTyped
<1>10. ZakatTyped'
  BY <1>1, <1>2, <1>5, <1>7, <1>8, <1>9 DEF ZakatTyped
<1>11. OneRequest' /\ VersionsMeet' /\ NoConflictAlone'
  BY <1>1, <1>5 DEF ZakatInv, OneRequest, Busy, VersionsMeet, NoConflictAlone
<1>12. LatestWaits'
  BY <1>1, <1>2, <1>6 DEF ZakatInv, ZakatTyped, LatestWaits, ToBeStored
<1> QED
  BY <1>10, <1>11, <1>12 DEF ZakatInv

LEMMA CallStep ==
  ASSUME ZakatInv, NEW c \in Callers, CallFlush(c) PROVE ZakatInv'
<1>1. /\ flush' = [flush EXCEPT ![c] = "waiting"] /\ timer' = FALSE
      /\ flush[c] = "idle" /\ ZakatTyped
      /\ UNCHANGED <<sheet, page, pending, request, reload, refresh, status,
                     edits, latest, elsewhere, excused, conflicted>>
  BY DEF CallFlush, ZakatInv
<1>2. flush' \in [Callers -> {"idle", "waiting", "sending"}]
  BY <1>1 DEF ZakatTyped
<1>3. ZakatTyped'
  BY <1>1, <1>2 DEF ZakatTyped, ZakatRequest, IsEdits
<1>4. Busy => Busy'
  BY <1>1 DEF Busy, ZakatTyped
<1>5. OneRequest' /\ VersionsMeet' /\ NoConflictAlone' /\ LatestWaits'
  BY <1>1, <1>4 DEF ZakatInv, OneRequest, VersionsMeet, NoConflictAlone,
     LatestWaits, ToBeStored
<1> QED
  BY <1>3, <1>5 DEF ZakatInv

LEMMA SendStep ==
  ASSUME ZakatInv, NEW c \in Callers, Send(c) PROVE ZakatInv'
<1>1. /\ ZakatTyped /\ request.state = "none" /\ reload = "none"
      /\ flush[c] = "waiting" /\ ~Busy
      /\ UNCHANGED <<sheet, page, timer, reload, refresh, edits, latest,
                     elsewhere, excused, conflicted>>
  BY DEF Send, ZakatInv, OneRequest, ZakatTyped
<1>2. CASE pending = NoEdit
  <2>1. /\ flush' = [flush EXCEPT ![c] = "idle"]
        /\ UNCHANGED <<pending, request, status>>
    BY <1>2 DEF Send
  <2>2. ZakatTyped'
    BY <1>1, <2>1 DEF ZakatTyped, ZakatRequest, IsEdits
  <2>3. OneRequest' /\ VersionsMeet' /\ NoConflictAlone' /\ LatestWaits'
    BY <1>1, <2>1 DEF ZakatInv, OneRequest, VersionsMeet, NoConflictAlone,
       LatestWaits, ToBeStored
  <2> QED
    BY <2>2, <2>3 DEF ZakatInv
<1>3. CASE pending # NoEdit
  <2>1. /\ flush' = [flush EXCEPT ![c] = "sending"]
        /\ request' = [state |-> "sent", changes |-> pending,
                       version |-> page.version, answer |-> NewSheet]
        /\ pending' = NoEdit /\ status' = "saving"
    BY <1>3 DEF Send
  <2>2. /\ request'.state = "sent" /\ request'.changes = pending
        /\ request'.version = page.version /\ request'.answer = NewSheet
    BY <2>1
  <2>3. ZakatRequest'
    BY <1>1, <2>1, <2>2, NewSheetIs DEF ZakatTyped, ZakatRequest, IsEdits, Sheet
  <2>4. IsEdits(pending)'
    BY <2>1 DEF IsEdits, NoEdit
  <2>5. flush' \in [Callers -> {"idle", "waiting", "sending"}]
    BY <1>1, <2>1 DEF ZakatTyped
  <2>6. ZakatTyped'
    BY <1>1, <2>1, <2>3, <2>4, <2>5 DEF ZakatTyped
  <2>7. OneRequest' /\ VersionsMeet' /\ NoConflictAlone'
    BY <1>1, <2>1, <2>2 DEF ZakatInv, ZakatTyped, OneRequest, Busy,
       VersionsMeet, NoConflictAlone
  <2>8. LatestWaits'
    BY <1>1, <2>1, <2>2, NothingToEdit DEF ZakatInv, LatestWaits, ToBeStored
  <2> QED
    BY <2>6, <2>7, <2>8 DEF ZakatInv
<1> QED
  BY <1>2, <1>3

(* The request goes on; what else it changes is the sheet of the backend.  *)
LEMMA WriteStep == ASSUME ZakatInv, WriteSheet PROVE ZakatInv'
<1>1. /\ ZakatTyped /\ request.state = "sent" /\ reload = "none"
      /\ UNCHANGED <<page, pending, timer, flush, reload, refresh, status,
                     edits, latest, elsewhere, excused, conflicted>>
  BY DEF WriteSheet, ZakatInv, OneRequest, ZakatTyped
<1>2. CASE request.version = sheet.version
  <2>1. /\ sheet' = [Applied(sheet, request.changes)
                       EXCEPT !.version = sheet.version + 1]
        /\ request' = [request EXCEPT !.state = "written", !.answer = sheet']
    BY <1>2 DEF WriteSheet
  <2>2. /\ Applied(sheet, request.changes) \in Sheet
        /\ Applied(sheet, request.changes).amounts
             = Merged(sheet.amounts, request.changes)
    BY <1>1, AppliedIs DEF ZakatTyped, ZakatRequest
  <2>3. /\ sheet' \in Sheet /\ sheet'.version = sheet.version + 1
        /\ sheet'.amounts = Merged(sheet.amounts, request.changes)
    BY <1>1, <2>1, <2>2 DEF Sheet, ZakatTyped
  <2>4. /\ sheet'.amounts \in [Amounts -> 0..edits]
        /\ \A a \in Amounts : sheet'.amounts[a] =
             IF a \in DOMAIN request.changes THEN request.changes[a]
             ELSE sheet.amounts[a]
    <3>1. edits \in Nat /\ IsEdits(request.changes)
      BY <1>1, MaxAmountAssumption DEF ZakatTyped, ZakatRequest
    <3>2. sheet.amounts \in [Amounts -> 0..edits]
      BY <1>1 DEF ZakatTyped
    <3> QED
      BY <2>3, <3>1, <3>2, AmountsMerge
  <2>5. /\ request'.state = "written" /\ request'.changes = request.changes
        /\ request'.version = request.version /\ request'.answer = sheet'
        /\ ZakatRequest'
    BY <1>1, <2>1, <2>3 DEF ZakatTyped, ZakatRequest, IsEdits
  <2>6. ZakatTyped'
    BY <1>1, <2>3, <2>4, <2>5 DEF ZakatTyped, IsEdits
  <2>7. sheet.version \in Nat /\ refresh.sheet.version \in Nat
    BY <1>1 DEF ZakatTyped, Sheet
  <2>8. OneRequest' /\ VersionsMeet' /\ NoConflictAlone'
    BY <1>1, <2>3, <2>5, <2>7 DEF ZakatInv, OneRequest, Busy, VersionsMeet,
       NoConflictAlone
  <2>9. LatestWaits'
    BY <1>1, <2>4, <2>5 DEF ZakatInv, LatestWaits, ToBeStored
  <2> QED
    BY <2>6, <2>8, <2>9 DEF ZakatInv
<1>3. CASE request.version # sheet.version
  <2>1. request' = [request EXCEPT !.state = "conflict"] /\ UNCHANGED sheet
    BY <1>3 DEF WriteSheet
  <2>2. request'.state = "conflict" /\ ZakatRequest'
    BY <1>1, <2>1 DEF ZakatTyped, ZakatRequest, IsEdits
  <2>3. ZakatTyped'
    BY <1>1, <2>1, <2>2 DEF ZakatTyped, IsEdits
  <2>4. OneRequest' /\ VersionsMeet' /\ NoConflictAlone' /\ LatestWaits'
    BY <1>1, <1>3, <2>1, <2>2 DEF ZakatInv, OneRequest, Busy, VersionsMeet,
       NoConflictAlone, LatestWaits
  <2> QED
    BY <2>3, <2>4 DEF ZakatInv
<1> QED
  BY <1>2, <1>3

LEMMA RefuseStep == ASSUME ZakatInv, RefuseSheet PROVE ZakatInv'
<1>1. /\ ZakatTyped /\ request.state = "sent" /\ reload = "none"
      /\ request' = [request EXCEPT !.state = "refused"]
      /\ UNCHANGED <<sheet, page, pending, timer, flush, reload, refresh,
                     status, edits, latest, elsewhere, excused, conflicted>>
  BY DEF RefuseSheet, ZakatInv, OneRequest, ZakatTyped
<1>2. request'.state = "refused" /\ ZakatRequest'
  BY <1>1 DEF ZakatTyped, ZakatRequest, IsEdits
<1>3. ZakatTyped'
  BY <1>1, <1>2 DEF ZakatTyped, IsEdits
<1>4. OneRequest' /\ VersionsMeet' /\ NoConflictAlone' /\ LatestWaits'
  BY <1>1, <1>2 DEF ZakatInv, OneRequest, Busy, VersionsMeet,
     NoConflictAlone, LatestWaits
<1> QED
  BY <1>3, <1>4 DEF ZakatInv

LEMMA Returned ==
  ASSUME ZakatTyped, Return
  PROVE  flush' \in [Callers -> {"idle", "waiting", "sending"}]
BY DEF Return, ZakatTyped

LEMMA SavedStep == ASSUME ZakatInv, Saved PROVE ZakatInv'
<1>1. /\ ZakatTyped /\ request.state = "written" /\ reload = "none"
      /\ page' = Applied(request.answer, pending)
      /\ status' \in {"saved", "saving"} /\ request' = NoRequest /\ Return
      /\ excused' = (\/ excused
                     \/ /\ refresh.state = "read"
                        /\ refresh.sheet.version < request.answer.version)
      /\ UNCHANGED <<sheet, pending, timer, reload, refresh, edits, latest,
                     elsewhere, conflicted>>
  BY DEF Saved, ZakatInv, OneRequest, ZakatTyped
<1>2. page' \in Sheet /\ page'.version = request.answer.version
  BY <1>1, AppliedIs DEF ZakatTyped, ZakatRequest
<1>3. ZakatRequest' /\ request'.state = "none"
  BY <1>1, NoRequestTyped, NewSheetIs
<1>4. ZakatTyped'
  BY <1>1, <1>2, <1>3, Returned, SameTypes DEF ZakatTyped
<1>5. OneRequest' /\ VersionsMeet' /\ NoConflictAlone'
  BY <1>1, <1>2, <1>3 DEF ZakatInv, OneRequest, VersionsMeet, NoConflictAlone
<1>6. LatestWaits'
  BY <1>1, <1>3 DEF ZakatInv, LatestWaits, ToBeStored
<1> QED
  BY <1>4, <1>5, <1>6 DEF ZakatInv

LEMMA FailStep == ASSUME ZakatInv, FailSheet PROVE ZakatInv'
<1>1. /\ ZakatTyped /\ request.state \in {"sent", "written"} /\ reload = "none"
      /\ pending' = Merged(request.changes, pending)
      /\ latest' = Merged(latest, pending') /\ status' = "error"
      /\ excused' = (excused \/ request.state = "written")
      /\ request' = NoRequest /\ Return
      /\ UNCHANGED <<sheet, page, timer, reload, refresh, edits, elsewhere,
                     conflicted>>
  BY DEF FailSheet, ZakatInv, OneRequest, ZakatTyped
<1>2. IsEdits(pending')
  BY <1>1, EditsMerge DEF ZakatTyped, ZakatRequest
<1>3. /\ latest' \in [Amounts -> 0..edits]
      /\ \A a \in Amounts : latest'[a] =
           IF a \in DOMAIN pending' THEN pending'[a] ELSE latest[a]
  BY <1>1, <1>2, AmountsMerge, MaxAmountAssumption DEF ZakatTyped
<1>4. ZakatRequest' /\ request'.state = "none"
  BY <1>1, NoRequestTyped, NewSheetIs
<1>5. ZakatTyped'
  BY <1>1, <1>2, <1>3, <1>4, Returned, SameTypes DEF ZakatTyped
<1>6. OneRequest' /\ VersionsMeet' /\ NoConflictAlone'
  BY <1>1, <1>4 DEF ZakatInv, OneRequest, VersionsMeet, NoConflictAlone
<1>7. LatestWaits'
  <2>1. \A a \in Amounts : latest[a] = ToBeStored(a)
    BY <1>1 DEF ZakatInv, LatestWaits
  <2>2. DOMAIN pending' = DOMAIN request.changes \cup DOMAIN pending
    BY <1>1, MergedAt
  <2> QED
    BY <1>1, <1>3, <1>4, <2>1, <2>2 DEF LatestWaits, ToBeStored
<1> QED
  BY <1>5, <1>6, <1>7 DEF ZakatInv

LEMMA GiveUpStep == ASSUME ZakatInv, GiveUp PROVE ZakatInv'
<1>1. /\ ZakatTyped /\ request.state \in {"conflict", "refused"}
      /\ pending' = NoEdit /\ reload' = "asked" /\ latest' = sheet.amounts
      /\ conflicted' = (\/ conflicted
                        \/ request.state = "conflict" /\ elsewhere = 0 /\ ~excused)
      /\ refresh' = NoRefresh
      /\ UNCHANGED <<sheet, page, timer, flush, request, status, edits,
                     elsewhere, excused>>
  BY DEF GiveUp, ZakatInv
<1>2. IsEdits(pending')
  BY <1>1, NothingToEdit
<1>3. ZakatRequest'
  BY <1>1 DEF ZakatTyped, ZakatRequest, IsEdits
<1>4. ZakatTyped'
  BY <1>1, <1>2, <1>3, NewSheetIs, SameTypes DEF ZakatTyped
<1>5. OneRequest' /\ VersionsMeet' /\ NoConflictAlone'
  BY <1>1, NewSheetIs DEF ZakatInv, OneRequest, Busy, VersionsMeet,
     NoConflictAlone
<1>6. LatestWaits'
  BY <1>1, NothingToEdit DEF LatestWaits, ToBeStored
<1> QED
  BY <1>4, <1>5, <1>6 DEF ZakatInv

LEMMA RereadStep == ASSUME ZakatInv, Reload PROVE ZakatInv'
<1>1. /\ ZakatTyped /\ request.state \in {"conflict", "refused"}
      /\ reload = "asked" /\ page' \in {sheet, page}
      /\ reload' = "none" /\ status' = "saved" /\ request' = NoRequest /\ Return
      /\ UNCHANGED <<sheet, pending, timer, refresh, edits, latest, elsewhere,
                     excused, conflicted>>
  BY DEF Reload, ZakatInv, OneRequest
<1>2. ZakatRequest' /\ request'.state = "none"
  BY <1>1, NoRequestTyped, NewSheetIs
<1>3. ZakatTyped'
  BY <1>1, <1>2, Returned, SameTypes DEF ZakatTyped
<1>4. OneRequest' /\ VersionsMeet' /\ NoConflictAlone'
  BY <1>1, <1>2 DEF ZakatInv, OneRequest, VersionsMeet, NoConflictAlone
<1>5. LatestWaits'
  BY <1>1, <1>2 DEF ZakatInv, LatestWaits, ToBeStored
<1> QED
  BY <1>3, <1>4, <1>5 DEF ZakatInv

LEMMA RefreshStep ==
  ASSUME ZakatInv, AskRefresh \/ ReadRefresh \/ ArriveRefresh PROVE ZakatInv'
<1>1. /\ ZakatTyped
      /\ UNCHANGED <<sheet, pending, timer, flush, request, reload, status,
                     edits, latest, elsewhere, excused, conflicted>>
  BY DEF AskRefresh, ReadRefresh, ArriveRefresh, ZakatInv
<1>2. /\ page' \in {page, refresh.sheet}
      /\ page' = page \/ (refresh.state = "read" /\ refresh'.state = "none")
      /\ refresh'.state = "read" =>
           refresh'.sheet.version = sheet.version /\ page' = page
      /\ refresh' \in [state : {"none", "asked", "read"}, sheet : Sheet]
  BY <1>1, NewSheetIs DEF AskRefresh, ReadRefresh, ArriveRefresh, ZakatTyped
<1>3. ZakatRequest'
  BY <1>1 DEF ZakatTyped, ZakatRequest, IsEdits
<1>4. ZakatTyped'
  BY <1>1, <1>2, <1>3, SameTypes DEF ZakatTyped
<1>5. VersionsMeet'
  <2>1. CASE ArriveRefresh
    BY <1>1, <2>1, NewSheetIs DEF ArriveRefresh, ZakatInv, VersionsMeet
  <2>2. CASE AskRefresh \/ ReadRefresh
    BY <1>1, <2>2 DEF AskRefresh, ReadRefresh, ZakatInv, VersionsMeet
  <2> QED
    BY <2>1, <2>2
<1>6. OneRequest' /\ NoConflictAlone' /\ LatestWaits'
  BY <1>1 DEF ZakatInv, OneRequest, Busy, NoConflictAlone, LatestWaits,
     ToBeStored
<1> QED
  BY <1>4, <1>5, <1>6 DEF ZakatInv

LEMMA OtherStep ==
  ASSUME ZakatInv, NEW a \in Amounts, OtherEdit(a) PROVE ZakatInv'
<1>1. /\ ZakatTyped /\ elsewhere' = elsewhere + 1 /\ elsewhere < MaxElsewhere
      /\ sheet' = [sheet EXCEPT !.amounts[a] = 0, !.version = @ + 1]
      /\ latest' = IF \/ a \in DOMAIN pending
                      \/ request.state = "sent" /\ a \in DOMAIN request.changes
                   THEN latest ELSE [latest EXCEPT ![a] = 0]
      /\ UNCHANGED <<page, pending, timer, flush, request, reload, refresh,
                     status, edits, excused, conflicted>>
  BY DEF OtherEdit, ZakatInv
<1>2. elsewhere' \in 0..MaxElsewhere /\ elsewhere' # 0
  BY <1>1, MaxAmountAssumption DEF ZakatTyped
<1>3. sheet'.amounts = [sheet.amounts EXCEPT ![a] = 0]
  BY <1>1 DEF ZakatTyped, Sheet
<1>4. /\ sheet' \in Sheet /\ sheet'.amounts \in [Amounts -> 0..edits]
      /\ \A b \in Amounts :
           sheet'.amounts[b] = IF b = a THEN 0 ELSE sheet.amounts[b]
  <2>1. sheet'.amounts \in [Amounts -> 0..edits]
    BY <1>1, <1>3 DEF ZakatTyped
  <2>2. sheet' \in Sheet
    <3>1. sheet' = [amounts |-> [sheet.amounts EXCEPT ![a] = 0],
                    version |-> sheet.version + 1]
      BY <1>1 DEF ZakatTyped, Sheet
    <3>2. [sheet.amounts EXCEPT ![a] = 0] \in [Amounts -> 0..MaxAmount]
      BY <1>1, MaxAmountAssumption DEF ZakatTyped, Sheet
    <3>3. sheet.version + 1 \in Nat
      BY <1>1 DEF ZakatTyped, Sheet
    <3> QED
      BY <3>1, <3>2, <3>3 DEF Sheet
  <2> QED
    BY <1>1, <1>3, <2>1, <2>2 DEF ZakatTyped
<1>5. latest' \in [Amounts -> 0..edits]
  BY <1>1 DEF ZakatTyped
<1>6. ZakatRequest' /\ IsEdits(pending)'
  BY <1>1 DEF ZakatTyped, ZakatRequest, IsEdits
<1>7. ZakatTyped'
  BY <1>1, <1>2, <1>4, <1>5, <1>6 DEF ZakatTyped
<1>8. OneRequest' /\ VersionsMeet' /\ NoConflictAlone'
  BY <1>1, <1>2 DEF ZakatInv, OneRequest, Busy, VersionsMeet, NoConflictAlone
<1>9. LatestWaits'
  BY <1>1, <1>4 DEF ZakatInv, ZakatTyped, LatestWaits, ToBeStored
<1> QED
  BY <1>7, <1>8, <1>9 DEF ZakatInv

LEMMA ZakatStays == ZakatInv /\ [ZakatNext]_zakatVars => ZakatInv'
<1> SUFFICES ASSUME ZakatInv, [ZakatNext]_zakatVars PROVE ZakatInv'
  OBVIOUS
<1>1. CASE ZakatNext
  BY <1>1, EditStep, OtherStep, CallStep, SendStep, WriteStep, RefuseStep,
     SavedStep, FailStep, GiveUpStep, RereadStep, RefreshStep DEF ZakatNext
<1>2. CASE UNCHANGED zakatVars
  BY <1>2 DEF zakatVars, ZakatInv, ZakatTyped, ZakatRequest, IsEdits,
     OneRequest, Busy, VersionsMeet, LatestWaits, ToBeStored, NoConflictAlone
<1> QED
  BY <1>1, <1>2

LEMMA ZakatInvariance == ZakatSpec => []ZakatInv
BY ZakatStarts, ZakatStays, PTL DEF ZakatSpec

(* The sheet, its edits, its request and its readings keep their form.     *)
THEOREM ZakatTypeCorrect == ZakatSpec => []ZakatTypeOK
<1>1. ZakatInv => ZakatTypeOK
  <2> SUFFICES ASSUME ZakatInv PROVE ZakatTypeOK
    OBVIOUS
  <2>1. ZakatTyped /\ edits <= MaxAmount /\ edits \in Nat /\ conflicted = FALSE
    BY MaxAmountAssumption DEF ZakatInv, ZakatTyped, NoConflictAlone
  <2>2. \E X \in SUBSET Amounts : pending \in [X -> 1..MaxAmount]
    <3>1. pending \in [DOMAIN pending -> 1..MaxAmount]
      BY <2>1, MaxAmountAssumption DEF ZakatTyped, IsEdits
    <3> QED
      BY <2>1, <3>1 DEF ZakatTyped, IsEdits
  <2> QED
    BY <2>1, <2>2 DEF ZakatTyped, ZakatRequest, ZakatTypeOK
<1> QED
  BY <1>1, ZakatInvariance, PTL

(* For any amounts and edits, and however often the sheet is sent again,   *)
(* who fills it alone is never told of a conflict, unless an answer was    *)
(* lost or a reading overtaken.                                            *)
THEOREM NobodyConflictsAlone == ZakatSpec => []NoConflictAlone
<1>1. ZakatInv => NoConflictAlone
  BY DEF ZakatInv
<1> QED
  BY <1>1, ZakatInvariance, PTL

(* For any amounts and edits, whatever failed and was tried again, the     *)
(* backend ends with the last edit of each amount.                         *)
THEOREM LastEditsAreStored == ZakatSpec => []LastEditStored
<1>1. ZakatInv => LastEditStored
  <2> SUFFICES ASSUME ZakatInv, pending = NoEdit, request.state = "none"
               PROVE  sheet.amounts = latest
    BY DEF LastEditStored
  <2>1. \A a \in Amounts : latest[a] = sheet.amounts[a]
    BY NothingToEdit DEF ZakatInv, LatestWaits, ToBeStored
  <2> QED
    BY <2>1 DEF ZakatInv, ZakatTyped
<1> QED
  BY <1>1, ZakatInvariance, PTL

-----------------------------------------------------------------------------
(* Submission.                                                              *)


(* The type invariant in three parts: whether the form is open, what is    *)
(* counted, what was sent.                                                 *)
OpenTyped == visible \in BOOLEAN /\ (visible => opening # 0)

CountsTyped ==
  /\ opening \in Nat /\ opening <= MaxOpenings
  /\ contents \in Nat /\ contents <= MaxContents
  /\ content \in Nat /\ content <= contents
  /\ leaving \in Nat /\ leaving <= MaxOpenings
  /\ endedBy \in Nat /\ endedBy <= MaxOpenings

RecordTyped ==
  /\ form \in DOMAIN FormRows
  /\ sendings \subseteq Sendings
  /\ recorded \in [Inputs -> 0..2] /\ unsure \subseteq Inputs

LEMMA TypeParts ==
  SubmissionTypeOK <=> OpenTyped /\ CountsTyped /\ RecordTyped
BY MaxContentsAssumption, MaxOpeningsAssumption
DEF SubmissionTypeOK, OpenTyped, CountsTyped, RecordTyped

(* The end of a form changes only what is before the eyes, and closes it   *)
(* or leaves it as it is.                                                  *)
LEMMA EndsTyped ==
  ASSUME OpenTyped, CountsTyped, RecordTyped, NEW s \in sendings,
         UNCHANGED <<opening, contents>>,
         EndForm(s) \/ UNCHANGED <<visible, content, leaving, endedBy>>
  PROVE  /\ (visible' = visible \/ visible' = FALSE) /\ content' \in {content, 0}
         /\ leaving' \in {leaving, s.opening}
         /\ endedBy' \in {endedBy, s.opening}
         /\ OpenTyped' /\ CountsTyped'
<1>1. s.opening \in Nat /\ s.opening <= MaxOpenings
  BY MaxOpeningsAssumption DEF RecordTyped, Sendings, Openings
<1>2. Row.ends \in {"at once", "closed", "cleared", "left"}
  BY FormsAssumption DEF Row, Rows, RecordTyped
<1>3. /\ (visible' = visible \/ visible' = FALSE) /\ content' \in {content, 0}
      /\ leaving' \in {leaving, s.opening} /\ endedBy' \in {endedBy, s.opening}
  BY <1>2 DEF EndForm
<1>4. OpenTyped'
  <2>1. CASE visible' = visible
    BY <2>1 DEF OpenTyped
  <2>2. CASE visible' = FALSE
    BY <2>2 DEF OpenTyped
  <2> QED
    BY <1>3, <2>1, <2>2
<1>5. CountsTyped'
  BY <1>1, <1>3 DEF CountsTyped
<1> QED
  BY <1>3, <1>4, <1>5

LEMMA StepTyped ==
  ASSUME SubmissionTypeOK, [SubmissionNext]_submissionVars
  PROVE  SubmissionTypeOK'
<1>0. OpenTyped /\ CountsTyped /\ RecordTyped
  BY TypeParts
<1> SUFFICES OpenTyped' /\ CountsTyped' /\ RecordTyped'
  BY MaxContentsAssumption, MaxOpeningsAssumption
  DEF SubmissionTypeOK, OpenTyped, CountsTyped, RecordTyped
<1> USE MaxContentsAssumption, MaxOpeningsAssumption
<1>1. CASE OpenForm
  <2>1. OpenTyped'
    BY <1>0, <1>1 DEF OpenForm, OpenTyped, CountsTyped
  <2>2. CountsTyped'
    BY <1>0, <1>1 DEF OpenForm, CountsTyped
  <2>3. RecordTyped'
    BY <1>0, <1>1 DEF OpenForm, RecordTyped
  <2> QED
    BY <2>1, <2>2, <2>3
<1>2. CASE PutIn
  <2>1. OpenTyped'
    BY <1>0, <1>2 DEF PutIn, OpenTyped, CountsTyped
  <2>2. CountsTyped'
    BY <1>0, <1>2 DEF PutIn, CountsTyped
  <2>3. RecordTyped'
    BY <1>0, <1>2 DEF PutIn, RecordTyped
  <2> QED
    BY <2>1, <2>2, <2>3
<1>3. CASE Submit
  <2>1. PICK n \in 1..MaxSendings :
          sendings' = sendings \cup
            {[nth |-> n, opening |-> opening, content |-> content,
              at |-> IF Row.checks THEN "checking" ELSE "sent"]}
    BY <1>3 DEF Submit
  <2>2. opening # 0 /\ content # 0
    BY <1>0, <1>3 DEF Submit, OpenTyped
  <2>3. opening \in Openings /\ content \in Inputs
    BY <1>0, <2>2 DEF CountsTyped, Openings, Inputs
  <2>4. (IF Row.checks THEN "checking" ELSE "sent")
          \in {"checking", "sent", "recorded"}
    OBVIOUS
  <2>5. sendings' \subseteq Sendings
    BY <1>0, <2>1, <2>3, <2>4 DEF RecordTyped, Sendings
  <2>6. RecordTyped'
    BY <1>0, <1>3, <2>5 DEF Submit, RecordTyped
  <2>7. OpenTyped'
    BY <1>0, <1>3 DEF Submit, OpenTyped
  <2>8. CountsTyped'
    <3>1. content' = 0 \/ content' = content
      BY <1>3 DEF Submit
    <3> QED
      <4>1. /\ opening' = opening /\ contents' = contents
            /\ leaving' = leaving /\ endedBy' = endedBy
        BY <1>3 DEF Submit
      <4> QED
        BY <1>0, <3>1, <4>1 DEF CountsTyped
  <2> QED
    BY <2>6, <2>7, <2>8
<1>4. CASE CloseForm
  <2>1. OpenTyped'
    BY <1>0, <1>4 DEF CloseForm, OpenTyped, CountsTyped
  <2>2. CountsTyped'
    BY <1>0, <1>4 DEF CloseForm, CountsTyped
  <2>3. RecordTyped'
    BY <1>0, <1>4 DEF CloseForm, RecordTyped
  <2> QED
    BY <2>1, <2>2, <2>3
<1>5. CASE LeavePage
  <2>1. OpenTyped'
    BY <1>0, <1>5 DEF LeavePage, OpenTyped, CountsTyped
  <2>2. CountsTyped'
    BY <1>0, <1>5 DEF LeavePage, CountsTyped
  <2>3. RecordTyped'
    BY <1>0, <1>5 DEF LeavePage, RecordTyped
  <2> QED
    BY <2>1, <2>2, <2>3
<1>6. ASSUME NEW s \in sendings,
             CheckFirst(s) \/ Record(s) \/ Answer(s) \/ FailSending(s)
      PROVE  OpenTyped' /\ CountsTyped' /\ RecordTyped'
  <2>0. s \in Sendings /\ s.content \in Inputs
    BY <1>0 DEF RecordTyped, Sendings
  <2>1. CASE CheckFirst(s)
    <3>1. [s EXCEPT !.at = "sent"] \in Sendings
      BY <2>0 DEF Sendings
    <3> QED
      BY <1>0, <2>1, <3>1 DEF CheckFirst, OpenTyped, CountsTyped, RecordTyped
  <2>2. CASE Record(s)
    <3>1. [s EXCEPT !.at = "recorded"] \in Sendings
      BY <2>0 DEF Sendings
    <3>2. recorded' \in [Inputs -> 0..2]
      BY <1>0, <2>0, <2>2 DEF Record, RecordTyped
    <3> QED
      BY <1>0, <2>2, <3>1, <3>2 DEF Record, OpenTyped, CountsTyped, RecordTyped
  <2>3. CASE Answer(s)
    <3>1. OpenTyped' /\ CountsTyped'
      BY <1>0, <2>3, EndsTyped DEF Answer
    <3> QED
      BY <1>0, <2>3, <3>1 DEF Answer, RecordTyped
  <2>4. CASE FailSending(s)
    <3>1. OpenTyped' /\ CountsTyped'
      BY <1>0, <2>4, EndsTyped DEF FailSending
    <3> QED
      BY <1>0, <2>0, <2>4, <3>1 DEF FailSending, RecordTyped
  <2> QED
    BY <1>6, <2>1, <2>2, <2>3, <2>4
<1>7. CASE UNCHANGED submissionVars
  BY <1>0, <1>7 DEF submissionVars, OpenTyped, CountsTyped, RecordTyped
<1> QED
  BY <1>1, <1>2, <1>3, <1>4, <1>5, <1>6, <1>7 DEF SubmissionNext

LEMMA SubmissionStartsTyped == SubmissionInit => SubmissionTypeOK
<1>1. SubmissionInit => OpenTyped
  BY DEF SubmissionInit, OpenTyped
<1>2. SubmissionInit => RecordTyped
  BY DEF SubmissionInit, RecordTyped
<1>3. SubmissionInit => CountsTyped
  BY MaxContentsAssumption, MaxOpeningsAssumption
  DEF SubmissionInit, CountsTyped
<1> QED
  BY <1>1, <1>2, <1>3, TypeParts

(* Every variable of a form keeps its type.                                *)
THEOREM SubmissionTyped == SubmissionSpec => []SubmissionTypeOK
BY SubmissionStartsTyped, StepTyped, PTL DEF SubmissionSpec

-----------------------------------------------------------------------------
(* What is in the form was put in its last opening, and was not sent by    *)
(* an earlier one; what was not put in yet is not recorded.                *)
OwnContent ==
  /\ content # 0 => visible
  /\ \A s \in sendings :
       /\ s.content <= contents
       /\ s.content = content => s.opening = opening
       /\ ~Row.checks => s.at # "checking"
  /\ \A c \in Inputs : c > contents => recorded[c] = 0

(* Of a form that does not send again, and as long as no answer was lost:  *)
(* a content sent or recorded can only be sent again when its sending has  *)
(* failed before it was recorded.                                          *)
SentOnce ==
  ~SendsAgain =>
    \A c \in Inputs \ unsure :
      /\ recorded[c] \in {0, 1}
      /\ \A s, t \in sendings : s.content = c /\ t.content = c => s = t
      /\ \A s \in sendings : s.content = c /\ s.at = "sent" => recorded[c] = 0
      /\ content = c /\ recorded[c] = 1
           => leaving # 0 \/ \E s \in sendings : s.content = c
      /\ content = c /\ Row.ends = "at once"
           => recorded[c] = 0 /\ \A s \in sendings : s.content # c

LEMMA RowKept ==
  ASSUME [SubmissionNext]_submissionVars
  PROVE  Row' = Row /\ SendsAgain' = SendsAgain /\ HearsLate' = HearsLate
<1>1. form' = form
  BY DEF SubmissionNext, OpenForm, PutIn, Submit, CloseForm, LeavePage,
         CheckFirst, Record, Answer, FailSending, submissionVars
<1> QED
  BY <1>1 DEF Row, SendsAgain, HearsLate

(* A sending that ends leaves the content as it is only when it is not     *)
(* heard, leaves the page, or had closed the form itself.                  *)
LEMMA EndsContent ==
  ASSUME OpenTyped, RecordTyped, NEW s \in sendings,
         IF Heard(s) THEN EndForm(s)
         ELSE UNCHANGED <<visible, content, leaving, endedBy>>
  PROVE  \/ content' = 0
         \/ /\ content' = content /\ visible' = visible
            /\ leaving' # 0 \/ leaving' = leaving
            /\ visible /\ s.opening = opening
                 => leaving' # 0 \/ Row.ends = "at once"
<1>1. Row.ends \in {"at once", "closed", "cleared", "left"}
  BY FormsAssumption DEF Row, Rows, RecordTyped
<1>2. s.opening # 0
  BY DEF RecordTyped, Sendings, Openings
<1>3. CASE ~Heard(s)
  BY <1>3 DEF Heard
<1>4. CASE Heard(s)
  BY <1>1, <1>2, <1>4 DEF EndForm
<1> QED
  BY <1>3, <1>4

LEMMA OwnContentKept ==
  ASSUME SubmissionTypeOK, OwnContent, [SubmissionNext]_submissionVars
  PROVE  OwnContent'
<1>0. OpenTyped /\ CountsTyped /\ RecordTyped
  BY TypeParts
<1>1. Row' = Row
  BY RowKept
<1> USE DEF OwnContent
<1>2. CASE OpenForm
  BY <1>0, <1>1, <1>2 DEF OpenForm, RecordTyped, Sendings, Inputs
<1>3. CASE PutIn
  BY <1>0, <1>1, <1>3 DEF PutIn, RecordTyped, CountsTyped, Sendings, Inputs
<1>4. CASE Submit
  <2>1. PICK n \in 1..MaxSendings :
          sendings' = sendings \cup
            {[nth |-> n, opening |-> opening, content |-> content,
              at |-> IF Row.checks THEN "checking" ELSE "sent"]}
    BY <1>4 DEF Submit
  <2>2. (content' = 0) \/ (content' = content /\ visible' = visible)
    BY <1>4 DEF Submit
  <2>3. /\ opening' = opening /\ contents' = contents /\ recorded' = recorded
        /\ content <= contents
    BY <1>0, <1>4 DEF Submit, CountsTyped
  <2>4. ASSUME NEW s \in sendings'
        PROVE  /\ s.content <= contents'
               /\ s.content = content' => s.opening = opening'
               /\ ~Row.checks => s.at # "checking"
    <3>1. CASE s \in sendings
      <4>1. s.content # 0
        BY <1>0, <3>1 DEF RecordTyped, Sendings, Inputs
      <4> QED
        BY <2>2, <2>3, <3>1, <4>1
    <3>2. CASE s \notin sendings
      <4>1. s = [nth |-> n, opening |-> opening, content |-> content,
                 at |-> IF Row.checks THEN "checking" ELSE "sent"]
        BY <2>1, <3>2
      <4> QED
        BY <2>3, <4>1
    <3> QED
      BY <3>1, <3>2
  <2> QED
    BY <1>1, <2>2, <2>3, <2>4
<1>5. CASE CloseForm
  BY <1>0, <1>1, <1>5 DEF CloseForm, RecordTyped, Sendings, Inputs
<1>6. CASE LeavePage
  BY <1>0, <1>1, <1>6 DEF LeavePage, RecordTyped, Sendings, Inputs
<1>7. ASSUME NEW s \in sendings, CheckFirst(s)
      PROVE  OwnContent'
  <2>1. \A t \in sendings' : \E u \in sendings :
          /\ t.content = u.content /\ t.opening = u.opening
          /\ t.at # "checking" \/ t.at = u.at
    BY <1>0, <1>7 DEF CheckFirst, RecordTyped, Sendings
  <2> QED
    BY <1>1, <1>7, <2>1 DEF CheckFirst
<1>8. ASSUME NEW s \in sendings, Record(s)
      PROVE  OwnContent'
  <2>1. \A t \in sendings' : \E u \in sendings :
          /\ t.content = u.content /\ t.opening = u.opening
          /\ t.at # "checking" \/ t.at = u.at
    BY <1>0, <1>8 DEF Record, RecordTyped, Sendings
  <2>2. \A c \in Inputs : c > contents => recorded'[c] = 0
    <3>1. s.content <= contents /\ s.content \in Inputs
      BY <1>0 DEF RecordTyped, Sendings
    <3>2. \A c \in Inputs : c # s.content => recorded'[c] = recorded[c]
      BY <1>0, <1>8 DEF Record, RecordTyped
    <3> QED
      BY <1>0, <3>1, <3>2 DEF Inputs, CountsTyped
  <2> QED
    BY <1>1, <1>8, <2>1, <2>2 DEF Record
<1>9. ASSUME NEW s \in sendings, Answer(s) \/ FailSending(s)
      PROVE  OwnContent'
  <2>1. /\ sendings' \subseteq sendings /\ recorded' = recorded
        /\ contents' = contents /\ opening' = opening
    BY <1>9 DEF Answer, FailSending
  <2>2. \/ content' = 0
        \/ content' = content /\ visible' = visible
    <3>1. CASE IF Heard(s) THEN EndForm(s)
               ELSE UNCHANGED <<visible, content, leaving, endedBy>>
      BY <1>0, <3>1, EndsContent
    <3>2. CASE UNCHANGED <<visible, content, leaving, endedBy>>
      BY <3>2
    <3> QED
      BY <1>9, <3>1, <3>2 DEF Answer, FailSending
  <2>3. \A t \in sendings : t.content # 0
    BY <1>0 DEF RecordTyped, Sendings, Inputs
  <2> QED
    BY <1>1, <2>1, <2>2, <2>3
<1>10. CASE UNCHANGED submissionVars
  BY <1>1, <1>10 DEF submissionVars
<1> QED
  BY <1>2, <1>3, <1>4, <1>5, <1>6, <1>7, <1>8, <1>9, <1>10
  DEF SubmissionNext

LEMMA SentOnceKept ==
  ASSUME SubmissionTypeOK, OwnContent, SentOnce,
         [SubmissionNext]_submissionVars
  PROVE  SentOnce'
<1>0. OpenTyped /\ CountsTyped /\ RecordTyped
  BY TypeParts
<1>1. Row' = Row /\ SendsAgain' = SendsAgain
  BY RowKept
<1>2. \A s \in sendings : s.content \in Inputs /\ s.content # 0
  BY <1>0 DEF RecordTyped, Sendings, Inputs
<1> SUFFICES ASSUME ~SendsAgain, NEW c \in Inputs, c \notin unsure'
             PROVE  /\ recorded'[c] \in {0, 1}
                    /\ \A s, t \in sendings' :
                         s.content = c /\ t.content = c => s = t
                    /\ \A s \in sendings' :
                         s.content = c /\ s.at = "sent" => recorded'[c] = 0
                    /\ content' = c /\ recorded'[c] = 1
                         => leaving' # 0 \/ \E s \in sendings' : s.content = c
                    /\ content' = c /\ Row.ends = "at once"
                         => /\ recorded'[c] = 0
                            /\ \A s \in sendings' : s.content # c
  BY <1>1 DEF SentOnce
<1>3. c # 0 /\ ~Row.again /\ ~Row.checks
  BY DEF Inputs, SendsAgain
<1>14. c \notin unsure /\ recorded[c] \in {0, 1, 2}
  <2>1. unsure \subseteq unsure'
    BY DEF SubmissionNext, OpenForm, PutIn, Submit, CloseForm, LeavePage,
           CheckFirst, Record, Answer, FailSending, submissionVars
  <2> QED
    BY <1>0, <2>1 DEF RecordTyped
<1>4. /\ recorded[c] \in {0, 1}
      /\ \A s, t \in sendings : s.content = c /\ t.content = c => s = t
      /\ \A s \in sendings : s.content = c /\ s.at = "sent" => recorded[c] = 0
      /\ content = c /\ recorded[c] = 1
           => leaving # 0 \/ \E s \in sendings : s.content = c
      /\ content = c /\ Row.ends = "at once"
           => recorded[c] = 0 /\ \A s \in sendings : s.content # c
  BY <1>14 DEF SentOnce
<1>5. CASE OpenForm
  BY <1>3, <1>4, <1>5 DEF OpenForm
<1>6. CASE PutIn
  <2>1. contents' = contents + 1 /\ content' = contents + 1
    BY <1>6 DEF PutIn
  <2>2. content' = c => recorded[c] = 0 /\ \A s \in sendings : s.content # c
    BY <1>0, <2>1 DEF OwnContent, CountsTyped
  <2>3. recorded' = recorded /\ sendings' = sendings /\ leaving' = leaving
    BY <1>6 DEF PutIn
  <2>4. content' = c => recorded[c] # 1
    BY <2>2
  <2> QED
    BY <1>4, <2>2, <2>3, <2>4
<1>7. CASE Submit
  <2>1. PICK n \in 1..MaxSendings :
          sendings' = sendings \cup
            {[nth |-> n, opening |-> opening, content |-> content,
              at |-> IF Row.checks THEN "checking" ELSE "sent"]}
    BY <1>7 DEF Submit
  <2>2. content = c => \A s \in sendings : s.content # c
    BY <1>3, <1>7 DEF Submit, Sending, OwnContent
  <2>3. content = c => recorded[c] = 0
    <3>1. content = c => recorded[c] # 1
      BY <1>3, <1>4, <1>7, <2>2 DEF Submit
    <3> QED
      BY <1>4, <3>1
  <2>4. /\ recorded' = recorded /\ unsure' = unsure
        /\ content' = content \/ content' = 0
        /\ content' = c => Row.ends # "at once"
    BY <1>3, <1>7 DEF Submit
  <2>5. content' = c => \E s \in sendings' : s.content = c
    <3> DEFINE new == [nth |-> n, opening |-> opening, content |-> content,
                       at |-> IF Row.checks THEN "checking" ELSE "sent"]
    <3>0. new \in sendings' /\ new.content = content
      BY <2>1
    <3> HIDE DEF new
    <3>1. \E s \in sendings' : s.content = content
      BY <3>0
    <3> QED
      BY <1>3, <2>4, <3>1
  <2>6. \A s \in sendings' : s \in sendings \/ s.content = content
    BY <2>1
  <2>7. \A s \in sendings' : s \notin sendings =>
          s = [nth |-> n, opening |-> opening, content |-> content,
               at |-> IF Row.checks THEN "checking" ELSE "sent"]
    BY <2>1
  <2>8. \A s, t \in sendings' : s.content = c /\ t.content = c => s = t
    BY <1>4, <2>2, <2>4, <2>6, <2>7
  <2> QED
    BY <1>4, <2>2, <2>3, <2>4, <2>5, <2>6, <2>8
<1>8. CASE CloseForm
  BY <1>3, <1>4, <1>8 DEF CloseForm
<1>9. CASE LeavePage
  BY <1>3, <1>4, <1>9 DEF LeavePage
<1>10. ASSUME NEW s \in sendings, CheckFirst(s)
       PROVE  FALSE
  BY <1>3, <1>10 DEF CheckFirst, OwnContent
<1>11. CASE \E s \in sendings : Record(s)
  <2>1. PICK s \in sendings : Record(s)
    BY <1>11
  <2> DEFINE there == [s EXCEPT !.at = "recorded"]
  <2>2. /\ there.content = s.content /\ there.at = "recorded"
        /\ sendings' = (sendings \ {s}) \cup {there}
        /\ content' = content /\ leaving' = leaving /\ unsure' = unsure
    BY <1>0, <2>1 DEF Record, RecordTyped, Sendings
  <2>3. c # s.content => recorded'[c] = recorded[c]
    BY <1>0, <2>1 DEF Record, RecordTyped
  <2>4. c = s.content => recorded[c] = 0 /\ recorded'[c] = 1
    <3>1. c = s.content => recorded[c] = 0
      BY <1>4, <2>1, <2>2 DEF Record
    <3> QED
      BY <1>0, <2>1, <3>1 DEF Record, RecordTyped
  <2> HIDE DEF there
  <2>5. CASE c = s.content
    BY <1>4, <2>2, <2>4, <2>5
  <2>6. CASE c # s.content
    BY <1>4, <2>2, <2>3, <2>6
  <2> QED
    BY <2>5, <2>6
<1>12. CASE \E s \in sendings : Answer(s) \/ FailSending(s)
  <2>1. PICK s \in sendings : Answer(s) \/ FailSending(s)
    BY <1>12
  <2>2. /\ sendings' = sendings \ {s} /\ recorded' = recorded
        /\ opening' = opening /\ unsure \subseteq unsure'
    BY <2>1 DEF Answer, FailSending
  <2>4. \/ content' = 0
        \/ content' = content /\ (leaving' # 0 \/ leaving' = leaving)
    <3>1. CASE IF Heard(s) THEN EndForm(s)
               ELSE UNCHANGED <<visible, content, leaving, endedBy>>
      BY <1>0, <3>1, EndsContent
    <3>2. CASE UNCHANGED <<visible, content, leaving, endedBy>>
      BY <3>2
    <3> QED
      BY <2>1, <3>1, <3>2 DEF Answer, FailSending
  <2>5. content' = c /\ recorded[c] = 1 /\ s.content = c => leaving' # 0
    <3>1. CASE Answer(s)
      <4>1. content = c /\ s.content = c => visible /\ s.opening = opening
        BY <1>3 DEF OwnContent
      <4>2. content = c /\ s.content = c => Row.ends # "at once"
        BY <1>4
      <4>3. IF Heard(s) THEN EndForm(s)
            ELSE UNCHANGED <<visible, content, leaving, endedBy>>
        BY <3>1 DEF Answer
      <4> QED
        BY <1>0, <1>3, <4>1, <4>2, <4>3, EndsContent
    <3>2. CASE FailSending(s)
      <4>1. s.content = c => s.at = "sent"
        BY <1>0, <3>2 DEF FailSending, RecordTyped, Sendings
      <4>2. s.content = c => recorded[c] = 0
        BY <1>4, <4>1
      <4>3. recorded[c] = 0 => recorded[c] # 1
        OBVIOUS
      <4> QED
        BY <4>2, <4>3
    <3> QED
      BY <2>1, <3>1, <3>2
  <2>3. CASE s.content = c
    <3>1. \A t \in sendings' : t.content # c
      BY <1>4, <2>2, <2>3
    <3> QED
      BY <1>3, <1>4, <2>2, <2>3, <2>4, <2>5, <3>1
  <2>6. CASE s.content # c
    <3>1. content' = c /\ recorded[c] = 1
            => leaving' # 0 \/ \E t \in sendings' : t.content = c
      BY <1>3, <1>4, <2>2, <2>4, <2>6
    <3>2. content' = c => content = c
      BY <1>3, <2>4
    <3>3. sendings' \subseteq sendings /\ recorded' = recorded
      BY <2>2
    <3> QED
      BY <1>4, <3>1, <3>2, <3>3
  <2> QED
    BY <2>3, <2>6
<1>13. CASE UNCHANGED submissionVars
  BY <1>4, <1>13 DEF submissionVars
<1> QED
  BY <1>5, <1>6, <1>7, <1>8, <1>9, <1>10, <1>11, <1>12, <1>13
  DEF SubmissionNext

(* What the backend does not add, it has once.                             *)
KeptOnce == ~Row.adds => \A c \in Inputs : recorded[c] \in {0, 1}

LEMMA KeptOnceKept ==
  ASSUME SubmissionTypeOK, KeptOnce, [SubmissionNext]_submissionVars
  PROVE  KeptOnce'
<1>1. Row' = Row
  BY RowKept
<1>2. CASE \E s \in sendings : Record(s)
  BY <1>1, <1>2 DEF Record, KeptOnce, SubmissionTypeOK
<1>3. CASE ~\E s \in sendings : Record(s)
  <2>1. recorded' = recorded
    BY <1>3 DEF SubmissionNext, OpenForm, PutIn, Submit, CloseForm, LeavePage,
                CheckFirst, Answer, FailSending, submissionVars
  <2> QED
    BY <1>1, <2>1 DEF KeptOnce
<1> QED
  BY <1>2, <1>3

(* Whatever the form, a content is recorded once unless an answer to it    *)
(* was lost, or the form sends again and the backend adds.                 *)
THEOREM RecordsOnce == SubmissionSpec => []RecordedOnce
<1> DEFINE Inv == SubmissionTypeOK /\ OwnContent /\ SentOnce /\ KeptOnce
<1>1. SubmissionInit => Inv
  BY SubmissionStartsTyped
  DEF SubmissionInit, OwnContent, SentOnce, KeptOnce, Inputs
<1>2. Inv /\ [SubmissionNext]_submissionVars => Inv'
  BY StepTyped, OwnContentKept, SentOnceKept, KeptOnceKept
<1>3. Inv => RecordedOnce
  <2> SUFFICES ASSUME Inv, NEW c \in Inputs, recorded[c] > 1, c \notin unsure
               PROVE  Row.adds /\ SendsAgain
    BY DEF RecordedOnce
  <2>1. recorded[c] \notin {0, 1}
    OBVIOUS
  <2> QED
    BY <2>1 DEF SentOnce, KeptOnce
<1> QED
  BY <1>1, <1>2, <1>3, PTL DEF SubmissionSpec

-----------------------------------------------------------------------------
(* Why an answer finds its own opening: callbacks die with it, or the form *)
(* could not be closed, or not be opened again, before the answer.         *)
Forgotten ==
  ~Row.awaits /\ Row.inside
    => endedBy \in {0, opening} /\ leaving \in {0, opening}

Held ==
  /\ leaving # 0 => Row.ends = "left"
  /\ Row.locked \/ Row.waits
       => /\ endedBy \in {0, opening}
          /\ \A s \in sendings : s.opening = opening /\ s.at # "checking"
  /\ Row.locked => (~visible => sendings = {}) /\ \A s, t \in sendings : s = t

LEMMA HeldRows ==
  ASSUME RecordTyped
  PROVE  /\ Row.locked \/ Row.waits
              => ~Row.checks /\ Row.ends \in {"closed", "cleared"}
         /\ Row.ends = "left" /\ ~Row.again => Row.awaits
         /\ Row.ends \in {"at once", "closed", "cleared", "left"}
BY FormsAssumption, HoldingAssumption DEF RecordTyped, Row, Rows

LEMMA ForgottenKept ==
  ASSUME SubmissionTypeOK, Held, Forgotten, [SubmissionNext]_submissionVars
  PROVE  Forgotten'
<1>0. OpenTyped /\ CountsTyped /\ RecordTyped
  BY TypeParts
<1>1. Row' = Row
  BY RowKept
<1> SUFFICES ASSUME ~Row.awaits, Row.inside
             PROVE  endedBy' \in {0, opening'} /\ leaving' \in {0, opening'}
  BY <1>1 DEF Forgotten
<1>2. endedBy \in {0, opening} /\ leaving \in {0, opening}
  BY DEF Forgotten
<1>3. CASE OpenForm
  <2>1. leaving # 0 => Row.again
    BY <1>0, HeldRows DEF Held
  <2> QED
    BY <1>3, <2>1 DEF OpenForm
<1>4. CASE PutIn
  BY <1>2, <1>4 DEF PutIn
<1>5. CASE Submit
  BY <1>2, <1>5 DEF Submit
<1>6. CASE CloseForm
  BY <1>2, <1>6 DEF CloseForm
<1>7. CASE LeavePage
  BY <1>2, <1>7 DEF LeavePage
<1>8. ASSUME NEW s \in sendings, CheckFirst(s) \/ Record(s)
      PROVE  endedBy' \in {0, opening'} /\ leaving' \in {0, opening'}
  BY <1>2, <1>8 DEF CheckFirst, Record
<1>9. ASSUME NEW s \in sendings, Answer(s) \/ FailSending(s)
      PROVE  endedBy' \in {0, opening'} /\ leaving' \in {0, opening'}
  <2>1. opening' = opening
    BY <1>9 DEF Answer, FailSending
  <2>2. CASE UNCHANGED <<visible, content, leaving, endedBy>>
    BY <1>2, <2>1, <2>2
  <2>3. CASE Heard(s) /\ EndForm(s)
    <3>1. s.opening = opening
      BY <2>3 DEF Heard
    <3> QED
      BY <1>0, <1>2, <2>1, <2>3, <3>1, EndsTyped, <1>9
      DEF Answer, FailSending
  <2> QED
    BY <1>9, <2>2, <2>3 DEF Answer, FailSending
<1>10. CASE UNCHANGED submissionVars
  BY <1>2, <1>10 DEF submissionVars
<1> QED
  BY <1>3, <1>4, <1>5, <1>6, <1>7, <1>8, <1>9, <1>10 DEF SubmissionNext

LEMMA HeldKept ==
  ASSUME SubmissionTypeOK, Held, [SubmissionNext]_submissionVars
  PROVE  Held'
<1>0. OpenTyped /\ CountsTyped /\ RecordTyped
  BY TypeParts
<1>1. Row' = Row
  BY RowKept
<1>2. Row.locked \/ Row.waits
        => ~Row.checks /\ Row.ends \in {"closed", "cleared"} /\ leaving = 0
  BY <1>0, HeldRows DEF Held
<1> USE DEF Held
<1>3. CASE OpenForm
  <2>1. Row.locked \/ Row.waits => sendings = {}
    <3>1. Row.locked => sendings = {}
      BY <1>3 DEF OpenForm
    <3>2. Row.waits => sendings = {}
      BY <1>3 DEF OpenForm, Sending
    <3> QED
      BY <3>1, <3>2
  <2> QED
    BY <1>1, <1>3, <2>1 DEF OpenForm
<1>4. CASE PutIn
  BY <1>1, <1>4 DEF PutIn
<1>5. CASE Submit
  <2>1. PICK n \in 1..MaxSendings :
          sendings' = sendings \cup
            {[nth |-> n, opening |-> opening, content |-> content,
              at |-> IF Row.checks THEN "checking" ELSE "sent"]}
    BY <1>5 DEF Submit
  <2>2. Row.locked \/ Row.waits => sendings = {} /\ visible' = visible
    BY <1>2, <1>5 DEF Submit, Sending
  <2>3. visible /\ UNCHANGED <<opening, leaving, endedBy>>
    BY <1>5 DEF Submit
  <2>4. ASSUME Row.locked \/ Row.waits
        PROVE  /\ \A s \in sendings' : s.opening = opening /\ s.at # "checking"
               /\ \A s, t \in sendings' : s = t
    BY <1>2, <2>1, <2>2, <2>4
  <2> QED
    BY <1>1, <2>2, <2>3, <2>4
<1>6. CASE CloseForm
  <2>1. Row.locked => sendings = {}
    BY <1>6 DEF CloseForm, Sending
  <2> QED
    BY <1>1, <1>6, <2>1 DEF CloseForm
<1>7. CASE LeavePage
  BY <1>1, <1>2, <1>7 DEF LeavePage
<1>8. ASSUME NEW s \in sendings, CheckFirst(s)
      PROVE  Held'
  <2>1. ~(Row.locked \/ Row.waits)
    BY <1>8 DEF CheckFirst
  <2> QED
    BY <1>1, <1>8, <2>1 DEF CheckFirst
<1>9. ASSUME NEW s \in sendings, Record(s)
      PROVE  Held'
  <2> DEFINE there == [s EXCEPT !.at = "recorded"]
  <2>1. /\ sendings' = (sendings \ {s}) \cup {there}
        /\ there.opening = s.opening /\ there.at = "recorded"
    BY <1>0, <1>9 DEF Record, RecordTyped, Sendings
  <2>2. UNCHANGED <<visible, opening, leaving, endedBy>>
    BY <1>9 DEF Record
  <2> HIDE DEF there
  <2>3. Row.locked \/ Row.waits =>
          \A t \in sendings' : t.opening = opening /\ t.at # "checking"
    BY <2>1
  <2>4. Row.locked => \A t, u \in sendings' : t = u
    BY <2>1
  <2> QED
    BY <1>1, <2>2, <2>3, <2>4
<1>10. ASSUME NEW s \in sendings, Answer(s) \/ FailSending(s)
       PROVE  Held'
  <2>1. sendings' = sendings \ {s} /\ opening' = opening
    BY <1>10 DEF Answer, FailSending
  <2>2. Row.locked => sendings' = {}
    BY <2>1
  <2>3. CASE UNCHANGED <<visible, content, leaving, endedBy>>
    BY <1>1, <2>1, <2>2, <2>3
  <2>4. CASE EndForm(s)
    <3>1. leaving' # 0 => Row.ends = "left"
      BY <1>0, <2>4, HeldRows DEF EndForm
    <3>2. endedBy' \in {endedBy, s.opening}
      BY <1>0, <1>10, <2>4, EndsTyped DEF Answer, FailSending
    <3> QED
      BY <1>1, <2>1, <2>2, <3>1, <3>2
  <2> QED
    BY <1>10, <2>3, <2>4 DEF Answer, FailSending
<1>11. CASE UNCHANGED submissionVars
  BY <1>1, <1>11 DEF submissionVars
<1> QED
  BY <1>3, <1>4, <1>5, <1>6, <1>7, <1>8, <1>9, <1>10, <1>11
  DEF SubmissionNext

(* A form that cannot hear late is only ended by the answer to what was    *)
(* sent since it was opened.                                               *)
THEOREM EndsItself == SubmissionSpec => []EndedByItsOwn
<1> DEFINE Inv == SubmissionTypeOK /\ Held /\ Forgotten
<1>1. SubmissionInit => Inv
  BY SubmissionStartsTyped DEF SubmissionInit, Held, Forgotten
<1>2. Inv /\ [SubmissionNext]_submissionVars => Inv'
  BY StepTyped, HeldKept, ForgottenKept
<1>3. Inv => EndedByItsOwn
  BY DEF EndedByItsOwn, HearsLate, Held, Forgotten
<1> QED
  BY <1>1, <1>2, <1>3, PTL DEF SubmissionSpec
=============================================================================
