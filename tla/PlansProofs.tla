---------------------------- MODULE PlansProofs ----------------------------
(***************************************************************************)
(* Proofs about the parts of the system that are about a shop's plan, each *)
(* for any requests, workers, pages and limits.                            *)
(***************************************************************************)
EXTENDS MCPlans, FiniteSetTheorems, TLAPS

----------------------------------------------------------------------------
(* OrderCreation.  With a limit, the shop's lock is held by one request at *)
(* a time, from its count to its commit; meanwhile no other order is       *)
(* committed, and a month that begins is empty.                            *)

CreationHolds(c) == pc[c] \in {"number", "found", "insert", "inserted"}
CreatedIn(m) == {o \in orders : o.created = m}

LimitInv ==
  /\ CreationTypeOK
  /\ IsFiniteSet(orders) /\ \A o \in orders : o.created <= month
  /\ \A c \in Creators : \A o \in inserted[c] :
       pc[c] = "inserted" /\ inserted[c] = {o} /\ o.created <= month
  /\ limit # NoLimit =>
       /\ \A c, d \in Creators : CreationHolds(c) /\ CreationHolds(d) => c = d
       /\ \A c \in Creators : CreationHolds(c) =>
            Cardinality(CreatedIn(month)) < limit
       /\ \A c \in Creators : \A o \in inserted[c] :
            Cardinality(CreatedIn(o.created)) < limit
  /\ WithinLimit

LEMMA YearsGrow ==
  ASSUME NEW m \in 0..MaxMonth PROVE Year(m) \in 0..Year(MaxMonth)
BY MonthAssumption DEF Year

LEMMA CreatedInFinite ==
  ASSUME IsFiniteSet(orders), NEW m
  PROVE  IsFiniteSet(CreatedIn(m)) /\ Cardinality(CreatedIn(m)) \in Nat
<1>1. CreatedIn(m) \subseteq orders
  BY DEF CreatedIn
<1> QED
  BY <1>1, FS_Subset, FS_CardinalityType

LEMMA LimitStarts == CreationInit => LimitInv
<1> SUFFICES ASSUME CreationInit PROVE LimitInv
  OBVIOUS
<1>1. CreationTypeOK
  BY MonthAssumption, YearsGrow DEF CreationInit, CreationTypeOK
<1>2. IsFiniteSet(orders) /\ Cardinality({}) = 0
  BY FS_EmptySet DEF CreationInit
<1>3. \A m : {o \in orders : o.created = m} = {}
  BY DEF CreationInit
<1>4. WithinLimit
  BY <1>2, <1>3, LimitAssumption DEF WithinLimit, CreationInit
<1> QED
  BY <1>1, <1>2, <1>4 DEF LimitInv, CreationInit, CreationHolds

(* A step that commits nothing and takes no lock.                          *)
LEMMA LimitQuiet ==
  ASSUME LimitInv, CreationTypeOK', UNCHANGED <<limit, orders, month>>,
         NEW c \in Creators, pc' = [pc EXCEPT ![c] = pc'[c]],
         CreationHolds(c)' /\ limit # NoLimit => CreationHolds(c),
         inserted' = [inserted EXCEPT ![c] = inserted'[c]],
         \A o \in inserted'[c] :
           /\ pc'[c] = "inserted" /\ inserted'[c] = {o} /\ o.created <= month
           /\ limit # NoLimit => Cardinality(CreatedIn(o.created)) < limit
  PROVE  LimitInv'
<1>1. \A d \in Creators : d # c => pc'[d] = pc[d] /\ inserted'[d] = inserted[d]
  BY DEF LimitInv, CreationTypeOK
<1>2. \A m : CreatedIn(m)' = CreatedIn(m)
  BY DEF CreatedIn
<1>3. \A d \in Creators : \A o \in inserted'[d] :
        /\ pc'[d] = "inserted" /\ inserted'[d] = {o} /\ o.created <= month
        /\ limit # NoLimit => Cardinality(CreatedIn(o.created)) < limit
  BY <1>1 DEF LimitInv
<1>4. limit # NoLimit => \A d \in Creators : CreationHolds(d)' => CreationHolds(d)
  BY <1>1 DEF CreationHolds
<1>5. WithinLimit'
  BY DEF LimitInv, WithinLimit
<1> QED
  BY <1>2, <1>3, <1>4, <1>5 DEF LimitInv

LEMMA LimitStays == LimitInv /\ [CreationNext]_creationVars => LimitInv'
<1> SUFFICES ASSUME LimitInv, [CreationNext]_creationVars PROVE LimitInv'
  OBVIOUS
<1> USE DEF LimitInv
<1>0. CreationTypeOK'
  <2> USE MonthAssumption DEF CreationTypeOK
  <2>1. ASSUME NEW c \in Creators, FindLast(c) PROVE CreationTypeOK'
    <3>1. PICK n \in NumbersOf(Year(month)) \cup {0} : last' = [last EXCEPT ![c] = n]
      BY <2>1 DEF FindLast
    <3>2. n \in Nat /\ Year(month) \in 0..Year(MaxMonth)
      BY YearsGrow DEF NumbersOf, Order
    <3> QED
      BY <2>1, <3>1, <3>2 DEF FindLast, CreationRunning
  <2>2. ASSUME NEW c \in Creators, Insert(c) PROVE CreationTypeOK'
    <3>1. OrderRow(c) \in Order
      BY DEF OrderRow, Order
    <3> QED
      BY <2>2, <3>1 DEF Insert, CreationRunning
  <2>3. ASSUME NEW c \in Creators, Commit(c) \/ RollBack(c) PROVE CreationTypeOK'
    BY <2>3 DEF Commit, RollBack, CreationEnded
  <2>4. ASSUME NEW c \in Creators,
               Begin(c) \/ PassLimit(c) \/ RefuseOverLimit(c) \/ LockLast(c)
                 \/ RefuseDuplicate(c)
        PROVE  CreationTypeOK'
    BY <2>4 DEF Begin, PassLimit, RefuseOverLimit, LockLast, RefuseDuplicate,
       CreationRunning, CreationEnded
  <2>5. CASE NewMonth
    BY <2>5 DEF NewMonth
  <2>6. CASE UNCHANGED creationVars
    BY <2>6 DEF creationVars
  <2> QED
    BY <2>1, <2>2, <2>3, <2>4, <2>5, <2>6 DEF CreationNext, CreationStep
<1>1. CASE NewMonth
  <2>1. month' = month + 1 /\ UNCHANGED <<limit, orders, pc, inserted>> /\ month \in Nat
    BY <1>1 DEF NewMonth, CreationTypeOK
  <2>2. CreatedIn(month') = {} /\ Cardinality({}) = 0
    BY <2>1, FS_EmptySet DEF CreatedIn, CreationTypeOK, Order
  <2>3. \A m : CreatedIn(m)' = CreatedIn(m)
    BY <2>1 DEF CreatedIn
  <2>4. \A c \in Creators : limit # NoLimit /\ CreationHolds(c) => 0 < limit
    BY CreatedInFinite, LimitAssumption DEF CreationTypeOK
  <2>5. WithinLimit'
    BY <2>1 DEF WithinLimit
  <2>6. \A o \in orders : o.created <= month'
    BY <2>1 DEF CreationTypeOK, Order
  <2>7. \A c \in Creators : \A o \in inserted[c] : o.created <= month'
    BY <2>1 DEF CreationTypeOK, Order
  <2>8. limit # NoLimit => \A c \in Creators : CreationHolds(c)' =>
          Cardinality(CreatedIn(month))' < limit
    BY <2>1, <2>2, <2>3, <2>4 DEF CreationHolds, CreatedIn
  <2> QED
    BY <1>0, <2>1, <2>3, <2>5, <2>6, <2>7, <2>8 DEF CreationHolds
<1>2. ASSUME NEW c \in Creators, Begin(c) PROVE LimitInv'
  <2>1. /\ pc' = [pc EXCEPT ![c] = pc'[c]] /\ inserted' = [inserted EXCEPT ![c] = inserted'[c]]
        /\ limit # NoLimit => pc'[c] = "limit"
        /\ inserted'[c] = {} /\ UNCHANGED <<limit, orders, month>>
    BY <1>2 DEF Begin, CreationTypeOK
  <2> QED
    BY <1>0, <2>1, LimitQuiet DEF CreationHolds
<1>3. ASSUME NEW c \in Creators, PassLimit(c) PROVE LimitInv'
  <2>1. /\ ShopFree /\ ~OverLimit /\ pc[c] = "limit" /\ pc' = [pc EXCEPT ![c] = "number"]
        /\ UNCHANGED <<limit, orders, month, inserted>>
    BY <1>3 DEF PassLimit
  <2>2. limit # NoLimit => Cardinality(CreatedIn(month)) < limit
    <3>1. OverLimit <=> Cardinality(CreatedIn(month)) >= limit
      BY DEF OverLimit, CreatedIn
    <3>2. Cardinality(CreatedIn(month)) \in Nat /\ (limit # NoLimit => limit \in Nat)
      BY CreatedInFinite, LimitAssumption DEF CreationTypeOK
    <3> QED
      BY <2>1, <3>1, <3>2
  <2>3. \A m : CreatedIn(m)' = CreatedIn(m)
    BY <2>1 DEF CreatedIn
  <2>4. \A d \in Creators : pc'[d] = IF d = c THEN "number" ELSE pc[d]
    BY <2>1 DEF CreationTypeOK
  <2>5. limit # NoLimit => \A d \in Creators : ~CreationHolds(d)
    BY <2>1 DEF ShopFree, CreationHolds
  <2>6. \A d \in Creators : \A o \in inserted[d] : d # c
    BY <2>1
  <2>7. WithinLimit'
    BY <2>1 DEF WithinLimit
  <2> QED
    BY <1>0, <2>1, <2>2, <2>3, <2>4, <2>5, <2>6, <2>7 DEF CreationHolds
<1>4. ASSUME NEW c \in Creators,
             RefuseOverLimit(c) \/ FindLast(c) \/ LockLast(c) \/ RefuseDuplicate(c)
      PROVE  LimitInv'
  BY <1>0, <1>4, LimitQuiet DEF RefuseOverLimit, FindLast, LockLast, RefuseDuplicate,
     CreationHolds, CreationTypeOK
<1>5. ASSUME NEW c \in Creators, RollBack(c) PROVE LimitInv'
  BY <1>0, <1>5, LimitQuiet DEF RollBack, CreationHolds, CreationTypeOK
<1>6. ASSUME NEW c \in Creators, Insert(c) PROVE LimitInv'
  <2>1. OrderRow(c).created = month
    BY DEF OrderRow
  <2> QED
    <3>1. /\ pc[c] = "insert" /\ pc' = [pc EXCEPT ![c] = "inserted"]
          /\ inserted' = [inserted EXCEPT ![c] = {OrderRow(c)}]
          /\ UNCHANGED <<limit, orders, month>>
      BY <1>6 DEF Insert
    <3>2. /\ pc'[c] = "inserted" /\ inserted'[c] = {OrderRow(c)}
          /\ pc' = [pc EXCEPT ![c] = pc'[c]] /\ inserted' = [inserted EXCEPT ![c] = inserted'[c]]
      BY <3>1 DEF CreationTypeOK
    <3>3. month \in Int /\ (limit # NoLimit => Cardinality(CreatedIn(month)) < limit)
      BY <3>1 DEF CreationHolds, CreationTypeOK
    <3>4. CreationHolds(c)
      BY <3>1 DEF CreationHolds
    <3>5. \A o \in inserted'[c] :
            /\ pc'[c] = "inserted" /\ inserted'[c] = {o} /\ o.created <= month
            /\ limit # NoLimit => Cardinality(CreatedIn(o.created)) < limit
      BY <2>1, <3>2, <3>3
    <3> HIDE DEF LimitInv
    <3> QED
      BY <1>0, <3>1, <3>2, <3>4, <3>5, LimitQuiet
<1>7. ASSUME NEW c \in Creators, Commit(c) PROVE LimitInv'
  <2>1. /\ pc[c] = "inserted" /\ pc' = [pc EXCEPT ![c] = "done"]
        /\ orders' = orders \cup inserted[c] /\ inserted' = [inserted EXCEPT ![c] = {}]
        /\ UNCHANGED <<limit, month>>
    BY <1>7 DEF Commit
  <2>2. CASE inserted[c] = {}
    BY <1>0, <2>1, <2>2, LimitQuiet DEF CreationHolds, CreationTypeOK
  <2>3. CASE inserted[c] # {}
    <3>1. PICK o \in inserted[c] : inserted[c] = {o}
      BY <2>3
    <3>2. o.created <= month /\ o \in Order
      BY <3>1 DEF CreationTypeOK
    <3>3. IsFiniteSet(orders') /\ \A p \in orders' : p.created <= month
      BY <2>1, <3>1, <3>2, FS_AddElement
    <3>4. \A d \in Creators : d # c =>
            pc'[d] = pc[d] /\ inserted'[d] = inserted[d]
      BY <2>1 DEF CreationTypeOK
    <3>5. pc'[c] = "done" /\ inserted'[c] = {}
      BY <2>1 DEF CreationTypeOK
    <3>6. limit # NoLimit => \A d \in Creators : ~CreationHolds(d)'
      BY <2>1, <3>4, <3>5 DEF CreationHolds
    <3>7. limit # NoLimit => \A d \in Creators : inserted'[d] = {}
      BY <2>1, <3>4, <3>5 DEF CreationHolds
    <3>8. limit # NoLimit => \A m \in 0..MaxMonth : Cardinality(CreatedIn(m)') <= limit
      <4> SUFFICES ASSUME limit # NoLimit, NEW m \in 0..MaxMonth
                   PROVE  Cardinality(CreatedIn(m)') <= limit
        OBVIOUS
      <4>1. CASE m = o.created
        <5>1. CreatedIn(m)' = CreatedIn(m) \cup {o}
          BY <2>1, <3>1, <4>1 DEF CreatedIn
        <5>2. Cardinality(CreatedIn(m)) < limit
          BY <4>1
        <5>3. Cardinality(CreatedIn(m) \cup {o}) \in
                {Cardinality(CreatedIn(m)), Cardinality(CreatedIn(m)) + 1}
          BY CreatedInFinite, FS_AddElement
        <5> QED
          BY <5>1, <5>2, <5>3, CreatedInFinite, LimitAssumption DEF CreationTypeOK
      <4>2. CASE m # o.created
        <5>1. CreatedIn(m)' = CreatedIn(m)
          BY <2>1, <3>1, <4>2 DEF CreatedIn
        <5> QED
          BY <5>1 DEF WithinLimit, CreatedIn
      <4> QED
        BY <4>1, <4>2
    <3>9. WithinLimit'
      BY <2>1, <3>8 DEF WithinLimit, CreatedIn
    <3>10. \A d \in Creators : \A p \in inserted'[d] :
             pc'[d] = "inserted" /\ inserted'[d] = {p} /\ p.created <= month'
      BY <2>1, <3>4, <3>5
    <3> QED
      BY <1>0, <2>1, <3>3, <3>6, <3>7, <3>9, <3>10
  <2> QED
    BY <2>2, <2>3
<1>8. CASE UNCHANGED creationVars
  BY <1>8 DEF creationVars, CreationTypeOK, CreationHolds, CreatedIn, WithinLimit
<1> QED
  BY <1>1, <1>2, <1>3, <1>4, <1>5, <1>6, <1>7, <1>8 DEF CreationNext, CreationStep

(* Every request to create an order keeps the types, whatever the plan.    *)
THEOREM CreationTypeCorrect == CreationSpec => []CreationTypeOK
<1>1. LimitInv => CreationTypeOK
  BY DEF LimitInv
<1> QED
  BY <1>1, LimitStarts, LimitStays, PTL DEF CreationSpec

(* However many devices create orders at once, and whatever month begins   *)
(* while they do, a month never has more orders than the plan allows       *)
(* (_lock_shop, enforce_orders_per_month_limit).                           *)
THEOREM MonthsStayWithinLimit == CreationSpec => []WithinLimit
<1>1. LimitInv => WithinLimit
  BY DEF LimitInv
<1> QED
  BY <1>1, LimitStarts, LimitStays, PTL DEF CreationSpec

----------------------------------------------------------------------------
(* Arrears.                                                                *)

ArrearsSpec == ArrearsInit /\ [][ArrearsNext]_arrearsVars

(* No arrears but those the row has had are known to a worker or told.     *)
ArrearsKnown ==
  /\ account.since <= spells /\ account.ending <= spells
  /\ account.status = "free" => account.since = 0
  /\ \A s \in 1..MaxSpells, t \in Stages : told[s][t] # 0 => s <= spells
  /\ \A w \in Tasks :
       /\ tasks[w].since <= spells
       /\ ~At(w, "rest") => tasks[w].since # 0
       /\ At(w, "claim") \/ At(w, "send") =>
            tasks[w].from < tasks[w].stage /\ tasks[w].stage < LastStage

(* A worker that sends has claimed the stages after the one it read, up to *)
(* its own: no other worker has claimed one of them and none was told.     *)
Claims(w, s, t) ==
  At(w, "send") /\ tasks[w].since = s /\ tasks[w].from < t /\ t <= tasks[w].stage

RemindersApart ==
  /\ \A w \in Tasks, t \in 1..(LastStage - 1) :
       Claims(w, account.since, t) => t <= account.reminded
  /\ \A w, v \in Tasks, s \in 1..MaxSpells, t \in 1..(LastStage - 1) :
       Claims(w, s, t) /\ Claims(v, s, t) => w = v
  /\ \A s \in 1..MaxSpells, t \in 1..(LastStage - 1) : told[s][t] # 0 =>
       /\ s = account.since => t <= account.reminded
       /\ \A w \in Tasks : ~Claims(w, s, t)

(* The end of an arrears is marked on the row, or being told by one        *)
(* worker, or told; and it is told once the arrears are over.              *)
Telling(w, s) == At(w, "tell") /\ tasks[w].since = s

EndsApart ==
  /\ \A w, v \in Tasks, s \in 1..MaxSpells : Telling(w, s) /\ Telling(v, s) => w = v
  /\ \A w \in Tasks, s \in 1..MaxSpells : Telling(w, s) =>
       told[s][LastStage] = 0 /\ account.ending # s /\ account.since # s
  /\ \A s \in 1..MaxSpells : told[s][LastStage] # 0 =>
       account.ending # s /\ account.since # s

ArrearsInv ==
  ArrearsTypeOK /\ ArrearsKnown /\ RemindersApart /\ EndsApart /\ ToldOnce

LEMMA ArrearsStarts == ArrearsInit => ArrearsInv
<1> SUFFICES ASSUME ArrearsInit PROVE ArrearsInv
  OBVIOUS
<1> USE ArrearsAssumption DEF ArrearsInit
<1>1. ArrearsTypeOK
  BY DEF ArrearsTypeOK, Accounts, Reminded, TaskStates, Idle
<1>2. \A s \in 1..MaxSpells, t \in Stages : told[s][t] = 0
  OBVIOUS
<1>3. \A w \in Tasks : At(w, "rest") /\ tasks[w].since = 0
  BY DEF At, Idle
<1>4. ArrearsKnown
  BY <1>2, <1>3 DEF ArrearsKnown, At
<1>5. RemindersApart /\ EndsApart
  <2>1. \A t \in 1..(LastStage - 1) : t \in Stages
    BY DEF Stages
  <2>2. LastStage \in Stages
    BY DEF Stages
  <2> QED
    BY <1>2, <1>3, <2>1, <2>2 DEF RemindersApart, EndsApart, Claims, Telling, At
<1>6. ToldOnce
  BY <1>2 DEF ToldOnce
<1> QED
  BY <1>1, <1>4, <1>5, <1>6 DEF ArrearsInv

(* What a copy of the subscription does to the row.                        *)
LEMMA CopiesTyped ==
  ASSUME ArrearsTypeOK, account.since <= spells, NEW status \in Found, CopyAccount(status)
  PROVE  /\ account' \in Accounts /\ stage' \in 0..LastStage /\ spells' \in 0..MaxSpells
         /\ spells <= spells'
         /\ \/ account'.since = account.since /\ account'.reminded = account.reminded
               /\ spells' = spells
            \/ account'.since = 0 /\ spells' = spells
            \/ account'.since = spells + 1 /\ spells' = spells + 1
         /\ account'.ending \in {0, account.ending}
         /\ account'.status = "free" => account'.since = 0 \/ account.status = "free"
<1> USE ArrearsAssumption
<1>1. account \in Accounts /\ spells \in Nat /\ stage \in 0..LastStage /\ spells <= MaxSpells
  BY DEF ArrearsTypeOK
<1>2. account' = Copying(status)
  BY DEF CopyAccount
<1>3. CASE status = "canceled" /\ account.linked
  <2>1. account' = [account EXCEPT !.status = "free", !.linked = FALSE, !.since = 0,
                                   !.reminded = 0]
    BY <1>2, <1>3 DEF Copying
  <2>2. account' = [status |-> "free", linked |-> FALSE, since |-> 0, reminded |-> 0,
                    ending |-> account.ending]
    BY <1>1, <2>1 DEF Accounts
  <2>3. /\ account'.status = "free" /\ account'.since = 0
        /\ account'.ending = account.ending /\ account' \in Accounts
    BY <1>1, <2>2 DEF Accounts, Reminded
  <2> QED
    BY <1>1, <2>3 DEF CopyAccount
<1>4. CASE status = "canceled" /\ ~account.linked
  <2>1. account' = account
    BY <1>2, <1>4 DEF Copying
  <2> QED
    BY <1>1, <2>1 DEF CopyAccount
<1>5. CASE status = "past_due"
  <2>1. account' = [account EXCEPT !.status = status, !.linked = TRUE,
                                   !.since = IF @ = 0 THEN spells + 1 ELSE @]
    BY <1>2, <1>5 DEF Copying
  <2>2. /\ account'.status = "past_due" /\ account'.linked = TRUE
        /\ account'.since = IF account.since = 0 THEN spells + 1 ELSE account.since
        /\ account'.reminded = account.reminded /\ account'.ending = account.ending
    BY <1>1, <1>5, <2>1 DEF Accounts
  <2>3. account.since \in Nat
    BY <1>1 DEF Accounts
  <2>4. IF account.since = 0
        THEN spells < MaxSpells /\ spells' = spells + 1 /\ stage' = 1
        ELSE UNCHANGED <<spells, stage>>
    BY <1>1, <2>2, <2>3 DEF CopyAccount
  <2>5. account' \in Accounts
    <3>1. account'.since \in 0..MaxSpells
      BY <1>1, <2>2, <2>3, <2>4 DEF Accounts
    <3> QED
      BY <1>1, <1>5, <2>1, <2>2, <3>1 DEF Accounts, Reminded
  <2> QED
    BY <1>1, <2>2, <2>3, <2>4, <2>5
<1>6. CASE status = "active"
  <2>1. account' = [account EXCEPT !.status = status, !.linked = TRUE, !.since = 0,
                                   !.reminded = 0, !.ending = 0]
    BY <1>2, <1>6 DEF Copying
  <2>2. account' = [status |-> "active", linked |-> TRUE, since |-> 0, reminded |-> 0,
                    ending |-> 0]
    BY <1>1, <1>6, <2>1 DEF Accounts
  <2>3. /\ account'.status = "active" /\ account'.since = 0
        /\ account'.ending = 0 /\ account' \in Accounts
    BY <1>1, <2>2 DEF Accounts, Reminded
  <2> QED
    BY <1>1, <2>3 DEF CopyAccount
<1> QED
  BY <1>3, <1>4, <1>5, <1>6 DEF Found

(* A step that sends nothing, and after which no worker sends that did not *)
(* before.                                                                 *)
LEMMA ArrearsQuiet ==
  ASSUME ArrearsInv, ArrearsTypeOK', told' = told, spells <= spells',
         \/ account'.since = account.since /\ account'.reminded = account.reminded
         \/ account'.since = 0
         \/ account'.since = spells + 1 /\ spells' = spells + 1,
         account'.ending \in {0, account.ending, account.since},
         account'.status = "free" =>
           account'.since = 0 \/ (account.status = "free" /\ account'.since = account.since),
         account'.since <= spells',
         \A w \in Tasks :
           \/ tasks'[w] = tasks[w]
           \/ /\ ~At(w, "send")' /\ ~At(w, "tell")'
              /\ tasks'[w].since <= spells
              /\ ~At(w, "rest")' => tasks'[w].since # 0
              /\ At(w, "claim")' =>
                   tasks'[w].from < tasks'[w].stage /\ tasks'[w].stage < LastStage
  PROVE  ArrearsInv'
<1> USE ArrearsAssumption DEF ArrearsInv
<1>1. spells \in Nat /\ spells' \in Nat
  BY DEF ArrearsTypeOK
<1>2. \A w \in Tasks : tasks[w].since \in Nat /\ tasks'[w].since \in Nat
  BY DEF ArrearsTypeOK, TaskStates
<1>3. ArrearsKnown'
  <2>1. account.ending \in Nat /\ account.since \in Nat
    BY DEF ArrearsTypeOK, Accounts
  <2>2. account'.ending <= spells'
    BY <1>1, <2>1 DEF ArrearsKnown
  <2> QED
    BY <1>1, <1>2, <2>2 DEF ArrearsKnown, At
<1>4. \A w \in Tasks : \A s, t :
        /\ Claims(w, s, t)' => Claims(w, s, t)
        /\ Telling(w, s)' => Telling(w, s)
  BY DEF Claims, Telling, At
<1>5. \A s \in 1..MaxSpells :
        s = account'.since /\ s <= spells =>
          s = account.since /\ account'.reminded = account.reminded
  BY <1>1
<1>6. \A w \in Tasks : \A s, t :
        Claims(w, s, t) \/ Telling(w, s) => s \in 1..MaxSpells /\ s <= spells
  BY <1>2 DEF Claims, Telling, ArrearsKnown, At, ArrearsTypeOK
<1>7. RemindersApart'
  <2>1. \A w \in Tasks, t \in 1..(LastStage - 1) :
          Claims(w, account.since, t)' => t <= account'.reminded
    <3> SUFFICES ASSUME NEW w \in Tasks, NEW t \in 1..(LastStage - 1),
                        Claims(w, account.since, t)'
                 PROVE  t <= account'.reminded
      OBVIOUS
    <3>1. Claims(w, account'.since, t)
      <4>1. At(w, "send")' /\ tasks'[w] = tasks[w]
        BY DEF Claims
      <4> QED
        BY <4>1 DEF Claims, At
    <3> QED
      BY <1>5, <1>6, <3>1 DEF RemindersApart
  <2>2. \A s \in 1..MaxSpells, t \in 1..(LastStage - 1) :
          told[s][t] # 0 => s <= spells
    BY DEF ArrearsKnown, Stages
  <2> QED
    BY <1>4, <1>5, <2>1, <2>2 DEF RemindersApart
<1>8. EndsApart'
  <2>1. LastStage \in Stages
    BY DEF Stages
  <2>2. \A s \in 1..MaxSpells :
          s <= spells /\ account.ending # s /\ account.since # s
            => account'.ending # s /\ account'.since # s
    BY <1>1
  <2>3. \A s \in 1..MaxSpells : told[s][LastStage] # 0 => s <= spells
    BY <2>1 DEF ArrearsKnown
  <2> QED
    BY <1>4, <1>6, <2>2, <2>3 DEF EndsApart
<1>9. ToldOnce'
  BY DEF ToldOnce
<1> QED
  BY <1>3, <1>7, <1>8, <1>9

(* Any step may move one worker and the row.                               *)
LEMMA TaskMoves ==
  ASSUME ArrearsTypeOK, NEW w \in Tasks, NEW task \in TaskStates,
         tasks' = [tasks EXCEPT ![w] = task]
  PROVE  /\ tasks' \in [Tasks -> TaskStates] /\ tasks'[w] = task
         /\ \A v \in Tasks : v # w => tasks'[v] = tasks[v]
BY DEF ArrearsTypeOK

LEMMA TaskGoes ==
  ASSUME ArrearsTypeOK, NEW w \in Tasks, NEW at \in {"claim", "send", "mark", "check", "cancel"},
         Goes(w, at)
  PROVE  /\ tasks' \in [Tasks -> TaskStates]
         /\ tasks'[w].at = at /\ tasks'[w].since = tasks[w].since
         /\ tasks'[w].from = tasks[w].from /\ tasks'[w].stage = tasks[w].stage
         /\ \A v \in Tasks : v # w => tasks'[v] = tasks[v]
<1> DEFINE task == [tasks[w] EXCEPT !.at = at]
<1>1. tasks[w] \in TaskStates
  BY DEF ArrearsTypeOK
<1>2. /\ task \in TaskStates /\ task.at = at /\ task.since = tasks[w].since
      /\ task.from = tasks[w].from /\ task.stage = tasks[w].stage
  BY <1>1 DEF TaskStates
<1>3. tasks' = [tasks EXCEPT ![w] = task]
  BY DEF Goes
<1> HIDE DEF task
<1> QED
  BY <1>2, <1>3, TaskMoves

LEMMA TaskStops ==
  ASSUME ArrearsTypeOK, NEW w \in Tasks, Stops(w)
  PROVE  /\ tasks' \in [Tasks -> TaskStates]
         /\ tasks'[w].at = "rest" /\ tasks'[w].since = 0
         /\ \A v \in Tasks : v # w => tasks'[v] = tasks[v]
<1>1. Idle \in TaskStates /\ Idle.at = "rest" /\ Idle.since = 0
  BY ArrearsAssumption DEF Idle, TaskStates, Reminded
<1> QED
  BY <1>1, TaskMoves DEF Stops

(* One message more, of a stage that was not told.                         *)
LEMMA TellsOne ==
  ASSUME ArrearsTypeOK, NEW w \in Tasks, NEW t \in Stages, Tells(w, t),
         tasks[w].since # 0, told[tasks[w].since][t] = 0
  PROVE  /\ told' \in [1..MaxSpells -> [Stages -> 0..2]]
         /\ \A s \in 1..MaxSpells, u \in Stages :
              told'[s][u] = IF s = tasks[w].since /\ u = t THEN 1 ELSE told[s][u]
BY DEF ArrearsTypeOK, Tells, TaskStates

LEMMA SendReminderStays ==
  ASSUME ArrearsInv, NEW w \in Tasks, SendReminder(w) PROVE ArrearsInv'
<1> USE ArrearsAssumption DEF ArrearsInv
<1>1. PICK s \in 1..MaxSpells, t \in 1..(LastStage - 1) :
        /\ s = tasks[w].since /\ t = tasks[w].stage /\ t \in Stages
        /\ At(w, "send") /\ s <= spells /\ spells \in Nat
        /\ tasks[w].from \in Reminded /\ tasks[w].from < t /\ Claims(w, s, t)
  BY DEF SendReminder, ArrearsKnown, ArrearsTypeOK, TaskStates, At, Claims, Stages, Reminded
<1>2. /\ tasks' \in [Tasks -> TaskStates]
      /\ tasks'[w].at = "rest" /\ tasks'[w].since = 0
      /\ \A v \in Tasks : v # w => tasks'[v] = tasks[v]
  BY TaskStops DEF SendReminder
<1>3. \A v \in Tasks : \A r, u :
        /\ Claims(v, r, u)' => Claims(v, r, u) /\ v # w
        /\ Telling(v, r)' => Telling(v, r)
  BY <1>2 DEF Claims, Telling, At
<1>4. \A v \in Tasks : /\ v # w => (At(v, "claim")' <=> At(v, "claim"))
                                 /\ (At(v, "send")' <=> At(v, "send"))
                                 /\ (At(v, "rest")' <=> At(v, "rest"))
                      /\ v = w => At(v, "rest")' /\ ~At(v, "claim")' /\ ~At(v, "send")'
  BY <1>2 DEF At
<1>0. \A v \in Tasks :
        /\ tasks'[v].since <= spells
        /\ ~At(v, "rest")' => tasks'[v].since # 0
        /\ At(v, "claim")' \/ At(v, "send")' =>
             tasks'[v].from < tasks'[v].stage /\ tasks'[v].stage < LastStage
  <2> TAKE v \in Tasks
  <2>1. CASE v = w
    BY <1>1, <1>2, <1>4, <2>1
  <2>2. CASE v # w
    <3>1. tasks'[v] = tasks[v] /\ tasks[v].since <= spells
          /\ (~At(v, "rest") => tasks[v].since # 0)
          /\ (At(v, "claim") \/ At(v, "send") =>
                tasks[v].from < tasks[v].stage /\ tasks[v].stage < LastStage)
      BY <1>2, <2>2 DEF ArrearsKnown
    <3> QED
      BY <3>1 DEF At
  <2> QED
    BY <2>1, <2>2
<1>5. CASE Tells(w, tasks[w].stage) /\ UNCHANGED account
  <2>1. told[s][t] = 0
    BY <1>1 DEF RemindersApart
  <2>2. /\ told' \in [1..MaxSpells -> [Stages -> 0..2]]
        /\ \A r \in 1..MaxSpells, u \in Stages :
             told'[r][u] = IF r = s /\ u = t THEN 1 ELSE told[r][u]
    <3>1. ArrearsTypeOK /\ t \in Stages /\ Tells(w, t)
      BY <1>1, <1>5
    <3>2. tasks[w].since = s /\ s # 0
      BY <1>1
    <3> QED
      BY <2>1, <3>1, <3>2, TellsOne
  <2>3. UNCHANGED <<account, stage, spells, deaths>>
    BY <1>5 DEF SendReminder
  <2>4. ArrearsTypeOK'
    BY <1>2, <2>2, <2>3 DEF ArrearsTypeOK
  <2>5. ArrearsKnown'
    BY <1>0, <1>1, <2>2, <2>3 DEF ArrearsKnown
  <2>6. ToldOnce'
    BY <2>2 DEF ToldOnce
  <2>7. \A r \in 1..MaxSpells : told'[r][LastStage] = told[r][LastStage]
    BY <1>1, <2>2 DEF Stages
  <2>8. EndsApart'
    BY <1>3, <2>3, <2>7 DEF EndsApart
  <2>9. RemindersApart'
    <3>1. \A v \in Tasks, u \in 1..(LastStage - 1) :
            Claims(v, account.since, u)' => u <= account'.reminded
      BY <1>3, <2>3 DEF RemindersApart, Claims, At
    <3>2. \A r \in 1..MaxSpells, u \in 1..(LastStage - 1) : told'[r][u] # 0 =>
            (r = s /\ u = t) \/ told[r][u] # 0
      BY <2>2 DEF Stages
    <3>3. s = account.since => t <= account.reminded
      BY <1>1 DEF RemindersApart
    <3>4. \A v \in Tasks : ~Claims(v, s, t)'
      BY <1>1, <1>3 DEF RemindersApart
    <3>5. ASSUME NEW r \in 1..MaxSpells, NEW u \in 1..(LastStage - 1), told'[r][u] # 0
          PROVE  /\ r = account'.since => u <= account'.reminded
                 /\ \A v \in Tasks : ~Claims(v, r, u)'
      BY <1>3, <2>3, <3>2, <3>3, <3>4, <3>5 DEF RemindersApart
    <3>6. \A v, x \in Tasks, r \in 1..MaxSpells, u \in 1..(LastStage - 1) :
            Claims(v, r, u)' /\ Claims(x, r, u)' => v = x
      BY <1>3 DEF RemindersApart
    <3> QED
      BY <3>1, <3>5, <3>6 DEF RemindersApart
  <2> QED
    BY <2>4, <2>5, <2>6, <2>8, <2>9
<1>6. CASE /\ account' = IF /\ account.since = tasks[w].since
                            /\ account.reminded = tasks[w].stage
                         THEN [account EXCEPT !.reminded = tasks[w].from] ELSE account
           /\ UNCHANGED told
  <2>1. /\ account' \in Accounts /\ account'.since = account.since
        /\ account'.ending = account.ending /\ account'.status = account.status
        /\ account'.reminded =
              IF account.since = s /\ account.reminded = t THEN tasks[w].from
              ELSE account.reminded
    BY <1>1, <1>6 DEF ArrearsTypeOK, Accounts
  <2>2. UNCHANGED <<stage, spells, deaths, told>>
    BY <1>6 DEF SendReminder
  <2>3. ArrearsTypeOK'
    BY <1>2, <2>1, <2>2 DEF ArrearsTypeOK
  <2>4. ArrearsKnown'
    BY <1>0, <2>1, <2>2 DEF ArrearsKnown
  <2>5. ToldOnce' /\ EndsApart'
    BY <1>3, <2>1, <2>2 DEF ToldOnce, EndsApart
  <2>6. RemindersApart'
    <3>1. ASSUME account.since = s, account.reminded = t, NEW u \in 1..(LastStage - 1),
                 u <= account.reminded, ~Claims(w, s, u)
          PROVE  u <= tasks[w].from
      BY <1>1, <3>1 DEF Claims, Reminded
    <3>2. \A v \in Tasks, u \in 1..(LastStage - 1) :
            Claims(v, account.since, u)' => u <= account'.reminded
      <4> SUFFICES ASSUME NEW v \in Tasks, NEW u \in 1..(LastStage - 1),
                          Claims(v, account.since, u), v # w
                   PROVE  u <= account'.reminded
        BY <1>3, <2>1 DEF Claims, At
      <4>1. u <= account.reminded
        BY DEF RemindersApart
      <4>2. account.since = s => ~Claims(w, s, u)
        BY <1>1 DEF RemindersApart
      <4> QED
        BY <2>1, <3>1, <4>1, <4>2
    <3>3. \A r \in 1..MaxSpells, u \in 1..(LastStage - 1) :
            told[r][u] # 0 /\ r = account.since => u <= account'.reminded
      BY <2>1, <3>1 DEF RemindersApart
    <3> QED
      BY <1>3, <2>1, <2>2, <3>2, <3>3 DEF RemindersApart
  <2> QED
    BY <2>3, <2>4, <2>5, <2>6
<1> QED
  BY <1>5, <1>6 DEF SendReminder

LEMMA ClaimStays ==
  ASSUME ArrearsInv, NEW w \in Tasks, Claim(w) PROVE ArrearsInv'
<1> USE ArrearsAssumption DEF ArrearsInv
<1>1. /\ At(w, "claim") /\ UNCHANGED <<stage, spells, told, deaths>>
      /\ tasks[w].since # 0 /\ tasks[w].since <= spells /\ spells \in Nat
      /\ tasks[w].from < tasks[w].stage /\ tasks[w].stage < LastStage
      /\ tasks[w].from \in Reminded /\ tasks[w].stage \in Nat /\ tasks[w] \in TaskStates
  <2>1. At(w, "claim") /\ ~At(w, "rest") /\ UNCHANGED <<stage, spells, told, deaths>>
    BY DEF Claim, At
  <2>2. tasks[w] \in TaskStates /\ spells \in Nat
    BY DEF ArrearsTypeOK
  <2>3. tasks[w].from \in Reminded /\ tasks[w].stage \in Nat
    BY <2>2 DEF TaskStates
  <2> QED
    BY <2>1, <2>2, <2>3 DEF ArrearsKnown
<1>2. CASE Unclaimed(w)
  <2>1. /\ tasks' \in [Tasks -> TaskStates]
        /\ tasks'[w].at = "send" /\ tasks'[w].since = tasks[w].since
        /\ tasks'[w].from = tasks[w].from /\ tasks'[w].stage = tasks[w].stage
        /\ \A v \in Tasks : v # w => tasks'[v] = tasks[v]
    BY <1>2, TaskGoes DEF Claim
  <2>2. account.since = tasks[w].since /\ account.reminded = tasks[w].from
    BY <1>2 DEF Unclaimed
  <2>3. /\ account' \in Accounts /\ account'.reminded = tasks[w].stage
        /\ account'.since = account.since /\ account'.ending = account.ending
        /\ account'.status = account.status
    <3>1. account' = [account EXCEPT !.reminded = tasks[w].stage] /\ tasks[w].stage \in Reminded
      BY <1>1, <1>2 DEF Claim, Reminded
    <3> QED
      BY <3>1 DEF ArrearsTypeOK, Accounts
  <2>4. ArrearsTypeOK'
    BY <1>1, <2>1, <2>3 DEF ArrearsTypeOK
  <2>5. ArrearsKnown'
    <3>1. \A v \in Tasks :
            /\ tasks'[v].since <= spells
            /\ ~At(v, "rest")' => tasks'[v].since # 0
            /\ At(v, "claim")' \/ At(v, "send")' =>
                 tasks'[v].from < tasks'[v].stage /\ tasks'[v].stage < LastStage
      BY <1>1, <2>1 DEF ArrearsKnown, At
    <3> QED
      BY <1>1, <2>3, <3>1 DEF ArrearsKnown
  <2>6. \A v \in Tasks : \A s, t :
          /\ v # w => (Claims(v, s, t)' <=> Claims(v, s, t))
          /\ Claims(w, s, t)' => /\ s = account.since /\ account.reminded < t
                                /\ t <= tasks[w].stage
          /\ Telling(v, s)' => Telling(v, s)
    BY <2>1, <2>2 DEF Claims, Telling, At
  <2>7. EndsApart' /\ ToldOnce'
    BY <1>1, <2>3, <2>6 DEF EndsApart, ToldOnce
  <2>8. RemindersApart'
    <3>1. account.reminded \in Nat
      BY DEF ArrearsTypeOK, Accounts, Reminded
    <3>2. \A v \in Tasks, t \in 1..(LastStage - 1) :
            Claims(v, account.since, t)' => t <= account'.reminded
      <4> SUFFICES ASSUME NEW v \in Tasks, NEW t \in 1..(LastStage - 1),
                          Claims(v, account.since, t)'
                   PROVE  t <= account'.reminded
        OBVIOUS
      <4>1. CASE v = w
        <5>1. t <= tasks'[w].stage
          BY <4>1 DEF Claims
        <5> QED
          BY <2>1, <2>3, <5>1
      <4>2. CASE v # w
        <5>1. Claims(v, account.since, t)
          BY <2>1, <2>3, <4>2 DEF Claims, At
        <5>2. t <= account.reminded
          BY <5>1 DEF RemindersApart
        <5> QED
          BY <1>1, <2>2, <2>3, <3>1, <5>2
      <4> QED
        BY <4>1, <4>2
    <3>3. \A v, x \in Tasks, s \in 1..MaxSpells, t \in 1..(LastStage - 1) :
            Claims(v, s, t)' /\ Claims(x, s, t)' => v = x
      <4> SUFFICES ASSUME NEW v \in Tasks, NEW x \in Tasks, NEW s \in 1..MaxSpells,
                          NEW t \in 1..(LastStage - 1), Claims(v, s, t)', Claims(x, s, t)',
                          v # x
                   PROVE  FALSE
        OBVIOUS
      <4>1. ASSUME NEW y \in Tasks, Claims(y, s, t), s = account.since, account.reminded < t
            PROVE  FALSE
        BY <3>1, <4>1 DEF RemindersApart
      <4> QED
        BY <2>6, <4>1 DEF RemindersApart
    <3>4. ASSUME NEW s \in 1..MaxSpells, NEW t \in 1..(LastStage - 1), told[s][t] # 0
          PROVE  /\ s = account'.since => t <= account'.reminded
                 /\ \A v \in Tasks : ~Claims(v, s, t)'
      <4>1. s = account.since => t <= account.reminded
        BY <3>4 DEF RemindersApart
      <4>2. \A v \in Tasks : ~Claims(v, s, t)
        BY <3>4 DEF RemindersApart
      <4> QED
        BY <1>1, <2>2, <2>3, <2>6, <3>1, <4>1, <4>2
    <3> QED
      BY <1>1, <3>2, <3>3, <3>4 DEF RemindersApart
  <2> QED
    BY <2>4, <2>5, <2>7, <2>8
<1>3. CASE ~Unclaimed(w)
  <2>1. /\ tasks' \in [Tasks -> TaskStates] /\ account' = account
        /\ tasks'[w].at = "rest" /\ tasks'[w].since = 0
        /\ \A v \in Tasks : v # w => tasks'[v] = tasks[v]
    BY <1>3, TaskStops DEF Claim
  <2>2. ArrearsTypeOK'
    BY <1>1, <2>1 DEF ArrearsTypeOK
  <2>3. account.since <= spells
    BY DEF ArrearsKnown
  <2> QED
    BY <1>1, <2>1, <2>2, <2>3, ArrearsQuiet DEF At
<1> QED
  BY <1>2, <1>3

LEMMA ClaimEndStays ==
  ASSUME ArrearsInv, NEW w \in Tasks, ClaimEnd(w) PROVE ArrearsInv'
<1> USE ArrearsAssumption DEF ArrearsInv
<1>1. /\ account.ending # 0 /\ account.status = "free" /\ account.since = 0
      /\ account' = [account EXCEPT !.ending = 0]
      /\ UNCHANGED <<stage, spells, told, deaths>>
      /\ account \in Accounts /\ spells \in Nat
  BY DEF ClaimEnd, ArrearsKnown, ArrearsTypeOK
<1>2. PICK s \in 1..MaxSpells : s = account.ending
  BY <1>1 DEF Accounts
<1>3. /\ account' \in Accounts /\ account'.ending = 0 /\ account'.since = 0
      /\ account'.reminded = account.reminded /\ account'.status = "free"
  BY <1>1 DEF Accounts
<1>4. /\ tasks' \in [Tasks -> TaskStates]
      /\ tasks'[w].at = "tell" /\ tasks'[w].since = s
      /\ \A v \in Tasks : v # w => tasks'[v] = tasks[v]
  <2> DEFINE task == [at |-> "tell", since |-> s, from |-> 0, stage |-> 0]
  <2>1. task \in TaskStates /\ task.at = "tell" /\ task.since = s
    BY DEF TaskStates, Reminded
  <2>2. tasks' = [tasks EXCEPT ![w] = task]
    <3>1. Idle \in TaskStates
      BY DEF Idle, TaskStates, Reminded
    <3> DEFINE tell == [Idle EXCEPT !.at = "tell"]
    <3>2. tell \in TaskStates /\ tell.at = "tell" /\ tell.from = 0 /\ tell.stage = 0
      BY <3>1 DEF Idle, TaskStates
    <3>3. [Idle EXCEPT !.at = "tell", !.since = s] = [tell EXCEPT !.since = s]
      OBVIOUS
    <3> HIDE DEF tell
    <3>4. [tell EXCEPT !.since = s] = task
      BY <3>2 DEF TaskStates
    <3> QED
      BY <1>2, <3>3, <3>4 DEF ClaimEnd
  <2> HIDE DEF task
  <2> QED
    BY <2>1, <2>2, TaskMoves
<1>5. ArrearsTypeOK'
  BY <1>1, <1>3, <1>4 DEF ArrearsTypeOK
<1>6. s <= spells
  BY <1>1, <1>2 DEF ArrearsKnown
<1>7. ArrearsKnown'
  <2>1. \A v \in Tasks :
          /\ tasks'[v].since <= spells
          /\ ~At(v, "rest")' => tasks'[v].since # 0
          /\ At(v, "claim")' \/ At(v, "send")' =>
               tasks'[v].from < tasks'[v].stage /\ tasks'[v].stage < LastStage
    BY <1>4, <1>6 DEF ArrearsKnown, At
  <2> QED
    BY <1>1, <1>3, <2>1 DEF ArrearsKnown
<1>8. \A v \in Tasks : \A r, t :
        /\ Claims(v, r, t)' => Claims(v, r, t)
        /\ Telling(v, r)' => (v # w /\ Telling(v, r)) \/ (v = w /\ r = s)
  <2> TAKE v \in Tasks
  <2> TAKE r, t
  <2>1. CASE v = w
    BY <1>4, <2>1 DEF Claims, Telling, At
  <2>2. CASE v # w
    <3>1. tasks'[v] = tasks[v]
      BY <1>4, <2>2
    <3> QED
      BY <2>2, <3>1 DEF Claims, Telling, At
  <2> QED
    BY <2>1, <2>2
<1>9. RemindersApart' /\ ToldOnce'
  <2>1. \A v \in Tasks, t \in 1..(LastStage - 1) : ~Claims(v, account.since, t)'
    BY <1>3, <1>4, <1>7 DEF Claims, ArrearsKnown, At
  <2> QED
    BY <1>1, <1>3, <1>8, <2>1 DEF RemindersApart, ToldOnce
<1>10. EndsApart'
  BY <1>1, <1>2, <1>3, <1>8 DEF EndsApart
<1> QED
  BY <1>5, <1>7, <1>9, <1>10

LEMMA TellEndStays ==
  ASSUME ArrearsInv, NEW w \in Tasks, TellEnd(w) PROVE ArrearsInv'
<1> USE ArrearsAssumption DEF ArrearsInv
<1>1. PICK s \in 1..MaxSpells :
        /\ s = tasks[w].since /\ Telling(w, s) /\ s <= spells /\ spells \in Nat
        /\ UNCHANGED <<stage, spells, deaths>>
  BY DEF TellEnd, ArrearsKnown, ArrearsTypeOK, TaskStates, At, Telling
<1>2. /\ tasks' \in [Tasks -> TaskStates]
      /\ tasks'[w].at = "rest" /\ tasks'[w].since = 0
      /\ \A v \in Tasks : v # w => tasks'[v] = tasks[v]
  BY TaskStops DEF TellEnd
<1>3. \A v \in Tasks : \A r, u :
        /\ Claims(v, r, u)' => Claims(v, r, u)
        /\ Telling(v, r)' => Telling(v, r) /\ v # w
  BY <1>2 DEF Claims, Telling, At
<1>4. \A v \in Tasks :
        /\ tasks'[v].since <= spells
        /\ ~At(v, "rest")' => tasks'[v].since # 0
        /\ At(v, "claim")' \/ At(v, "send")' =>
             tasks'[v].from < tasks'[v].stage /\ tasks'[v].stage < LastStage
  BY <1>1, <1>2 DEF ArrearsKnown, At
<1>5. told[s][LastStage] = 0 /\ account.ending # s /\ account.since # s
  BY <1>1 DEF EndsApart
<1>6. CASE Tells(w, LastStage) /\ UNCHANGED account
  <2>1. LastStage \in Stages
    BY DEF Stages
  <2>2. /\ told' \in [1..MaxSpells -> [Stages -> 0..2]]
        /\ \A r \in 1..MaxSpells, u \in Stages :
             told'[r][u] = IF r = s /\ u = LastStage THEN 1 ELSE told[r][u]
    BY <1>1, <1>5, <1>6, <2>1, TellsOne
  <2>3. ArrearsTypeOK'
    BY <1>1, <1>2, <1>6, <2>2 DEF ArrearsTypeOK
  <2>4. ArrearsKnown'
    BY <1>1, <1>4, <1>6, <2>2 DEF ArrearsKnown
  <2>5. ToldOnce'
    BY <2>2 DEF ToldOnce
  <2>6. \A r \in 1..MaxSpells, u \in 1..(LastStage - 1) : told'[r][u] = told[r][u]
    <3>1. \A u \in 1..(LastStage - 1) : u \in Stages /\ u # LastStage
      BY DEF Stages
    <3> QED
      BY <2>2, <3>1
  <2>7. RemindersApart'
    <3>1. \A v \in Tasks, u \in 1..(LastStage - 1) :
            Claims(v, account.since, u)' => u <= account'.reminded
      BY <1>3, <1>6 DEF RemindersApart, Claims, At
    <3> QED
      BY <1>3, <1>6, <2>6, <3>1 DEF RemindersApart
  <2>8. EndsApart'
    <3>1. \A r \in 1..MaxSpells : told'[r][LastStage] # 0 => r = s \/ told[r][LastStage] # 0
      BY <2>1, <2>2
    <3>2. \A r \in 1..MaxSpells : r # s => told'[r][LastStage] = told[r][LastStage]
      BY <2>1, <2>2
    <3>3. \A v \in Tasks : ~Telling(v, s)'
      BY <1>1, <1>3 DEF EndsApart
    <3>4. \A v \in Tasks, r \in 1..MaxSpells : Telling(v, r)' =>
            told'[r][LastStage] = 0 /\ account'.ending # r /\ account'.since # r
      BY <1>3, <1>6, <3>2, <3>3 DEF EndsApart
    <3>5. \A v, x \in Tasks, r \in 1..MaxSpells : Telling(v, r)' /\ Telling(x, r)' => v = x
      BY <1>3 DEF EndsApart
    <3>6. \A r \in 1..MaxSpells : told'[r][LastStage] # 0 =>
            account'.ending # r /\ account'.since # r
      BY <1>5, <1>6, <3>1 DEF EndsApart
    <3> QED
      BY <3>4, <3>5, <3>6 DEF EndsApart
  <2> QED
    BY <2>3, <2>4, <2>5, <2>7, <2>8
<1>7. CASE /\ account' = IF account.ending = 0 /\ ~account.linked
                         THEN [account EXCEPT !.ending = tasks[w].since] ELSE account
           /\ UNCHANGED told
  <2>1. /\ account' \in Accounts /\ account'.since = account.since
        /\ account'.reminded = account.reminded /\ account'.status = account.status
        /\ account'.ending \in {s, account.ending}
    BY <1>1, <1>7 DEF ArrearsTypeOK, Accounts
  <2>2. ArrearsTypeOK'
    BY <1>1, <1>2, <1>7, <2>1 DEF ArrearsTypeOK
  <2>3. ArrearsKnown'
    BY <1>1, <1>4, <1>7, <2>1 DEF ArrearsKnown
  <2>4. RemindersApart' /\ ToldOnce'
    <3>1. \A v \in Tasks, u \in 1..(LastStage - 1) :
            Claims(v, account.since, u)' => u <= account'.reminded
      BY <1>3, <2>1 DEF RemindersApart, Claims, At
    <3> QED
      BY <1>3, <1>7, <2>1, <3>1 DEF RemindersApart, ToldOnce
  <2>5. EndsApart'
    BY <1>1, <1>3, <1>5, <1>7, <2>1 DEF EndsApart
  <2> QED
    BY <2>2, <2>3, <2>4, <2>5
<1> QED
  BY <1>6, <1>7 DEF TellEnd

(* A copy of the subscription, by the worker that checks or ends it or by  *)
(* somebody else, sends nothing.                                           *)
LEMMA CopyStays ==
  ASSUME ArrearsInv, NEW status \in Found, CopyAccount(status), UNCHANGED <<told, deaths>>,
         tasks' \in [Tasks -> TaskStates],
         \A w \in Tasks :
           \/ tasks'[w] = tasks[w]
           \/ /\ tasks'[w].at \in {"rest", "cancel"} /\ tasks'[w].since <= spells
              /\ tasks'[w].at = "cancel" => tasks'[w].since # 0
  PROVE  ArrearsInv'
<1> USE ArrearsAssumption
<1>0. ArrearsTypeOK /\ ArrearsKnown
  BY DEF ArrearsInv
<1>1. /\ account.since <= spells /\ account.ending <= spells /\ spells \in Nat
      /\ account.status = "free" => account.since = 0
  BY <1>0 DEF ArrearsKnown, ArrearsTypeOK
<1>2. /\ account' \in Accounts /\ stage' \in 0..LastStage /\ spells' \in 0..MaxSpells
      /\ spells <= spells'
      /\ \/ account'.since = account.since /\ account'.reminded = account.reminded
            /\ spells' = spells
         \/ account'.since = 0 /\ spells' = spells
         \/ account'.since = spells + 1 /\ spells' = spells + 1
      /\ account'.ending \in {0, account.ending}
      /\ account'.status = "free" => account'.since = 0 \/ account.status = "free"
  BY <1>0, <1>1, CopiesTyped
<1>3. ArrearsTypeOK'
  BY <1>0, <1>2 DEF ArrearsTypeOK
<1>4. account'.since <= spells'
  BY <1>1, <1>2
<1>5. account'.status = "free" =>
        account'.since = 0 \/ (account.status = "free" /\ account'.since = account.since)
  <2>1. CASE account'.since = spells + 1
    <3>1. account \in Accounts /\ account'.since \notin {0, account.since}
      BY <1>0, <1>1, <2>1 DEF ArrearsTypeOK
    <3>2. account' = Copying(status)
      BY DEF CopyAccount
    <3>3. CASE status = "canceled"
      BY <3>1, <3>2, <3>3 DEF Copying, Accounts
    <3>4. CASE status = "past_due"
      BY <3>1, <3>2, <3>4 DEF Copying, Accounts
    <3>5. CASE status = "active"
      BY <3>1, <3>2, <3>5 DEF Copying, Accounts
    <3> QED
      BY <3>3, <3>4, <3>5 DEF Found
  <2> QED
    BY <1>2, <2>1
<1> QED
  BY <1>2, <1>3, <1>4, <1>5, ArrearsQuiet DEF At

LEMMA ReadAccountStays ==
  ASSUME ArrearsInv, NEW w \in Tasks, ReadAccount(w) PROVE ArrearsInv'
<1> USE ArrearsAssumption DEF ArrearsInv
<1> DEFINE at == CASE stage # LastStage -> "claim"
                   [] stage = LastStage /\ account.ending = 0 -> "mark"
                   [] stage = LastStage /\ account.ending # 0 -> "check"
           task == [at |-> at, since |-> account.since, from |-> account.reminded,
                    stage |-> stage]
<1>1. /\ account \in Accounts /\ stage \in 0..LastStage /\ account.since # 0
      /\ account.since <= spells /\ spells \in Nat
      /\ stage # LastStage => stage > account.reminded
      /\ UNCHANGED <<account, stage, spells, told, deaths>>
  BY DEF ReadAccount, ArrearsTypeOK, ArrearsKnown
<1>2. at \in {"claim", "mark", "check"} /\ (at = "claim" => stage # LastStage)
  OBVIOUS
<1>3. tasks' = [tasks EXCEPT ![w] = task]
  BY DEF ReadAccount
<1> HIDE DEF at
<1>4. task \in TaskStates
  BY <1>1, <1>2 DEF Accounts, TaskStates, Reminded
<1>5. /\ task.at \in {"claim", "mark", "check"} /\ task.since = account.since
      /\ task.from = account.reminded /\ task.stage = stage
      /\ task.at = "claim" => stage # LastStage
  BY <1>2
<1> HIDE DEF task
<1>6. /\ tasks' \in [Tasks -> TaskStates] /\ tasks'[w] = task
      /\ \A v \in Tasks : v # w => tasks'[v] = tasks[v]
  BY <1>3, <1>4, TaskMoves
<1>7. ArrearsTypeOK'
  BY <1>1, <1>6 DEF ArrearsTypeOK
<1>8. \A v \in Tasks :
        \/ tasks'[v] = tasks[v]
        \/ /\ ~At(v, "send")' /\ ~At(v, "tell")'
           /\ tasks'[v].since <= spells
           /\ ~At(v, "rest")' => tasks'[v].since # 0
           /\ At(v, "claim")' => tasks'[v].from < tasks'[v].stage /\ tasks'[v].stage < LastStage
  <2> SUFFICES tasks'[w].at # "send" /\ tasks'[w].at # "tell" /\ tasks'[w].since <= spells
               /\ tasks'[w].since # 0
               /\ (tasks'[w].at = "claim" =>
                     tasks'[w].from < tasks'[w].stage /\ tasks'[w].stage < LastStage)
    BY <1>6 DEF At
  <2>1. account.reminded \in Nat
    BY <1>1 DEF Accounts, Reminded
  <2> QED
    BY <1>1, <1>5, <1>6, <2>1
<1> QED
  BY <1>1, <1>7, <1>8, ArrearsQuiet

LEMMA MarkEndingStays ==
  ASSUME ArrearsInv, NEW w \in Tasks, MarkEnding(w) PROVE ArrearsInv'
<1> USE ArrearsAssumption DEF ArrearsInv
<1>1. /\ UNCHANGED <<stage, spells, told, deaths>> /\ spells \in Nat
      /\ account.since <= spells /\ account \in Accounts
      /\ tasks[w].since <= spells /\ tasks[w].since # 0
  BY DEF MarkEnding, ArrearsKnown, ArrearsTypeOK, At
<1>2. CASE account' = [account EXCEPT !.ending = account.since] /\ Goes(w, "check")
  <2>1. /\ account' \in Accounts /\ account'.ending = account.since
        /\ account'.since = account.since /\ account'.reminded = account.reminded
        /\ account'.status = account.status
    BY <1>1, <1>2 DEF Accounts
  <2>2. /\ tasks' \in [Tasks -> TaskStates]
        /\ tasks'[w].at = "check" /\ tasks'[w].since = tasks[w].since
        /\ \A v \in Tasks : v # w => tasks'[v] = tasks[v]
    BY <1>2, TaskGoes
  <2>3. ArrearsTypeOK'
    BY <1>1, <2>1, <2>2 DEF ArrearsTypeOK
  <2> QED
    BY <1>1, <2>1, <2>2, <2>3, ArrearsQuiet DEF At
<1>3. CASE UNCHANGED account /\ Stops(w)
  <2>1. /\ tasks' \in [Tasks -> TaskStates]
        /\ tasks'[w].at = "rest" /\ tasks'[w].since = 0
        /\ \A v \in Tasks : v # w => tasks'[v] = tasks[v]
    BY <1>3, TaskStops
  <2>2. ArrearsTypeOK'
    BY <1>1, <1>3, <2>1 DEF ArrearsTypeOK
  <2> QED
    BY <1>1, <1>3, <2>1, <2>2, ArrearsQuiet DEF At
<1> QED
  BY <1>2, <1>3 DEF MarkEnding

(* A worker stops, and the row is what it was.                             *)
LEMMA StopStays ==
  ASSUME ArrearsInv, NEW w \in Tasks, Stops(w), UNCHANGED <<account, stage, spells, told>>,
         deaths' \in 0..MaxDeaths
  PROVE  ArrearsInv'
<1> USE ArrearsAssumption DEF ArrearsInv
<1>1. /\ tasks' \in [Tasks -> TaskStates]
      /\ tasks'[w].at = "rest" /\ tasks'[w].since = 0
      /\ \A v \in Tasks : v # w => tasks'[v] = tasks[v]
  BY TaskStops
<1>2. ArrearsTypeOK' /\ spells \in Nat
  BY <1>1 DEF ArrearsTypeOK
<1>3. account.since <= spells
  BY DEF ArrearsKnown
<1> QED
  BY <1>1, <1>2, <1>3, ArrearsQuiet DEF At

LEMMA EndingStays ==
  ASSUME ArrearsInv, NEW w \in Tasks, CheckEnding(w) \/ CancelLate(w) PROVE ArrearsInv'
<1> USE ArrearsAssumption DEF ArrearsInv
<1>1. UNCHANGED <<told, deaths>> /\ deaths \in 0..MaxDeaths /\ spells \in Nat
      /\ tasks[w].since <= spells /\ tasks[w].since # 0
  BY DEF CheckEnding, CancelLate, ArrearsKnown, ArrearsTypeOK, At
<1>2. CASE Stops(w) /\ UNCHANGED <<account, stage, spells>>
  BY <1>1, <1>2, StopStays
<1>3. ASSUME NEW status \in Found, CopyAccount(status), Stops(w) PROVE ArrearsInv'
  <2>1. /\ tasks' \in [Tasks -> TaskStates]
        /\ tasks'[w].at = "rest" /\ tasks'[w].since = 0
        /\ \A v \in Tasks : v # w => tasks'[v] = tasks[v]
    BY <1>3, TaskStops
  <2> QED
    BY <1>1, <1>3, <2>1, CopyStays
<1>4. ASSUME NEW status \in Found, CopyAccount(status), Goes(w, "cancel") PROVE ArrearsInv'
  <2>1. /\ tasks' \in [Tasks -> TaskStates]
        /\ tasks'[w].at = "cancel" /\ tasks'[w].since = tasks[w].since
        /\ \A v \in Tasks : v # w => tasks'[v] = tasks[v]
    BY <1>4, TaskGoes
  <2> QED
    BY <1>1, <1>4, <2>1, CopyStays
<1> QED
  BY <1>2, <1>3, <1>4 DEF CheckEnding, CancelLate, Found

LEMMA ArrearsStays == ArrearsInv /\ [ArrearsNext]_arrearsVars => ArrearsInv'
<1> SUFFICES ASSUME ArrearsInv, [ArrearsNext]_arrearsVars PROVE ArrearsInv'
  OBVIOUS
<1> USE ArrearsAssumption
<1>0. ArrearsTypeOK /\ deaths \in 0..MaxDeaths /\ spells \in Nat /\ account.since <= spells
  BY DEF ArrearsInv, ArrearsKnown, ArrearsTypeOK
<1>1. CASE CopyMeanwhile
  BY <1>0, <1>1, CopyStays DEF CopyMeanwhile, ArrearsTypeOK
<1>2. CASE DaysPass
  <2>1. UNCHANGED <<account, spells, tasks, told, deaths>> /\ stage' \in 0..LastStage
    BY <1>0, <1>2 DEF DaysPass, ArrearsTypeOK
  <2>2. ArrearsTypeOK'
    BY <1>0, <2>1 DEF ArrearsTypeOK
  <2> QED
    BY <1>0, <2>1, <2>2, ArrearsQuiet
<1>3. ASSUME NEW w \in Tasks, Die(w) PROVE ArrearsInv'
  BY <1>0, <1>3, StopStays DEF Die
<1>4. CASE UNCHANGED arrearsVars
  BY <1>4 DEF arrearsVars, ArrearsInv, ArrearsTypeOK, ArrearsKnown, RemindersApart, EndsApart,
              ToldOnce, Claims, Telling, At
<1> QED
  BY <1>1, <1>2, <1>3, <1>4, ReadAccountStays, ClaimStays, SendReminderStays, MarkEndingStays,
     EndingStays, ClaimEndStays, TellEndStays DEF ArrearsNext

(* The row, the workers and what they have sent keep their types.          *)
THEOREM ArrearsTypeCorrect == ArrearsSpec => []ArrearsTypeOK
<1>1. ArrearsInv => ArrearsTypeOK
  BY DEF ArrearsInv
<1> QED
  BY <1>1, ArrearsStarts, ArrearsStays, PTL DEF ArrearsSpec

(* The owner of a shop in arrears is told of each stage once, the end of   *)
(* the subscription included, however many workers run the task, fail to   *)
(* send or die, and whenever the subscription is copied                    *)
(* (process_past_due, _end_past_due, send_past_due_end_notice).            *)
THEOREM OwnersAreToldOnce == ArrearsSpec => []ToldOnce
<1>1. ArrearsInv => ToldOnce
  BY DEF ArrearsInv
<1> QED
  BY <1>1, ArrearsStarts, ArrearsStays, PTL DEF ArrearsSpec

----------------------------------------------------------------------------
(* ScanQuota.                                                              *)

QuotaSpec == QuotaInit /\ [][QuotaNext]_quotaVars

ScanState ==
  [at : {"none", "claim", "reserve", "read", "settle", "look", "hold", "image"},
   face : Faces \cup {NoScan.face}, back : BOOLEAN, month : Months,
   slot : {"none", "reserved", "shared"},
   text : {"unread", "structured", "failed", "unreachable"}]
Counts == [ScanCounters -> [Months -> Nat]]

(* What a scan holds of a month, what it shares with a face, and whether   *)
(* it has read a face alone, on a slot of its own, and not kept it yet.    *)
CounterOf(scan) == IF scan.at \in {"look", "hold", "image"} THEN "vision" ELSE "text"
HoldsFor(scan, c, m) ==
  /\ (scan.slot = "reserved" /\ scan.text # "structured") \/ scan.at = "image"
  /\ CounterOf(scan) = c /\ scan.month = m
Shares(scan) == scan.slot = "shared" /\ scan.text # "structured"
ToKeep(scan) == scan.at = "settle" /\ scan.text = "structured" /\ ~scan.back

Busy == {s \in Scanners : scans[s].at # "none"}
HeldSlots(c, m) == {s \in Scanners : HoldsFor(scans[s], c, m)}
SharedSlots == {s \in Scanners : Shares(scans[s])}
Unkept == {s \in Scanners : ToKeep(scans[s])}

ScanShape(scan) ==
  /\ scan.at \in {"none", "claim", "reserve", "look", "hold"} => scan.slot = "none"
  /\ scan.at \in {"none", "claim", "reserve", "read"} => scan.text = "unread"
  /\ scan.at = "image" => scan.slot = "reserved"
  /\ scan.slot = "shared" \/ scan.at = "claim" => scan.back
  /\ scan.at = "settle" /\ scan.text = "structured" => scan.slot # "none"

(* The calls whose answer was of use.                                      *)
OfUse(c, m) == paid[c][m] - wasted[c][m]

SameUse ==
  /\ paid' \in Counts /\ wasted' \in Counts
  /\ \A c \in ScanCounters, m \in Months : OfUse(c, m)' = OfUse(c, m)

(* Each slot counted has been used, is lost or is held; and the faces      *)
(* read alone are more than the backs read on their slots, the faces kept, *)
(* those that are being shared and those that may still be kept.           *)
SlotsCounted ==
  \A c \in ScanCounters, m \in Months :
    /\ counts[c][m] = OfUse(c, m) + lost[c][m] + Cardinality(HeldSlots(c, m))
    /\ counts[c][m] <= Allowed[c] /\ OfUse(c, m) \in Nat
FacesShared ==
  faces.backs + Cardinality(kept) + Cardinality(SharedSlots) + Cardinality(Unkept)
    <= faces.alone

QuotaInv ==
  /\ monthNow \in Months /\ IsFiniteSet(kept)
  /\ scans \in [Scanners -> ScanState] /\ IsFiniteSet(Busy)
  /\ counts \in Counts /\ paid \in Counts /\ wasted \in Counts /\ lost \in Counts
  /\ faces \in [alone : Nat, backs : Nat]
  /\ \A s \in Scanners : ScanShape(scans[s])
  /\ SlotsCounted /\ FacesShared

Is(b) == IF b THEN 1 ELSE 0

(* Two sets that differ by one element at most.                            *)
LEMMA OneMoves ==
  ASSUME NEW A, NEW B, NEW s, IsFiniteSet(A), \A x : x # s => (x \in A <=> x \in B)
  PROVE  /\ IsFiniteSet(B) /\ Cardinality(A) \in Nat /\ Cardinality(B) \in Nat
         /\ Cardinality(B) + Is(s \in A) = Cardinality(A) + Is(s \in B)
<1>1. Cardinality(A) \in Nat
  BY FS_CardinalityType
<1>2. CASE s \in A <=> s \in B
  <2>1. A = B
    BY <1>2
  <2> QED
    BY <1>1, <1>2, <2>1 DEF Is
<1>3. CASE s \in A /\ s \notin B
  <2>1. B = A \ {s}
    BY <1>3
  <2>2. IsFiniteSet(B) /\ Cardinality(B) = Cardinality(A) - 1
    BY <1>3, <2>1, FS_RemoveElement
  <2>3. Cardinality(B) \in Nat
    BY <2>2, FS_CardinalityType
  <2> QED
    BY <1>1, <1>3, <2>2, <2>3 DEF Is
<1>4. CASE s \notin A /\ s \in B
  <2>1. B = A \cup {s}
    BY <1>4
  <2>2. IsFiniteSet(B) /\ Cardinality(B) = Cardinality(A) + 1
    BY <1>4, <2>1, FS_AddElement
  <2> QED
    BY <1>1, <1>4, <2>2 DEF Is
<1> QED
  BY <1>2, <1>3, <1>4

(* What is held, shared or to be kept once a scan moves.                   *)
LEMMA ScanMoves ==
  ASSUME QuotaInv, NEW s \in Scanners, NEW scan \in ScanState, Becomes(s, scan)
  PROVE  /\ scans' \in [Scanners -> ScanState] /\ scans'[s] = scan
         /\ \A r \in Scanners : r # s => scans'[r] = scans[r]
         /\ IsFiniteSet(Busy')
         /\ \A c, m :
              /\ Cardinality(HeldSlots(c, m)) \in Nat /\ Cardinality(HeldSlots(c, m)') \in Nat
              /\ Cardinality(HeldSlots(c, m)') + Is(HoldsFor(scans[s], c, m))
                   = Cardinality(HeldSlots(c, m)) + Is(HoldsFor(scan, c, m))
         /\ Cardinality(SharedSlots) \in Nat /\ Cardinality(SharedSlots') \in Nat
         /\ Cardinality(SharedSlots') + Is(Shares(scans[s]))
              = Cardinality(SharedSlots) + Is(Shares(scan))
         /\ Cardinality(Unkept) \in Nat /\ Cardinality(Unkept') \in Nat
         /\ Cardinality(Unkept') + Is(ToKeep(scans[s]))
              = Cardinality(Unkept) + Is(ToKeep(scan))
<1>1. /\ scans' \in [Scanners -> ScanState] /\ scans'[s] = scan
      /\ \A r \in Scanners : r # s => scans'[r] = scans[r]
  BY DEF QuotaInv, Becomes
<1>2. IsFiniteSet(Busy) /\ \A r \in Scanners : ScanShape(scans[r])
  BY DEF QuotaInv
<1>3. IsFiniteSet(Busy')
  <2>1. \A x : x # s => (x \in Busy <=> x \in Busy')
    BY <1>1 DEF Busy
  <2> QED
    BY <1>2, <2>1, OneMoves
<1>4. ASSUME NEW c, NEW m
      PROVE  /\ Cardinality(HeldSlots(c, m)) \in Nat /\ Cardinality(HeldSlots(c, m)') \in Nat
             /\ Cardinality(HeldSlots(c, m)') + Is(HoldsFor(scans[s], c, m))
                  = Cardinality(HeldSlots(c, m)) + Is(HoldsFor(scan, c, m))
  <2>1. HeldSlots(c, m) \subseteq Busy
    BY <1>2 DEF HeldSlots, HoldsFor, Busy, ScanShape
  <2>2. \A x : x # s => (x \in HeldSlots(c, m) <=> x \in HeldSlots(c, m)')
    BY <1>1 DEF HeldSlots
  <2>3. /\ s \in HeldSlots(c, m) <=> HoldsFor(scans[s], c, m)
        /\ s \in HeldSlots(c, m)' <=> HoldsFor(scan, c, m)
    BY <1>1 DEF HeldSlots
  <2>4. IsFiniteSet(HeldSlots(c, m))
    BY <1>2, <2>1, FS_Subset
  <2>5. /\ Cardinality(HeldSlots(c, m)) \in Nat /\ Cardinality(HeldSlots(c, m)') \in Nat
        /\ Cardinality(HeldSlots(c, m)') + Is(s \in HeldSlots(c, m))
             = Cardinality(HeldSlots(c, m)) + Is(s \in HeldSlots(c, m)')
    BY <2>2, <2>4, OneMoves
  <2> QED
    BY <2>3, <2>5 DEF Is
<1>5. /\ Cardinality(SharedSlots) \in Nat /\ Cardinality(SharedSlots') \in Nat
      /\ Cardinality(SharedSlots') + Is(Shares(scans[s]))
           = Cardinality(SharedSlots) + Is(Shares(scan))
  <2>1. SharedSlots \subseteq Busy
    BY <1>2 DEF SharedSlots, Shares, Busy, ScanShape
  <2>2. \A x : x # s => (x \in SharedSlots <=> x \in SharedSlots')
    BY <1>1 DEF SharedSlots
  <2>3. /\ s \in SharedSlots <=> Shares(scans[s])
        /\ s \in SharedSlots' <=> Shares(scan)
    BY <1>1 DEF SharedSlots
  <2>4. IsFiniteSet(SharedSlots)
    BY <1>2, <2>1, FS_Subset
  <2>5. /\ Cardinality(SharedSlots) \in Nat /\ Cardinality(SharedSlots') \in Nat
        /\ Cardinality(SharedSlots') + Is(s \in SharedSlots)
             = Cardinality(SharedSlots) + Is(s \in SharedSlots')
    BY <2>2, <2>4, OneMoves
  <2> QED
    BY <2>3, <2>5 DEF Is
<1>6. /\ Cardinality(Unkept) \in Nat /\ Cardinality(Unkept') \in Nat
      /\ Cardinality(Unkept') + Is(ToKeep(scans[s])) = Cardinality(Unkept) + Is(ToKeep(scan))
  <2>1. Unkept \subseteq Busy
    BY DEF Unkept, ToKeep, Busy
  <2>2. \A x : x # s => (x \in Unkept <=> x \in Unkept')
    BY <1>1 DEF Unkept
  <2>3. /\ s \in Unkept <=> ToKeep(scans[s])
        /\ s \in Unkept' <=> ToKeep(scan)
    BY <1>1 DEF Unkept
  <2>4. IsFiniteSet(Unkept)
    BY <1>2, <2>1, FS_Subset
  <2>5. /\ Cardinality(Unkept) \in Nat /\ Cardinality(Unkept') \in Nat
        /\ Cardinality(Unkept') + Is(s \in Unkept) = Cardinality(Unkept) + Is(s \in Unkept')
    BY <2>2, <2>4, OneMoves
  <2> QED
    BY <2>3, <2>5 DEF Is
<1> QED
  BY <1>1, <1>3, <1>4, <1>5, <1>6

LEMMA TalliesMove ==
  ASSUME NEW n \in Nat, NEW p \in Nat, NEW l \in Nat, NEW h \in Nat,
         NEW n1 \in Nat, NEW p1 \in Nat, NEW l1 \in Nat, NEW h1 \in Nat,
         NEW i \in Nat, NEW j \in Nat,
         n = p + l + h, h1 + i = h + j, n1 + p + l + i = n + p1 + l1 + j
  PROVE  n1 = p1 + l1 + h1
OBVIOUS

(* It is enough that the tallies move as what the scan holds does.         *)
LEMMA ScanStays ==
  ASSUME QuotaInv, NEW s \in Scanners, NEW scan \in ScanState, Becomes(s, scan),
         ScanShape(scan), UNCHANGED monthNow, IsFiniteSet(kept'),
         counts' \in Counts, paid' \in Counts, wasted' \in Counts, lost' \in Counts,
         faces' \in [alone : Nat, backs : Nat],
         \A c \in ScanCounters, m \in Months :
           /\ counts'[c][m] + OfUse(c, m) + lost[c][m] + Is(HoldsFor(scans[s], c, m))
                = counts[c][m] + OfUse(c, m)' + lost'[c][m] + Is(HoldsFor(scan, c, m))
           /\ OfUse(c, m)' \in Nat
           /\ counts'[c][m] <= counts[c][m] \/ counts'[c][m] <= Allowed[c],
         faces'.backs + Cardinality(kept') + Is(Shares(scan)) + Is(ToKeep(scan)) + faces.alone
           <= faces.backs + Cardinality(kept) + Is(Shares(scans[s])) + Is(ToKeep(scans[s]))
                + faces'.alone
  PROVE  QuotaInv'
<1>1. /\ scans' \in [Scanners -> ScanState] /\ scans'[s] = scan
      /\ \A r \in Scanners : r # s => scans'[r] = scans[r]
      /\ IsFiniteSet(Busy')
  BY ScanMoves
<1>2. \A r \in Scanners : ScanShape(scans'[r])
  BY <1>1 DEF QuotaInv
<1>3. SlotsCounted'
  <2> SUFFICES ASSUME NEW c \in ScanCounters, NEW m \in Months
               PROVE  /\ counts'[c][m] = OfUse(c, m)' + lost'[c][m]
                                           + Cardinality(HeldSlots(c, m)')
                      /\ counts'[c][m] <= Allowed[c] /\ OfUse(c, m)' \in Nat
    BY DEF SlotsCounted
  <2>1. /\ Cardinality(HeldSlots(c, m)) \in Nat /\ Cardinality(HeldSlots(c, m)') \in Nat
        /\ Cardinality(HeldSlots(c, m)') + Is(HoldsFor(scans[s], c, m))
             = Cardinality(HeldSlots(c, m)) + Is(HoldsFor(scan, c, m))
    BY ScanMoves
  <2>2. /\ counts[c][m] = OfUse(c, m) + lost[c][m] + Cardinality(HeldSlots(c, m))
        /\ counts[c][m] <= Allowed[c] /\ Allowed[c] \in Nat /\ OfUse(c, m) \in Nat
    BY QuotaAssumption DEF QuotaInv, SlotsCounted
  <2>3. /\ counts[c][m] \in Nat /\ lost[c][m] \in Nat
        /\ counts'[c][m] \in Nat /\ lost'[c][m] \in Nat
    BY DEF QuotaInv, Counts
  <2>4. Is(HoldsFor(scans[s], c, m)) \in Nat /\ Is(HoldsFor(scan, c, m)) \in Nat
    BY DEF Is
  <2>5. /\ counts'[c][m] + OfUse(c, m) + lost[c][m] + Is(HoldsFor(scans[s], c, m))
             = counts[c][m] + OfUse(c, m)' + lost'[c][m] + Is(HoldsFor(scan, c, m))
        /\ counts'[c][m] <= counts[c][m] \/ counts'[c][m] <= Allowed[c]
        /\ OfUse(c, m)' \in Nat
    BY Zenon
  <2>6. counts'[c][m] = OfUse(c, m)' + lost'[c][m] + Cardinality(HeldSlots(c, m)')
    <3> DEFINE n == counts[c][m]
               p == OfUse(c, m)
               l == lost[c][m]
               h == Cardinality(HeldSlots(c, m))
               n1 == counts'[c][m]
               p1 == OfUse(c, m)'
               l1 == lost'[c][m]
               h1 == Cardinality(HeldSlots(c, m)')
               i == Is(HoldsFor(scans[s], c, m))
               j == Is(HoldsFor(scan, c, m))
    <3>1. /\ n \in Nat /\ p \in Nat /\ l \in Nat /\ h \in Nat /\ i \in Nat
          /\ n1 \in Nat /\ p1 \in Nat /\ l1 \in Nat /\ h1 \in Nat /\ j \in Nat
      BY <2>1, <2>2, <2>3, <2>4, <2>5
    <3>2. n = p + l + h /\ h1 + i = h + j /\ n1 + p + l + i = n + p1 + l1 + j
      BY <2>1, <2>2, <2>5
    <3>3. SUFFICES n1 = p1 + l1 + h1
      OBVIOUS
    <3> HIDE DEF n, p, l, h, n1, p1, l1, h1, i, j
    <3> QED
      BY <3>1, <3>2, TalliesMove
  <2>7. counts'[c][m] <= Allowed[c]
    BY <2>2, <2>3, <2>5
  <2> QED
    BY <2>5, <2>6, <2>7
<1>4. FacesShared'
  <2>1. /\ Cardinality(SharedSlots) \in Nat /\ Cardinality(SharedSlots') \in Nat
        /\ Cardinality(SharedSlots') + Is(Shares(scans[s]))
             = Cardinality(SharedSlots) + Is(Shares(scan))
        /\ Cardinality(Unkept) \in Nat /\ Cardinality(Unkept') \in Nat
        /\ Cardinality(Unkept') + Is(ToKeep(scans[s]))
             = Cardinality(Unkept) + Is(ToKeep(scan))
    BY ScanMoves
  <2>2. Cardinality(kept) \in Nat /\ Cardinality(kept') \in Nat
    BY FS_CardinalityType DEF QuotaInv
  <2>3. /\ faces.alone \in Nat /\ faces.backs \in Nat
        /\ faces'.alone \in Nat /\ faces'.backs \in Nat
    BY DEF QuotaInv
  <2>4. /\ Is(Shares(scans[s])) \in Nat /\ Is(Shares(scan)) \in Nat
        /\ Is(ToKeep(scans[s])) \in Nat /\ Is(ToKeep(scan)) \in Nat
    BY DEF Is
  <2>5. faces.backs + Cardinality(kept) + Cardinality(SharedSlots) + Cardinality(Unkept)
          <= faces.alone
    BY DEF QuotaInv, FacesShared
  <2>6. faces'.backs + Cardinality(kept') + Cardinality(SharedSlots') + Cardinality(Unkept')
          <= faces'.alone
    BY <2>1, <2>2, <2>3, <2>4, <2>5
  <2> QED
    BY <2>6 DEF FacesShared
<1> QED
  BY <1>1, <1>2, <1>3, <1>4 DEF QuotaInv

(* A scan is of a counter and a month.                                     *)
LEMMA ScansTyped ==
  ASSUME QuotaInv, NEW s \in Scanners
  PROVE  /\ scans[s] \in ScanState /\ ScanShape(scans[s])
         /\ scans[s].month \in Months /\ Counter(s) \in ScanCounters
         /\ Counter(s) = CounterOf(scans[s])
         /\ \A c, m : HoldsFor(scans[s], c, m) <=>
                        Held(s) /\ c = Counter(s) /\ m = scans[s].month
         /\ NoScan \in ScanState /\ ScanShape(NoScan)
         /\ ~Shares(NoScan) /\ ~ToKeep(NoScan) /\ \A c, m : ~HoldsFor(NoScan, c, m)
<1>1. scans[s] \in ScanState /\ ScanShape(scans[s])
  BY DEF QuotaInv
<1>2. scans[s].month \in Months
  BY <1>1 DEF ScanState
<1>3. Counter(s) \in ScanCounters /\ Counter(s) = CounterOf(scans[s])
  BY DEF Counter, CounterOf, ScanCounters
<1>4. \A c, m : HoldsFor(scans[s], c, m) <=>
                  Held(s) /\ c = Counter(s) /\ m = scans[s].month
  BY <1>3 DEF HoldsFor, Held, IsAt
<1>5. NoScan \in ScanState
  <2> DEFINE face == NoScan.face
  <2>1. NoScan = [at |-> "none", face |-> face, back |-> FALSE, month |-> 1,
                  slot |-> "none", text |-> "unread"]
    BY DEF NoScan
  <2>2. face \in Faces \cup {NoScan.face} /\ 1 \in Months
    BY QuotaAssumption DEF Months
  <2> HIDE DEF face
  <2> QED
    BY <2>1, <2>2 DEF ScanState
<1>6. ScanShape(NoScan)
  BY DEF NoScan, ScanShape
<1>7. ~Shares(NoScan) /\ ~ToKeep(NoScan) /\ \A c, m : ~HoldsFor(NoScan, c, m)
  BY DEF NoScan, Shares, ToKeep, HoldsFor
<1> QED
  BY <1>1, <1>2, <1>3, <1>4, <1>5, <1>6, <1>7

(* A slot that is held has been counted.                                   *)
LEMMA HeldIsCounted ==
  ASSUME QuotaInv, NEW s \in Scanners, Held(s)
  PROVE  counts[Counter(s)][scans[s].month] > 0
<1> DEFINE c == Counter(s)  m == scans[s].month
<1>1. c \in ScanCounters /\ m \in Months /\ HoldsFor(scans[s], c, m)
  BY ScansTyped
<1> HIDE DEF c, m
<1>2. /\ IsFiniteSet(Busy) /\ \A r \in Scanners : ScanShape(scans[r])
      /\ counts[c][m] = OfUse(c, m) + lost[c][m] + Cardinality(HeldSlots(c, m))
      /\ OfUse(c, m) \in Nat /\ lost[c][m] \in Nat
  BY <1>1 DEF QuotaInv, SlotsCounted, Counts
<1>3. HeldSlots(c, m) \subseteq Busy
  BY <1>2 DEF HeldSlots, HoldsFor, Busy, ScanShape
<1>4. s \in HeldSlots(c, m)
  BY <1>1 DEF HeldSlots
<1>5. Cardinality(HeldSlots(c, m)) \in Nat /\ Cardinality(HeldSlots(c, m)) # 0
  BY <1>2, <1>3, <1>4, FS_Subset, FS_CardinalityType, FS_EmptySet
<1>6. counts[c][m] > 0
  BY <1>2, <1>5
<1> QED
  BY <1>6 DEF c, m

(* No call, or one whose answer comes to nothing, leaves those of use as   *)
(* they were; another adds one to them.                                    *)
LEMMA NoCall == QuotaInv /\ UNCHANGED <<paid, wasted>> => SameUse
BY DEF QuotaInv, SameUse, OfUse

LEMMA CallIsReceived ==
  ASSUME QuotaInv, NEW s \in Scanners, NEW useful \in BOOLEAN, Received(s, useful)
  PROVE  /\ paid' \in Counts /\ wasted' \in Counts
         /\ ~useful => SameUse
         /\ \A c \in ScanCounters, m \in Months :
              useful => OfUse(c, m)' = IF c = Counter(s) /\ m = scans[s].month
                                      THEN OfUse(c, m) + 1 ELSE OfUse(c, m)
<1> DEFINE d == Counter(s)  n == scans[s].month
<1>1. d \in ScanCounters /\ n \in Months
  BY ScansTyped
<1>2. paid \in Counts /\ wasted \in Counts
  BY DEF QuotaInv
<1>3. /\ paid' = [paid EXCEPT ![d][n] = paid[d][n] + 1]
      /\ wasted' = IF useful THEN wasted ELSE [wasted EXCEPT ![d][n] = wasted[d][n] + 1]
  BY <1>1, <1>2 DEF Received, One, Counts
<1> HIDE DEF d, n
<1>4. paid[d][n] \in Nat /\ wasted[d][n] \in Nat
  BY <1>1, <1>2 DEF Counts
<1>5. /\ paid' \in Counts
      /\ \A c \in ScanCounters, m \in Months :
           paid'[c][m] = IF c = d /\ m = n THEN paid[c][m] + 1 ELSE paid[c][m]
  BY <1>1, <1>2, <1>3, <1>4 DEF Counts
<1>6. /\ wasted' \in Counts
      /\ \A c \in ScanCounters, m \in Months :
           wasted'[c][m] = IF c = d /\ m = n /\ ~useful THEN wasted[c][m] + 1
                           ELSE wasted[c][m]
  BY <1>1, <1>2, <1>3, <1>4 DEF Counts
<1>7. ASSUME NEW c \in ScanCounters, NEW m \in Months
      PROVE  OfUse(c, m)' = IF useful /\ c = d /\ m = n THEN OfUse(c, m) + 1
                           ELSE OfUse(c, m)
  <2>1. paid[c][m] \in Nat /\ wasted[c][m] \in Nat
    BY <1>2 DEF Counts
  <2>2. /\ paid'[c][m] = IF c = d /\ m = n THEN paid[c][m] + 1 ELSE paid[c][m]
        /\ wasted'[c][m] = IF c = d /\ m = n /\ ~useful THEN wasted[c][m] + 1
                           ELSE wasted[c][m]
    BY <1>5, <1>6
  <2> QED
    BY <2>1, <2>2 DEF OfUse
<1> QED
  BY <1>5, <1>6, <1>7 DEF SameUse, d, n

(* A step of a scan that counts nothing and uses no call, and does not     *)
(* change what the scan holds.                                             *)
LEMMA ScanQuiet ==
  ASSUME QuotaInv, NEW s \in Scanners, NEW scan \in ScanState, Becomes(s, scan),
         ScanShape(scan), UNCHANGED <<monthNow, counts, lost, faces>>, SameUse,
         IsFiniteSet(kept'),
         \A c \in ScanCounters, m \in Months :
           HoldsFor(scan, c, m) <=> HoldsFor(scans[s], c, m),
         Cardinality(kept') + Is(Shares(scan)) + Is(ToKeep(scan))
           <= Cardinality(kept) + Is(Shares(scans[s])) + Is(ToKeep(scans[s]))
  PROVE  QuotaInv'
<1>1. /\ counts \in Counts /\ paid' \in Counts /\ wasted' \in Counts /\ lost \in Counts
      /\ faces \in [alone : Nat, backs : Nat]
  BY DEF QuotaInv, SameUse
<1>2. ASSUME NEW c \in ScanCounters, NEW m \in Months
      PROVE  /\ counts'[c][m] + OfUse(c, m) + lost[c][m] + Is(HoldsFor(scans[s], c, m))
                  = counts[c][m] + OfUse(c, m)' + lost'[c][m] + Is(HoldsFor(scan, c, m))
             /\ OfUse(c, m)' \in Nat
             /\ counts'[c][m] <= counts[c][m]
  <2>1. OfUse(c, m)' = OfUse(c, m) /\ OfUse(c, m) \in Nat
    BY DEF SameUse, QuotaInv, SlotsCounted
  <2>2. counts[c][m] \in Nat /\ lost[c][m] \in Nat
    BY <1>1 DEF Counts
  <2>3. Is(HoldsFor(scan, c, m)) = Is(HoldsFor(scans[s], c, m))
        /\ Is(HoldsFor(scan, c, m)) \in Nat
    BY DEF Is
  <2> QED
    BY <2>1, <2>2, <2>3
<1>3. faces'.backs + Cardinality(kept') + Is(Shares(scan)) + Is(ToKeep(scan)) + faces.alone
        <= faces.backs + Cardinality(kept) + Is(Shares(scans[s])) + Is(ToKeep(scans[s]))
             + faces'.alone
  <2>1. Cardinality(kept) \in Nat /\ Cardinality(kept') \in Nat
    BY FS_CardinalityType DEF QuotaInv
  <2>2. /\ Is(Shares(scans[s])) \in Nat /\ Is(Shares(scan)) \in Nat
        /\ Is(ToKeep(scans[s])) \in Nat /\ Is(ToKeep(scan)) \in Nat
    BY DEF Is
  <2> QED
    BY <1>1, <2>1, <2>2
<1> QED
  BY <1>1, <1>2, <1>3, ScanStays

(* What the cache of the faces may do.                                     *)
LEMMA KeptFinite == QuotaInv => IsFiniteSet(kept) /\ Cardinality(kept) \in Nat
BY FS_CardinalityType DEF QuotaInv

LEMMA KeptChanges ==
  ASSUME QuotaInv, NEW f
  PROVE  /\ IsFiniteSet(kept) /\ Cardinality(kept) \in Nat
         /\ IsFiniteSet(kept \ {f}) /\ Cardinality(kept \ {f}) \in Nat
         /\ Cardinality(kept \ {f}) = IF f \in kept THEN Cardinality(kept) - 1
                                      ELSE Cardinality(kept)
         /\ IsFiniteSet(kept \cup {f}) /\ Cardinality(kept \cup {f}) \in Nat
         /\ Cardinality(kept \cup {f}) <= Cardinality(kept) + 1
<1>1. IsFiniteSet(kept)
  BY DEF QuotaInv
<1>2. /\ IsFiniteSet(kept \ {f})
      /\ Cardinality(kept \ {f}) = IF f \in kept THEN Cardinality(kept) - 1
                                   ELSE Cardinality(kept)
  BY <1>1, FS_RemoveElement
<1>3. /\ IsFiniteSet(kept \cup {f})
      /\ Cardinality(kept \cup {f}) = IF f \in kept THEN Cardinality(kept)
                                      ELSE Cardinality(kept) + 1
  BY <1>1, FS_AddElement
<1> QED
  BY <1>1, <1>2, <1>3, FS_CardinalityType

Ats == {"none", "claim", "reserve", "read", "settle", "look", "hold", "image"}
SlotKinds == {"none", "reserved", "shared"}
Texts == {"unread", "structured", "failed", "unreachable"}

Edited(new, old, at, slot, text, m) ==
  /\ new \in ScanState /\ new.back = old.back
  /\ new.at = at /\ new.slot = slot /\ new.text = text /\ new.month = m

LEMMA EditAt ==
  ASSUME NEW scan \in ScanState, NEW at \in Ats
  PROVE  Edited([scan EXCEPT !.at = at], scan, at, scan.slot, scan.text, scan.month)
BY DEF Edited, ScanState, Ats

LEMMA EditSlot ==
  ASSUME NEW scan \in ScanState, NEW at \in Ats, NEW slot \in SlotKinds
  PROVE  Edited([scan EXCEPT !.at = at, !.slot = slot], scan, at, slot, scan.text, scan.month)
BY DEF Edited, ScanState, Ats, SlotKinds

LEMMA EditText ==
  ASSUME NEW scan \in ScanState, NEW at \in Ats, NEW text \in Texts
  PROVE  Edited([scan EXCEPT !.at = at, !.text = text], scan, at, scan.slot, text, scan.month)
BY DEF Edited, ScanState, Ats, Texts

LEMMA EditMonth ==
  ASSUME NEW scan \in ScanState, NEW at \in Ats, NEW m \in Months
  PROVE  Edited([scan EXCEPT !.at = at, !.month = m], scan, at, scan.slot, scan.text, m)
BY DEF Edited, ScanState, Ats

LEMMA BeginScanStays ==
  ASSUME QuotaInv, NEW s \in Scanners, BeginScan(s) PROVE QuotaInv'
<1>1. PICK f \in Faces, back \in BOOLEAN :
        Becomes(s, [NoScan EXCEPT !.at = IF back THEN "claim" ELSE "reserve",
                      !.face = f, !.back = back, !.month = monthNow])
  BY DEF BeginScan
<1> DEFINE scan == [NoScan EXCEPT !.at = IF back THEN "claim" ELSE "reserve",
                      !.face = f, !.back = back, !.month = monthNow]
<1>3. Becomes(s, scan)
  BY <1>1
<1>4. monthNow \in Months /\ IsFiniteSet(kept) /\ Cardinality(kept) \in Nat
  BY KeptFinite DEF QuotaInv
<1>5. /\ scan \in ScanState /\ scan.at \in {"claim", "reserve"} /\ (scan.at = "claim" => back)
      /\ scan.back = back /\ scan.slot = "none" /\ scan.text = "unread"
  <2>1. NoScan \in ScanState /\ NoScan.slot = "none" /\ NoScan.text = "unread"
    BY ScansTyped DEF NoScan
  <2> QED
    BY <1>4, <2>1 DEF ScanState
<1> HIDE DEF scan
<1>6. ScanShape(scan)
  BY <1>5 DEF ScanShape
<1>7. IsAt(s, "none") /\ UNCHANGED <<monthNow, counts, kept, lost, faces>> /\ SameUse
  BY NoCall DEF BeginScan
<1>8. ~Held(s) /\ ~Shares(scans[s])
  <2>1. scans[s].slot = "none"
    BY <1>7, ScansTyped DEF ScanShape, IsAt
  <2> QED
    BY <1>7, <2>1 DEF Held, IsAt, Shares
<1>9. \A c, m : ~HoldsFor(scan, c, m) /\ ~HoldsFor(scans[s], c, m)
  BY <1>5, <1>8, ScansTyped DEF HoldsFor
<1>10. ~Shares(scan) /\ ~ToKeep(scan) /\ ~ToKeep(scans[s])
  BY <1>5, <1>7 DEF Shares, ToKeep, IsAt
<1>11. Cardinality(kept') + Is(Shares(scan)) + Is(ToKeep(scan))
         <= Cardinality(kept) + Is(Shares(scans[s])) + Is(ToKeep(scans[s]))
  BY <1>4, <1>7, <1>8, <1>10 DEF Is
<1> QED
  BY <1>3, <1>4, <1>5, <1>6, <1>7, <1>9, <1>11, ScanQuiet

LEMMA ClaimFaceStays ==
  ASSUME QuotaInv, NEW s \in Scanners, ClaimFace(s) PROVE QuotaInv'
<1> DEFINE f == scans[s].face
<1>1. /\ IsAt(s, "claim") /\ UNCHANGED <<monthNow, counts, lost, faces>> /\ SameUse
      /\ scans[s] \in ScanState /\ scans[s].back /\ scans[s].slot = "none"
      /\ scans[s].text = "unread"
  BY ScansTyped, NoCall DEF ClaimFace, ScanShape, IsAt
<1>2. ~Held(s) /\ ~Shares(scans[s]) /\ ~ToKeep(scans[s])
  BY <1>1 DEF Held, IsAt, Shares, ToKeep
<1>3. \A c, m : ~HoldsFor(scans[s], c, m)
  BY <1>2, ScansTyped
<1>4. CASE /\ f \in kept /\ kept' = kept \ {f}
           /\ Becomes(s, [scans[s] EXCEPT !.at = "read", !.slot = "shared"])
  <2> DEFINE scan == [scans[s] EXCEPT !.at = "read", !.slot = "shared"]
  <2>1. Edited(scan, scans[s], "read", "shared", "unread", scans[s].month)
    BY <1>1, EditSlot DEF Ats, SlotKinds
  <2>2. Becomes(s, scan)
    BY <1>4
  <2> HIDE DEF scan, f
  <2>3. scan \in ScanState /\ ScanShape(scan)
    BY <1>1, <2>1 DEF Edited, ScanShape
  <2>4. \A c, m : ~HoldsFor(scan, c, m)
    BY <2>1 DEF Edited, HoldsFor
  <2>5. Shares(scan) /\ ~ToKeep(scan)
    BY <2>1 DEF Edited, Shares, ToKeep
  <2>6. IsFiniteSet(kept') /\ Cardinality(kept') = Cardinality(kept) - 1
        /\ Cardinality(kept) \in Nat
    BY <1>4, KeptChanges
  <2>7. Cardinality(kept') + Is(Shares(scan)) + Is(ToKeep(scan))
          <= Cardinality(kept) + Is(Shares(scans[s])) + Is(ToKeep(scans[s]))
    BY <1>2, <2>5, <2>6 DEF Is
  <2> QED
    BY <1>1, <1>3, <2>2, <2>3, <2>4, <2>6, <2>7, ScanQuiet
<1>5. CASE /\ kept' \in {kept, kept \ {f}}
           /\ Becomes(s, [scans[s] EXCEPT !.at = "reserve"])
  <2> DEFINE scan == [scans[s] EXCEPT !.at = "reserve"]
  <2>1. Edited(scan, scans[s], "reserve", "none", "unread", scans[s].month)
    BY <1>1, EditAt DEF Ats
  <2>2. Becomes(s, scan)
    BY <1>5
  <2> HIDE DEF scan, f
  <2>3. scan \in ScanState /\ ScanShape(scan)
    BY <1>1, <2>1 DEF Edited, ScanShape
  <2>4. \A c, m : ~HoldsFor(scan, c, m)
    BY <2>1 DEF Edited, HoldsFor
  <2>5. ~Shares(scan) /\ ~ToKeep(scan)
    BY <2>1 DEF Edited, Shares, ToKeep
  <2>6. IsFiniteSet(kept') /\ Cardinality(kept') <= Cardinality(kept)
        /\ Cardinality(kept) \in Nat /\ Cardinality(kept') \in Nat
    <3>1. CASE kept' = kept
      BY <3>1, KeptFinite
    <3>2. CASE kept' = kept \ {f}
      <4>1. /\ IsFiniteSet(kept \ {f}) /\ Cardinality(kept \ {f}) \in Nat
            /\ Cardinality(kept) \in Nat
            /\ Cardinality(kept \ {f}) \in {Cardinality(kept), Cardinality(kept) - 1}
        BY KeptChanges
      <4> QED
        BY <3>2, <4>1
    <3> QED
      BY <1>5, <3>1, <3>2
  <2>7. Cardinality(kept') + Is(Shares(scan)) + Is(ToKeep(scan))
          <= Cardinality(kept) + Is(Shares(scans[s])) + Is(ToKeep(scans[s]))
    BY <1>2, <2>5, <2>6 DEF Is
  <2> QED
    BY <1>1, <1>3, <2>2, <2>3, <2>4, <2>6, <2>7, ScanQuiet
<1> QED
  BY <1>4, <1>5 DEF ClaimFace

(* A slot is taken of the counter and the month the scan is of next.       *)
LEMMA ReserveSlotStays ==
  ASSUME QuotaInv, NEW s \in Scanners, NEW next \in {"read", "image"},
         NEW otherwise \in ScanState, ReserveSlot(s, next, otherwise),
         ScanShape(otherwise), \A c, m : ~HoldsFor(otherwise, c, m),
         ~Shares(otherwise), ~ToKeep(otherwise),
         scans[s].at \in {"reserve", "hold"},
         scans[s].at = "reserve" <=> next = "read",
         UNCHANGED <<monthNow, kept, faces, lost>>, SameUse
  PROVE  QuotaInv'
<1>1. /\ scans[s] \in ScanState /\ ScanShape(scans[s]) /\ scans[s].slot = "none"
      /\ scans[s].month \in Months /\ Counter(s) \in ScanCounters
      /\ scans[s].at = "reserve" => scans[s].text = "unread"
  BY ScansTyped DEF ScanShape
<1>2. ~Held(s) /\ ~Shares(scans[s]) /\ ~ToKeep(scans[s])
  BY <1>1 DEF Held, IsAt, Shares, ToKeep
<1>3. \A c, m : ~HoldsFor(scans[s], c, m)
  BY <1>2, ScansTyped
<1>4. /\ IsFiniteSet(kept) /\ Cardinality(kept) \in Nat
      /\ counts \in Counts /\ paid' \in Counts /\ wasted' \in Counts /\ lost \in Counts
      /\ faces \in [alone : Nat, backs : Nat]
  BY KeptFinite DEF QuotaInv, SameUse
<1>5. CASE ~Below(Counter(s), scans[s].month)
  <2>1. UNCHANGED counts /\ Becomes(s, otherwise)
    BY <1>5 DEF ReserveSlot
  <2>2. Cardinality(kept') + Is(Shares(otherwise)) + Is(ToKeep(otherwise))
          <= Cardinality(kept) + Is(Shares(scans[s])) + Is(ToKeep(scans[s]))
    BY <1>2, <1>4 DEF Is
  <2> QED
    BY <1>3, <1>4, <2>1, <2>2, ScanQuiet
<1>6. CASE Below(Counter(s), scans[s].month)
  <2> DEFINE scan == [scans[s] EXCEPT !.at = next, !.slot = "reserved"]
             c == Counter(s)
             m == scans[s].month
  <2>1. Edited(scan, scans[s], next, "reserved", scans[s].text, m)
    BY <1>1, EditSlot DEF Ats, SlotKinds
  <2>2. Becomes(s, scan) /\ counts' = One(counts, s)
    BY <1>6 DEF ReserveSlot
  <2> HIDE DEF scan
  <2>3. scan \in ScanState /\ ScanShape(scan)
    BY <1>1, <2>1 DEF Edited, ScanShape
  <2>4. CounterOf(scan) = c
    BY <2>1 DEF Edited, CounterOf, Counter
  <2>5. \A d, n : HoldsFor(scan, d, n) <=> d = c /\ n = m
    BY <1>1, <2>1, <2>4 DEF Edited, HoldsFor
  <2>6. ~Shares(scan) /\ ~ToKeep(scan)
    BY <2>1 DEF Edited, Shares, ToKeep
  <2>7. counts[c][m] < Allowed[c] /\ counts[c][m] \in Nat /\ Allowed[c] \in Nat
        /\ counts' = [counts EXCEPT ![c][m] = counts[c][m] + 1]
    BY <1>1, <1>4, <1>6, <2>2, QuotaAssumption DEF Below, One, Counts
  <2>8. c \in ScanCounters /\ m \in Months
    BY <1>1
  <2> HIDE DEF c, m
  <2>9. /\ counts' \in Counts
        /\ \A d \in ScanCounters, n \in Months :
             counts'[d][n] = IF d = c /\ n = m THEN counts[c][m] + 1 ELSE counts[d][n]
    BY <1>4, <2>7, <2>8 DEF Counts
  <2>10. ASSUME NEW d \in ScanCounters, NEW n \in Months
         PROVE  /\ counts'[d][n] + OfUse(d, n) + lost[d][n] + Is(HoldsFor(scans[s], d, n))
                     = counts[d][n] + OfUse(d, n)' + lost'[d][n] + Is(HoldsFor(scan, d, n))
                /\ OfUse(d, n)' \in Nat
                /\ counts'[d][n] <= counts[d][n] \/ counts'[d][n] <= Allowed[d]
    <3>1. /\ counts[d][n] \in Nat /\ lost[d][n] \in Nat
          /\ OfUse(d, n)' = OfUse(d, n) /\ OfUse(d, n) \in Nat
      BY <1>4 DEF Counts, SameUse, QuotaInv, SlotsCounted
    <3>2. CASE d = c /\ n = m
      BY <1>3, <2>5, <2>7, <2>9, <3>1, <3>2 DEF Is
    <3>3. CASE ~(d = c /\ n = m)
      BY <1>3, <2>5, <2>9, <3>1, <3>3 DEF Is
    <3> QED
      BY <3>2, <3>3
  <2>11. faces'.backs + Cardinality(kept') + Is(Shares(scan)) + Is(ToKeep(scan)) + faces.alone
           <= faces.backs + Cardinality(kept) + Is(Shares(scans[s])) + Is(ToKeep(scans[s]))
                + faces'.alone
    BY <1>2, <1>4, <2>6 DEF Is
  <2> QED
    BY <1>4, <2>2, <2>3, <2>9, <2>10, <2>11, ScanStays
<1> QED
  BY <1>5, <1>6

LEMMA ReadTextStays ==
  ASSUME QuotaInv, NEW s \in Scanners, ReadText(s) PROVE QuotaInv'
<1> DEFINE c == Counter(s)  m == scans[s].month
<1>1. PICK text \in {"structured", "failed", "unreachable"} :
        /\ text = "structured" => scans[s].slot # "none"
        /\ Becomes(s, [scans[s] EXCEPT !.at = "settle", !.text = text])
        /\ \/ scans[s].slot = "reserved" /\ Received(s, text = "structured")
           \/ /\ text = "structured" => scans[s].slot = "shared"
              /\ UNCHANGED <<paid, wasted>>
        /\ faces' =
             CASE text = "structured" /\ scans[s].slot = "shared" ->
                    [faces EXCEPT !.backs = @ + 1]
               [] text = "structured" /\ scans[s].slot = "reserved" /\ ~scans[s].back ->
                    [faces EXCEPT !.alone = @ + 1]
               [] OTHER -> faces
  BY DEF ReadText
<1> DEFINE scan == [scans[s] EXCEPT !.at = "settle", !.text = text]
<1>2. /\ IsAt(s, "read") /\ UNCHANGED <<monthNow, counts, kept, lost>>
      /\ scans[s] \in ScanState /\ scans[s].text = "unread"
      /\ scans[s].slot = "shared" => scans[s].back
      /\ m \in Months /\ c \in ScanCounters /\ c = "text"
  BY ScansTyped DEF ReadText, ScanShape, IsAt, Counter
<1>3. /\ IsFiniteSet(kept) /\ Cardinality(kept) \in Nat
      /\ counts \in Counts /\ lost \in Counts
      /\ faces \in [alone : Nat, backs : Nat]
  BY KeptFinite DEF QuotaInv
<1>4. Edited(scan, scans[s], "settle", scans[s].slot, text, m)
  BY <1>2, EditText DEF Ats, Texts
<1>5. Becomes(s, scan)
  BY <1>1
<1> HIDE DEF scan
<1>6. scan \in ScanState /\ ScanShape(scan)
  BY <1>1, <1>2, <1>4 DEF Edited, ScanShape
<1>7. \A d, n :
        /\ HoldsFor(scans[s], d, n) <=> scans[s].slot = "reserved" /\ d = c /\ n = m
        /\ HoldsFor(scan, d, n) <=>
             scans[s].slot = "reserved" /\ text # "structured" /\ d = c /\ n = m
  BY <1>2, <1>4 DEF Edited, HoldsFor, CounterOf, IsAt
<1>8. /\ Shares(scans[s]) <=> scans[s].slot = "shared"
      /\ Shares(scan) <=> scans[s].slot = "shared" /\ text # "structured"
      /\ ~ToKeep(scans[s])
      /\ ToKeep(scan) <=> text = "structured" /\ ~scans[s].back
  BY <1>2, <1>4 DEF Edited, Shares, ToKeep, IsAt
<1> HIDE DEF c, m
<1>9. CASE text # "structured"
  <2>0. (text = "structured") = FALSE
    BY <1>9
  <2>1. SameUse /\ faces' = faces
    <3>1. faces' = faces
      BY <1>1, <1>9
    <3>2. CASE Received(s, text = "structured")
      BY <2>0, <3>1, <3>2, CallIsReceived
    <3>3. CASE UNCHANGED <<paid, wasted>>
      BY <3>1, <3>3, NoCall
    <3> QED
      BY <1>1, <3>2, <3>3
  <2>2. Cardinality(kept') + Is(Shares(scan)) + Is(ToKeep(scan))
          <= Cardinality(kept) + Is(Shares(scans[s])) + Is(ToKeep(scans[s]))
    BY <1>2, <1>3, <1>8, <1>9 DEF Is
  <2> QED
    BY <1>2, <1>3, <1>5, <1>6, <1>7, <1>9, <2>1, <2>2, ScanQuiet
<1>10. CASE text = "structured" /\ scans[s].slot = "shared"
  <2>1. /\ SameUse /\ faces' \in [alone : Nat, backs : Nat]
        /\ faces'.backs = faces.backs + 1 /\ faces'.alone = faces.alone
    BY <1>1, <1>3, <1>10, NoCall
  <2>2. faces'.backs + Cardinality(kept') + Is(Shares(scan)) + Is(ToKeep(scan)) + faces.alone
          <= faces.backs + Cardinality(kept) + Is(Shares(scans[s])) + Is(ToKeep(scans[s]))
               + faces'.alone
    BY <1>2, <1>3, <1>8, <1>10, <2>1 DEF Is
  <2>3. ASSUME NEW d \in ScanCounters, NEW n \in Months
        PROVE  /\ counts'[d][n] + OfUse(d, n) + lost[d][n] + Is(HoldsFor(scans[s], d, n))
                    = counts[d][n] + OfUse(d, n)' + lost'[d][n] + Is(HoldsFor(scan, d, n))
               /\ OfUse(d, n)' \in Nat
               /\ counts'[d][n] <= counts[d][n]
    <3>1. /\ counts[d][n] \in Nat /\ lost[d][n] \in Nat
          /\ OfUse(d, n)' = OfUse(d, n) /\ OfUse(d, n) \in Nat
      BY <1>3, <2>1 DEF Counts, SameUse, QuotaInv, SlotsCounted
    <3>2. Is(HoldsFor(scans[s], d, n)) = 0 /\ Is(HoldsFor(scan, d, n)) = 0
      BY <1>7, <1>10 DEF Is
    <3> QED
      BY <1>2, <3>1, <3>2
  <2>4. paid' \in Counts /\ wasted' \in Counts
    BY <2>1 DEF SameUse
  <2> QED
    BY <1>2, <1>3, <1>5, <1>6, <2>1, <2>2, <2>3, <2>4, ScanStays
<1>11. CASE text = "structured" /\ scans[s].slot = "reserved"
  <2>1. /\ faces' \in [alone : Nat, backs : Nat] /\ faces'.backs = faces.backs
        /\ faces'.alone = IF scans[s].back THEN faces.alone ELSE faces.alone + 1
    BY <1>1, <1>3, <1>11
  <2>2. faces'.backs + Cardinality(kept') + Is(Shares(scan)) + Is(ToKeep(scan)) + faces.alone
          <= faces.backs + Cardinality(kept) + Is(Shares(scans[s])) + Is(ToKeep(scans[s]))
               + faces'.alone
    BY <1>2, <1>3, <1>8, <1>11, <2>1 DEF Is
  <2>0. (text = "structured") = TRUE
    BY <1>11
  <2>3. Received(s, TRUE)
    BY <1>1, <1>11, <2>0
  <2>4. /\ paid' \in Counts /\ wasted' \in Counts
        /\ \A d \in ScanCounters, n \in Months :
             OfUse(d, n)' = IF d = c /\ n = m THEN OfUse(d, n) + 1 ELSE OfUse(d, n)
    BY <2>3, CallIsReceived DEF c, m
  <2>5. ASSUME NEW d \in ScanCounters, NEW n \in Months
        PROVE  /\ counts'[d][n] + OfUse(d, n) + lost[d][n] + Is(HoldsFor(scans[s], d, n))
                    = counts[d][n] + OfUse(d, n)' + lost'[d][n] + Is(HoldsFor(scan, d, n))
               /\ OfUse(d, n)' \in Nat
               /\ counts'[d][n] <= counts[d][n]
    <3>1. counts[d][n] \in Nat /\ OfUse(d, n) \in Nat /\ lost[d][n] \in Nat
      BY <1>3 DEF Counts, QuotaInv, SlotsCounted
    <3>2. counts'[d][n] = counts[d][n] /\ lost'[d][n] = lost[d][n]
      BY <1>2
    <3>3. CASE d = c /\ n = m
      <4>1. Is(HoldsFor(scans[s], d, n)) = 1 /\ Is(HoldsFor(scan, d, n)) = 0
        BY <1>7, <1>11, <3>3 DEF Is
      <4>2. OfUse(d, n)' = OfUse(d, n) + 1
        BY <2>4, <3>3
      <4> QED
        BY <3>1, <3>2, <4>1, <4>2
    <3>4. CASE ~(d = c /\ n = m)
      <4>1. Is(HoldsFor(scans[s], d, n)) = 0 /\ Is(HoldsFor(scan, d, n)) = 0
        BY <1>7, <3>4 DEF Is
      <4>2. OfUse(d, n)' = OfUse(d, n)
        BY <2>4, <3>4
      <4> QED
        BY <3>1, <3>2, <4>1, <4>2
    <3> QED
      BY <3>3, <3>4
  <2> QED
    BY <1>2, <1>3, <1>5, <1>6, <2>1, <2>2, <2>4, <2>5, ScanStays
<1> QED
  BY <1>1, <1>2, <1>9, <1>10, <1>11 DEF ScanState

(* A slot that is held is given back, or its call was of use, or it is     *)
(* lost.                                                                   *)
LEMMA SlotGoes ==
  ASSUME QuotaInv, NEW s \in Scanners, Held(s),
         NEW scan \in ScanState, Becomes(s, scan), ScanShape(scan),
         \A c, m : ~HoldsFor(scan, c, m),
         UNCHANGED <<monthNow, kept, faces>>, ~Shares(scan), ~ToKeep(scan),
         \/ ReleaseSlot(s) /\ SameUse /\ UNCHANGED lost
         \/ Received(s, TRUE) /\ UNCHANGED <<counts, lost>>
         \/ lost' = One(lost, s) /\ UNCHANGED counts /\ SameUse
  PROVE  QuotaInv'
<1> DEFINE c == Counter(s)  m == scans[s].month
<1>1. /\ IsFiniteSet(kept) /\ Cardinality(kept) \in Nat
      /\ counts \in Counts /\ lost \in Counts
      /\ faces \in [alone : Nat, backs : Nat]
  BY KeptFinite DEF QuotaInv
<1>2. /\ m \in Months /\ c \in ScanCounters
      /\ \A d, n : HoldsFor(scans[s], d, n) <=> d = c /\ n = m
  BY ScansTyped
<1>3. counts[c][m] > 0
  BY HeldIsCounted
<1>4. Is(Shares(scans[s])) \in Nat /\ Is(ToKeep(scans[s])) \in Nat
      /\ Is(Shares(scan)) = 0 /\ Is(ToKeep(scan)) = 0
  BY DEF Is
<1>5. faces'.backs + Cardinality(kept') + Is(Shares(scan)) + Is(ToKeep(scan)) + faces.alone
        <= faces.backs + Cardinality(kept) + Is(Shares(scans[s])) + Is(ToKeep(scans[s]))
             + faces'.alone
  BY <1>1, <1>4
<1> DEFINE Moves(dc, du, dl) ==
      /\ counts' \in Counts /\ lost' \in Counts
      /\ paid' \in Counts /\ wasted' \in Counts
      /\ \A d \in ScanCounters, n \in Months :
           /\ counts'[d][n] = IF d = c /\ n = m THEN counts[d][n] - dc ELSE counts[d][n]
           /\ OfUse(d, n)' = IF d = c /\ n = m THEN OfUse(d, n) + du ELSE OfUse(d, n)
           /\ lost'[d][n] = IF d = c /\ n = m THEN lost[d][n] + dl ELSE lost[d][n]
<1>6. Moves(1, 0, 0) \/ Moves(0, 1, 0) \/ Moves(0, 0, 1)
  <2>0. /\ counts[c][m] \in Nat /\ lost[c][m] \in Nat
        /\ counts[c][m] - 1 \in Nat
        /\ \A d \in ScanCounters, n \in Months :
             counts[d][n] \in Nat /\ lost[d][n] \in Nat /\ OfUse(d, n) \in Nat
    BY <1>1, <1>2, <1>3 DEF Counts, QuotaInv, SlotsCounted
  <2>1. CASE ReleaseSlot(s) /\ SameUse /\ UNCHANGED lost
    <3>1. counts' = [counts EXCEPT ![c][m] = counts[c][m] - 1]
      BY <1>1, <1>2, <1>3, <2>1 DEF ReleaseSlot, SlotMonth, Counts
    <3> HIDE DEF c, m
    <3>2. /\ counts' \in Counts
          /\ \A d \in ScanCounters, n \in Months :
               counts'[d][n] = IF d = c /\ n = m THEN counts[d][n] - 1 ELSE counts[d][n]
      BY <1>1, <1>2, <2>0, <3>1 DEF Counts
    <3>3. /\ lost' \in Counts /\ paid' \in Counts /\ wasted' \in Counts
          /\ \A d \in ScanCounters, n \in Months :
               OfUse(d, n)' = OfUse(d, n) /\ lost'[d][n] = lost[d][n]
      BY <1>1, <2>1 DEF SameUse
    <3> QED
      BY <2>0, <3>2, <3>3
  <2>2. CASE Received(s, TRUE) /\ UNCHANGED <<counts, lost>>
    <3>1. /\ paid' \in Counts /\ wasted' \in Counts
          /\ \A d \in ScanCounters, n \in Months :
               OfUse(d, n)' = IF d = c /\ n = m THEN OfUse(d, n) + 1 ELSE OfUse(d, n)
      BY <2>2, CallIsReceived
    <3> HIDE DEF c, m
    <3> QED
      BY <1>1, <2>0, <2>2, <3>1
  <2>3. CASE lost' = One(lost, s) /\ UNCHANGED counts /\ SameUse
    <3>1. lost' = [lost EXCEPT ![c][m] = lost[c][m] + 1]
      BY <1>1, <1>2, <2>3 DEF One, Counts
    <3> HIDE DEF c, m
    <3>2. /\ lost' \in Counts
          /\ \A d \in ScanCounters, n \in Months :
               lost'[d][n] = IF d = c /\ n = m THEN lost[d][n] + 1 ELSE lost[d][n]
      BY <1>1, <1>2, <2>0, <3>1 DEF Counts
    <3>3. /\ counts' \in Counts /\ paid' \in Counts /\ wasted' \in Counts
          /\ \A d \in ScanCounters, n \in Months :
               OfUse(d, n)' = OfUse(d, n) /\ counts'[d][n] = counts[d][n]
      BY <1>1, <2>3 DEF SameUse
    <3> QED
      BY <2>0, <3>2, <3>3
  <2> QED
    BY <2>1, <2>2, <2>3
<1> HIDE DEF c, m
<1>7. ASSUME NEW d \in ScanCounters, NEW n \in Months
      PROVE  /\ counts'[d][n] + OfUse(d, n) + lost[d][n] + Is(HoldsFor(scans[s], d, n))
                  = counts[d][n] + OfUse(d, n)' + lost'[d][n] + Is(HoldsFor(scan, d, n))
             /\ OfUse(d, n)' \in Nat
             /\ counts'[d][n] <= counts[d][n]
  <2>1. counts[d][n] \in Nat /\ OfUse(d, n) \in Nat /\ lost[d][n] \in Nat
    BY <1>1 DEF Counts, QuotaInv, SlotsCounted
  <2>2. CASE d = c /\ n = m
    <3>1. Is(HoldsFor(scans[s], d, n)) = 1 /\ Is(HoldsFor(scan, d, n)) = 0
      BY <1>2, <2>2 DEF Is
    <3>2. \/ /\ counts'[d][n] = counts[d][n] - 1
             /\ OfUse(d, n)' = OfUse(d, n) + 0 /\ lost'[d][n] = lost[d][n] + 0
          \/ /\ counts'[d][n] = counts[d][n] - 0
             /\ OfUse(d, n)' = OfUse(d, n) + 1 /\ lost'[d][n] = lost[d][n] + 0
          \/ /\ counts'[d][n] = counts[d][n] - 0
             /\ OfUse(d, n)' = OfUse(d, n) + 0 /\ lost'[d][n] = lost[d][n] + 1
      BY <1>6, <2>2
    <3> QED
      BY <2>1, <3>1, <3>2
  <2>3. CASE ~(d = c /\ n = m)
    <3>1. Is(HoldsFor(scans[s], d, n)) = 0 /\ Is(HoldsFor(scan, d, n)) = 0
      BY <1>2, <2>3 DEF Is
    <3>2. /\ counts'[d][n] = counts[d][n] /\ OfUse(d, n)' = OfUse(d, n)
          /\ lost'[d][n] = lost[d][n]
      BY <1>6, <2>3
    <3> QED
      BY <2>1, <3>1, <3>2
  <2> QED
    BY <2>2, <2>3
<1>8. counts' \in Counts /\ lost' \in Counts /\ paid' \in Counts /\ wasted' \in Counts
  BY <1>6
<1> QED
  BY <1>1, <1>5, <1>7, <1>8, ScanStays

LEMMA ReadImageStays ==
  ASSUME QuotaInv, NEW s \in Scanners, ReadImage(s) PROVE QuotaInv'
<1>1. Held(s)
  BY DEF ReadImage, Held
<1>2. \/ Received(s, TRUE) /\ UNCHANGED counts
      \/ ReleaseSlot(s) /\ SameUse
  BY CallIsReceived, NoCall DEF ReadImage
<1> QED
  BY <1>1, <1>2, ScansTyped, SlotGoes DEF ReadImage

LEMMA KillScanStays ==
  ASSUME QuotaInv, NEW s \in Scanners, KillScan(s) PROVE QuotaInv'
<1>0. SameUse
  BY CallIsReceived, NoCall DEF KillScan
<1>1. CASE Held(s)
  BY <1>0, <1>1, ScansTyped, SlotGoes DEF KillScan
<1>2. CASE ~Held(s)
  <2>1. \A c, m : ~HoldsFor(scans[s], c, m) /\ ~HoldsFor(NoScan, c, m)
    BY <1>2, ScansTyped
  <2>2. IsFiniteSet(kept) /\ Cardinality(kept) \in Nat
    BY KeptFinite
  <2>3. /\ Is(Shares(NoScan)) = 0 /\ Is(ToKeep(NoScan)) = 0
        /\ Is(Shares(scans[s])) \in Nat /\ Is(ToKeep(scans[s])) \in Nat
    BY ScansTyped DEF Is
  <2>4. Cardinality(kept') + Is(Shares(NoScan)) + Is(ToKeep(NoScan))
          <= Cardinality(kept) + Is(Shares(scans[s])) + Is(ToKeep(scans[s]))
    BY <2>2, <2>3 DEF KillScan
  <2> QED
    BY <1>0, <1>2, <2>1, <2>2, <2>4, ScansTyped, ScanQuiet DEF KillScan
<1> QED
  BY <1>1, <1>2

LEMMA SettleTextStays ==
  ASSUME QuotaInv, NEW s \in Scanners, SettleText(s) PROVE QuotaInv'
<1> DEFINE old == scans[s]
           scan == IF old.text = "unreachable" THEN NoScan
                   ELSE [old EXCEPT !.at = "look", !.slot = "none"]
<1>1. /\ IsAt(s, "settle") /\ UNCHANGED <<monthNow, faces, lost>> /\ Becomes(s, scan)
      /\ SameUse
      /\ CASE old.slot = "reserved" /\ old.text # "structured" ->
                ReleaseSlot(s) /\ UNCHANGED kept
           [] old.slot = "shared" /\ old.text # "structured" ->
                KeepFace(s) /\ UNCHANGED counts
           [] old.text = "structured" /\ ~old.back -> KeepFace(s) /\ UNCHANGED counts
           [] OTHER -> UNCHANGED <<counts, kept>>
  BY NoCall DEF SettleText
<1>2. old \in ScanState /\ ScanShape(old)
  BY ScansTyped
<1>3. /\ scan \in ScanState /\ ScanShape(scan) /\ \A c, m : ~HoldsFor(scan, c, m)
      /\ ~Shares(scan) /\ ~ToKeep(scan)
  <2>1. CASE old.text = "unreachable"
    BY <2>1, ScansTyped
  <2>2. CASE old.text # "unreachable"
    <3> DEFINE new == [old EXCEPT !.at = "look", !.slot = "none"]
    <3>1. Edited(new, old, "look", "none", old.text, old.month)
      BY <1>2, EditSlot DEF Ats, SlotKinds
    <3>2. scan = new
      BY <2>2
    <3> HIDE DEF new
    <3>3. new \in ScanState /\ ScanShape(new)
      BY <1>2, <3>1 DEF Edited, ScanShape
    <3>4. \A c, m : ~HoldsFor(new, c, m)
      BY <3>1 DEF Edited, HoldsFor
    <3>5. ~Shares(new) /\ ~ToKeep(new)
      BY <3>1 DEF Edited, Shares, ToKeep
    <3> QED
      BY <3>2, <3>3, <3>4, <3>5
  <2> QED
    BY <2>1, <2>2
<1> HIDE DEF scan
<1>4. /\ Held(s) <=> old.slot = "reserved" /\ old.text # "structured"
      /\ Shares(old) <=> old.slot = "shared" /\ old.text # "structured"
      /\ ToKeep(old) <=> old.text = "structured" /\ ~old.back
  BY <1>1 DEF Held, Shares, ToKeep, IsAt
<1> HIDE DEF old
<1>5. CASE Held(s)
  <2>1. ReleaseSlot(s) /\ UNCHANGED kept
    BY <1>1, <1>4, <1>5
  <2> QED
    BY <1>1, <1>3, <1>5, <2>1, SlotGoes
<1>6. CASE ~Held(s)
  <2>1. \A c, m : ~HoldsFor(scans[s], c, m)
    BY <1>6, ScansTyped
  <2>2. UNCHANGED counts /\ (UNCHANGED kept \/ (KeepFace(s) /\ (Shares(old) \/ ToKeep(old))))
    BY <1>1, <1>4, <1>6
  <2>3. IsFiniteSet(kept) /\ Cardinality(kept) \in Nat
    BY KeptFinite
  <2>4. Is(Shares(old)) \in Nat /\ Is(ToKeep(old)) \in Nat
        /\ Is(Shares(scan)) = 0 /\ Is(ToKeep(scan)) = 0
    BY <1>3 DEF Is
  <2>5. CASE UNCHANGED kept
    <3>1. Cardinality(kept') + Is(Shares(scan)) + Is(ToKeep(scan))
            <= Cardinality(kept) + Is(Shares(old)) + Is(ToKeep(old))
      BY <2>3, <2>4, <2>5
    <3> QED
      BY <1>1, <1>3, <2>1, <2>2, <2>3, <2>5, <3>1, ScanQuiet DEF old
  <2>6. CASE KeepFace(s) /\ (Shares(old) \/ ToKeep(old))
    <3>1. IsFiniteSet(kept') /\ Cardinality(kept') \in Nat
          /\ Cardinality(kept') <= Cardinality(kept) + 1
      <4> DEFINE f == scans[s].face
      <4>1. kept' \in {kept, kept \cup {f}}
        BY <2>6 DEF KeepFace
      <4> HIDE DEF f
      <4>2. /\ IsFiniteSet(kept \cup {f}) /\ Cardinality(kept \cup {f}) \in Nat
            /\ Cardinality(kept \cup {f}) <= Cardinality(kept) + 1
        BY KeptChanges
      <4> QED
        BY <2>3, <4>1, <4>2
    <3>2. Is(Shares(old)) + Is(ToKeep(old)) >= 1
      BY <2>4, <2>6 DEF Is
    <3>3. Cardinality(kept') + Is(Shares(scan)) + Is(ToKeep(scan))
            <= Cardinality(kept) + Is(Shares(old)) + Is(ToKeep(old))
      BY <2>3, <2>4, <3>1, <3>2
    <3> QED
      BY <1>1, <1>3, <2>1, <2>2, <3>1, <3>3, ScanQuiet DEF old
  <2> QED
    BY <2>2, <2>5, <2>6
<1> QED
  BY <1>5, <1>6

LEMMA LookAtTextStays ==
  ASSUME QuotaInv, NEW s \in Scanners, LookAtText(s) PROVE QuotaInv'
<1>1. /\ IsAt(s, "look") /\ UNCHANGED <<monthNow, counts, kept, faces, lost>> /\ SameUse
      /\ scans[s] \in ScanState /\ ScanShape(scans[s]) /\ scans[s].slot = "none"
      /\ monthNow \in Months /\ IsFiniteSet(kept) /\ Cardinality(kept) \in Nat
  BY ScansTyped, KeptFinite, NoCall DEF LookAtText, ScanShape, IsAt, QuotaInv
<1>2. ~Held(s) /\ ~Shares(scans[s]) /\ ~ToKeep(scans[s])
  BY <1>1 DEF Held, IsAt, Shares, ToKeep
<1>3. \A c, m : ~HoldsFor(scans[s], c, m)
  BY <1>2, ScansTyped
<1>4. ASSUME NEW scan \in ScanState, Becomes(s, scan), ScanShape(scan),
             \A c, m : ~HoldsFor(scan, c, m), ~Shares(scan), ~ToKeep(scan)
      PROVE  QuotaInv'
  <2>1. Cardinality(kept') + Is(Shares(scan)) + Is(ToKeep(scan))
          <= Cardinality(kept) + Is(Shares(scans[s])) + Is(ToKeep(scans[s]))
    BY <1>1, <1>2, <1>4 DEF Is
  <2> QED
    BY <1>1, <1>3, <1>4, <2>1, ScanQuiet
<1>5. CASE Becomes(s, NoScan)
  BY <1>4, <1>5, ScansTyped
<1>6. CASE Becomes(s, [scans[s] EXCEPT !.at = "hold", !.month = monthNow])
  <2> DEFINE scan == [scans[s] EXCEPT !.at = "hold", !.month = monthNow]
  <2>1. Edited(scan, scans[s], "hold", "none", scans[s].text, monthNow)
    BY <1>1, EditMonth DEF Ats
  <2>2. Becomes(s, scan)
    BY <1>6
  <2> HIDE DEF scan
  <2>3. scan \in ScanState /\ ScanShape(scan)
    BY <1>1, <2>1 DEF Edited, ScanShape
  <2>4. \A c, m : ~HoldsFor(scan, c, m)
    BY <2>1 DEF Edited, HoldsFor
  <2>5. ~Shares(scan) /\ ~ToKeep(scan)
    BY <2>1 DEF Edited, Shares, ToKeep
  <2> QED
    BY <1>4, <2>2, <2>3, <2>4, <2>5
<1> QED
  BY <1>5, <1>6 DEF LookAtText

LEMMA ReserveTextStays ==
  ASSUME QuotaInv, NEW s \in Scanners, ReserveText(s) PROVE QuotaInv'
<1> DEFINE scan == [scans[s] EXCEPT !.at = "read"]
<1>1. /\ scans[s].at = "reserve" /\ UNCHANGED <<monthNow, kept, faces, lost>> /\ SameUse
      /\ scans[s] \in ScanState /\ scans[s].slot = "none" /\ scans[s].text = "unread"
      /\ ReserveSlot(s, "read", scan)
  BY ScansTyped, NoCall DEF ReserveText, ScanShape, IsAt
<1>2. Edited(scan, scans[s], "read", "none", "unread", scans[s].month)
  BY <1>1, EditAt DEF Ats
<1> HIDE DEF scan
<1>3. scan \in ScanState /\ ScanShape(scan)
  BY <1>1, <1>2 DEF Edited, ScanShape
<1>4. \A c, m : ~HoldsFor(scan, c, m)
  BY <1>2 DEF Edited, HoldsFor
<1>5. ~Shares(scan) /\ ~ToKeep(scan)
  BY <1>2 DEF Edited, Shares, ToKeep
<1> QED
  BY <1>1, <1>3, <1>4, <1>5, ReserveSlotStays

LEMMA ReserveImageStays ==
  ASSUME QuotaInv, NEW s \in Scanners, ReserveImage(s) PROVE QuotaInv'
<1>1. /\ scans[s].at = "hold" /\ UNCHANGED <<monthNow, kept, faces, lost>> /\ SameUse
      /\ ReserveSlot(s, "image", NoScan)
  BY NoCall DEF ReserveImage, IsAt
<1>2. /\ NoScan \in ScanState /\ ScanShape(NoScan)
      /\ ~Shares(NoScan) /\ ~ToKeep(NoScan) /\ \A c, m : ~HoldsFor(NoScan, c, m)
  BY ScansTyped
<1> QED
  BY <1>1, <1>2, ReserveSlotStays

(* What the scans are at is what it was.                                   *)
LEMMA NoScanMoves ==
  ASSUME QuotaInv, UNCHANGED <<counts, scans, paid, wasted, faces, lost>>, monthNow' \in Months,
         kept' \subseteq kept
  PROVE  QuotaInv'
<1>1. /\ IsFiniteSet(kept') /\ Cardinality(kept') <= Cardinality(kept)
      /\ Cardinality(kept) \in Nat /\ Cardinality(kept') \in Nat
  BY KeptFinite, FS_Subset, FS_CardinalityType
<1>2. UNCHANGED <<SharedSlots, Unkept, Busy>> /\ \A c, m : HeldSlots(c, m)' = HeldSlots(c, m)
  BY DEF SharedSlots, Unkept, Busy, HeldSlots
<1>3. /\ Cardinality(SharedSlots) \in Nat /\ Cardinality(Unkept) \in Nat
      /\ faces.alone \in Nat /\ faces.backs \in Nat
  <2>1. SharedSlots \subseteq Busy /\ Unkept \subseteq Busy /\ IsFiniteSet(Busy)
    BY DEF QuotaInv, SharedSlots, Shares, Unkept, ToKeep, Busy, ScanShape
  <2>2. faces \in [alone : Nat, backs : Nat]
    BY DEF QuotaInv
  <2> QED
    BY <2>1, <2>2, FS_Subset, FS_CardinalityType
<1>4. FacesShared'
  BY <1>1, <1>2, <1>3 DEF FacesShared, QuotaInv
<1>5. SlotsCounted'
  BY <1>2 DEF SlotsCounted, QuotaInv, OfUse
<1> QED
  BY <1>1, <1>2, <1>4, <1>5 DEF QuotaInv

LEMMA QuotaStarts == QuotaInit => QuotaInv
<1> SUFFICES ASSUME QuotaInit PROVE QuotaInv
  OBVIOUS
<1> USE QuotaAssumption DEF QuotaInit
<1>1. NoScan \in ScanState /\ ScanShape(NoScan)
  <2> DEFINE face == NoScan.face
  <2>1. NoScan = [at |-> "none", face |-> face, back |-> FALSE, month |-> 1,
                  slot |-> "none", text |-> "unread"]
    BY DEF NoScan
  <2>2. face \in Faces \cup {NoScan.face} /\ 1 \in Months
    BY DEF Months
  <2> HIDE DEF face
  <2> QED
    BY <2>1, <2>2 DEF ScanState, ScanShape
<1>2. ~Shares(NoScan) /\ ~ToKeep(NoScan) /\ \A c, m : ~HoldsFor(NoScan, c, m)
  BY DEF NoScan, Shares, ToKeep, HoldsFor
<1>3. Busy = {} /\ SharedSlots = {} /\ Unkept = {} /\ \A c, m : HeldSlots(c, m) = {}
  BY <1>2 DEF Busy, SharedSlots, Unkept, HeldSlots, NoScan
<1>4. IsFiniteSet({}) /\ Cardinality({}) = 0
  BY FS_EmptySet
<1>5. NoCount \in Counts /\ \A c \in ScanCounters, m \in Months : NoCount[c][m] = 0
  BY DEF NoCount, Counts
<1>6. SlotsCounted
  <2>1. \A c \in ScanCounters : Allowed[c] \in Nat
    OBVIOUS
  <2>2. \A c, m : Cardinality(HeldSlots(c, m)) = 0
    BY <1>3, <1>4
  <2>3. counts = NoCount /\ paid = NoCount /\ wasted = NoCount /\ lost = NoCount
    OBVIOUS
  <2> QED
    BY <1>5, <2>1, <2>2, <2>3 DEF SlotsCounted, OfUse
<1>7. FacesShared
  BY <1>3, <1>4 DEF FacesShared
<1>8. monthNow \in Months /\ faces \in [alone : Nat, backs : Nat]
  BY DEF Months
<1> QED
  BY <1>1, <1>3, <1>4, <1>5, <1>6, <1>7, <1>8 DEF QuotaInv

LEMMA QuotaStays == QuotaInv /\ [QuotaNext]_quotaVars => QuotaInv'
<1> SUFFICES ASSUME QuotaInv, [QuotaNext]_quotaVars PROVE QuotaInv'
  OBVIOUS
<1>1. monthNow \in Months
  BY DEF QuotaInv
<1>2. CASE ForgetFace
  BY <1>1, <1>2, NoScanMoves DEF ForgetFace
<1>3. CASE MonthPasses
  <2>1. monthNow' \in Months
    BY <1>1, <1>3, QuotaAssumption DEF MonthPasses, Months
  <2> QED
    BY <1>3, <2>1, NoScanMoves DEF MonthPasses
<1>4. CASE UNCHANGED quotaVars
  BY <1>1, <1>4, NoScanMoves DEF quotaVars
<1> QED
  BY <1>2, <1>3, <1>4, BeginScanStays, ClaimFaceStays, ReserveTextStays, ReadTextStays,
     SettleTextStays, LookAtTextStays, ReserveImageStays, ReadImageStays, KillScanStays
     DEF QuotaNext

(* However many scans run together, fail or are killed, and though the     *)
(* month changes meanwhile, the slots a month has taken are one for one    *)
(* the calls whose answer was of use, lost or under way, within the plan;  *)
(* what is paid beyond is the calls whose answer came to nothing; and a    *)
(* back is read on the slot of one face (_reserve_scan, _release_scan,     *)
(* _settle_text_slot).                                                     *)
THEOREM ScansAreCounted == QuotaSpec => []CallsCounted
<1>1. QuotaInv => CallsCounted
  <2> SUFFICES ASSUME QuotaInv PROVE CallsCounted
    OBVIOUS
  <2>1. \A c, m : {s \in Scanners : Held(s) /\ Counter(s) = c /\ scans[s].month = m}
                    = HeldSlots(c, m)
    BY DEF HeldSlots, HoldsFor, Held, Counter, CounterOf, IsAt
  <2>2. {s \in Scanners : scans[s].slot = "shared" /\ scans[s].text # "structured"}
          = SharedSlots
    BY DEF SharedSlots, Shares
  <2>3. /\ Cardinality(SharedSlots) \in Nat /\ Cardinality(Unkept) \in Nat
        /\ Cardinality(kept) \in Nat /\ faces.alone \in Nat /\ faces.backs \in Nat
    <3>1. SharedSlots \subseteq Busy /\ Unkept \subseteq Busy /\ IsFiniteSet(Busy)
      BY DEF QuotaInv, SharedSlots, Shares, Unkept, ToKeep, Busy, ScanShape
    <3>2. faces \in [alone : Nat, backs : Nat]
      BY DEF QuotaInv
    <3> QED
      BY <3>1, <3>2, FS_Subset, FS_CardinalityType, KeptFinite
  <2>4. faces.backs + Cardinality(kept) + Cardinality(SharedSlots) <= faces.alone
    BY <2>3 DEF QuotaInv, FacesShared
  <2>5. ASSUME NEW c \in ScanCounters, NEW m \in Months
        PROVE  /\ counts[c][m] + wasted[c][m]
                    = paid[c][m] + lost[c][m] + Cardinality(HeldSlots(c, m))
               /\ counts[c][m] <= Allowed[c]
    <3>1. /\ counts[c][m] = OfUse(c, m) + lost[c][m] + Cardinality(HeldSlots(c, m))
          /\ counts[c][m] <= Allowed[c] /\ OfUse(c, m) \in Nat
      BY DEF QuotaInv, SlotsCounted
    <3>2. /\ counts[c][m] \in Nat /\ paid[c][m] \in Nat /\ wasted[c][m] \in Nat
          /\ lost[c][m] \in Nat
      BY DEF QuotaInv, Counts
    <3>3. Cardinality(HeldSlots(c, m)) \in Nat
      <4>1. HeldSlots(c, m) \subseteq Busy /\ IsFiniteSet(Busy)
        BY DEF QuotaInv, HeldSlots, HoldsFor, Busy, ScanShape
      <4> QED
        BY <4>1, FS_Subset, FS_CardinalityType
    <3> QED
      BY <3>1, <3>2, <3>3 DEF OfUse
  <2> QED
    BY <2>1, <2>2, <2>4, <2>5 DEF CallsCounted
<1> QED
  BY <1>1, QuotaStarts, QuotaStays, PTL DEF QuotaSpec

----------------------------------------------------------------------------
(* PlanPage.                                                               *)

PlanSpec == PlanInit /\ [][PlanNext]_planVars

(* At Stripe there is nothing, or a subscription to a plan.                *)
Subscribed(sub) == sub = Free \/ (StripeManaged(sub) /\ sub.choice \in PlanChoices)
StripeOK == atStripe \in PlanSubscriptions /\ Subscribed(atStripe)

(* A page that waits for an amount or for a payment is open for a choice.  *)
PageOK(page) ==
  page \in PageStates /\ (page.waits \in {"preview", "payment"} => page.sheet # NoPlan)
PagesOK == pages \in [Pages -> PageStates] /\ \A p \in Pages : PageOK(pages[p])

(* A change that was checked, and that would be paid at once, still is of  *)
(* the amount shown, unless the subscription moved.                        *)
StillAgreed(r) ==
  r.at = "checked" /\ r.kind = "immediate" =>
    r.moved \/ r.amount = Amount(r.amount.to, r.amount.date)
ChangesOK == changes \subseteq Changes /\ \A r \in changes : StillAgreed(r)

(* What was billed has its outcome, under the key of what was shown.       *)
SeenKey(b) == [date |-> b.seen.date, choice |-> b.seen.to]
BillsOK ==
  /\ \A b \in bills : b.seen \in PlanAmounts /\ b.billed \in PlanAmounts
  /\ \A b \in bills : \E o \in outcomes : o.key = SeenKey(b)
  /\ PaysWhatWasShown

ClocksOK == today \in 0..MaxClock /\ rate \in 0..MaxMoves /\ gestures \in 0..MaxGestures

PlanInv ==
  /\ StripeOK /\ inRow \in PlanSubscriptions
  /\ PagesOK /\ ChangesOK /\ BillsOK /\ ClocksOK

LEMMA NoPlanIsNoChoice ==
  /\ NoPlan \notin PlanChoices /\ \A c \in PlanChoices : c # NoPlan
  /\ Free \in PlanSubscriptions /\ Subscribed(Free) /\ ~StripeManaged(Free)
  /\ Free.choice = NoPlan /\ Free.next = NoPlan /\ Free.ending = FALSE
<1>1. NoPlan \notin PlanChoices
  BY PlansAssumption DEF NoPlan, PlanChoices
<1>2. /\ Free.status = "free" /\ Free.choice = NoPlan /\ Free.next = NoPlan
      /\ Free.ending = FALSE
  BY DEF Free, Plan
<1>3. Free \in PlanSubscriptions
  BY DEF Free, Plan, PlanSubscriptions, PlanStatuses
<1> QED
  BY <1>1, <1>2, <1>3 DEF Subscribed, StripeManaged

LEMMA PlansTyped ==
  ASSUME NEW status \in {"active", "trial"}, NEW c \in PlanChoices
  PROVE  /\ Plan(status, c) \in PlanSubscriptions /\ Plan(status, c).choice = c
         /\ Plan(status, c).status = status
BY DEF Plan, PlanSubscriptions, PlanStatuses

LEMMA CopiedTyped ==
  ASSUME PlanInv
  PROVE  Copied \in PlanSubscriptions /\ RowAfterContext \in PlanSubscriptions
<1>1. atStripe \in PlanSubscriptions /\ inRow \in PlanSubscriptions /\ Free \in PlanSubscriptions
  BY NoPlanIsNoChoice DEF PlanInv, StripeOK
<1>2. Copied \in {atStripe, inRow, Free}
  BY DEF Copied
<1> QED
  BY <1>1, <1>2 DEF RowAfterContext

(* A change the backend would make has an amount.                          *)
LEMMA AmountTyped ==
  ASSUME PlanInv, NEW c \in PlanChoices, NEW date \in 0..MaxClock, atStripe # Free
  PROVE  Amount(c, date) \in PlanAmounts
<1>1. atStripe.choice \in PlanChoices /\ rate \in 0..MaxMoves
  BY DEF PlanInv, StripeOK, Subscribed, ClocksOK
<1> QED
  BY <1>1 DEF Amount, PlanAmounts

LEMMA SupportedIsSubscribed ==
  ASSUME PlanInv, NEW c, ChangeContext(c) \in Supported
  PROVE  atStripe # Free
<1>1. StripeManaged(inRow) /\ StripeManaged(Copied)
  BY DEF ChangeContext, Supported
<1>2. SUFFICES ASSUME atStripe = Free PROVE FALSE
  OBVIOUS
<1>3. Copied = Free
  BY <1>1, <1>2 DEF Copied
<1> QED
  BY <1>1, <1>3, NoPlanIsNoChoice

----------------------------------------------------------------------------
(* What a step may do to each part of the state.                           *)

LEMMA PageGoes ==
  ASSUME PagesOK, NEW p \in Pages, NEW page, PageOK(page),
         pages' = [pages EXCEPT ![p] = page]
  PROVE  PagesOK'
<1>1. page \in PageStates
  BY DEF PageOK
<1>2. /\ pages' \in [Pages -> PageStates] /\ pages'[p] = page
      /\ \A q \in Pages : q # p => pages'[q] = pages[q]
  BY <1>1 DEF PagesOK
<1>3. \A q \in Pages : PageOK(pages'[q])
  BY <1>2 DEF PagesOK
<1> QED
  BY <1>2, <1>3 DEF PagesOK, PageOK

LEMMA ChangesMoved ==
  ASSUME ChangesOK, NEW others, others \subseteq changes, changes' = Moving(others)
  PROVE  ChangesOK'
<1> SUFFICES ASSUME NEW s \in changes' PROVE s \in Changes /\ StillAgreed(s)'
  BY DEF ChangesOK
<1>1. PICK r \in changes : s = IF r.at = "checked" THEN [r EXCEPT !.moved = TRUE] ELSE r
  BY DEF Moving
<1>2. r \in Changes /\ r.at \in {"sent", "checked"}
  BY DEF ChangesOK, Changes
<1>3. CASE r.at = "checked"
  <2>1. s = [r EXCEPT !.moved = TRUE]
    BY <1>1, <1>3
  <2>2. s \in Changes /\ s.moved
    BY <1>2, <2>1 DEF Changes
  <2> QED
    BY <2>2 DEF StillAgreed
<1>4. CASE r.at # "checked"
  BY <1>1, <1>2, <1>4 DEF StillAgreed
<1> QED
  BY <1>3, <1>4

LEMMA ChangesStay ==
  ASSUME ChangesOK, changes' \subseteq changes, atStripe'.choice = atStripe.choice, rate' = rate
  PROVE  ChangesOK'
BY DEF ChangesOK, StillAgreed, Amount

LEMMA ChangeAdded ==
  ASSUME ChangesOK, NEW s \in Changes, StillAgreed(s), changes' \subseteq changes \cup {s},
         atStripe'.choice = atStripe.choice, rate' = rate
  PROVE  ChangesOK'
BY DEF ChangesOK, StillAgreed, Amount

LEMMA BillsStay ==
  ASSUME BillsOK, bills' = bills, outcomes \subseteq outcomes'
  PROVE  BillsOK'
BY DEF BillsOK, PaysWhatWasShown

(* What a page becomes.                                                    *)
LEMMA RestIsOK ==
  ASSUME NEW sub \in PlanSubscriptions, NEW back \in {"no", "confirming", "pending"}
  PROVE  PageOK(PageAtRest(sub)) /\ PageOK([PageAtRest(sub) EXCEPT !.back = back])
<1>1. PageAtRest(sub) \in PageStates /\ PageAtRest(sub).waits = "nothing"
  BY DEF PageAtRest, PageStates, Previews
<1>2. /\ [PageAtRest(sub) EXCEPT !.back = back] \in PageStates
      /\ [PageAtRest(sub) EXCEPT !.back = back].waits = "nothing"
  BY <1>1 DEF PageStates
<1> QED
  BY <1>1, <1>2 DEF PageOK

LEMMA RefusedIsOK ==
  ASSUME NEW page, PageOK(page), NEW kind
  PROVE  PageOK(PlanRefused(page, kind))
<1> DEFINE error == IF kind = "unreachable" THEN "failed" ELSE "blocked"
           new == [page EXCEPT !.waits = "nothing", !.error = error]
<1>1. error \in {"failed", "blocked"}
  OBVIOUS
<1> HIDE DEF error
<1>2. new \in PageStates /\ new.waits = "nothing"
  BY <1>1 DEF PageOK, PageStates
<1> QED
  BY <1>2 DEF PageOK, PlanRefused, error

LEMMA AnsweredPages ==
  ASSUME PagesOK, NEW r \in Changes, NEW answer, PageOK(answer), pages' = Answered(r, answer)
  PROVE  PagesOK'
<1>1. r.page \in Pages
  BY DEF Changes
<1> DEFINE page == IF r.heard /\ pages[r.page].waits = "change" THEN answer ELSE pages[r.page]
<1>2. PageOK(page)
  BY <1>1 DEF PagesOK
<1>3. pages' = [pages EXCEPT ![r.page] = page]
  BY DEF Answered
<1> HIDE DEF page
<1> QED
  BY <1>1, <1>2, <1>3, PageGoes

LEMMA ShowingIsOK ==
  ASSUME NEW page, PageOK(page), NEW sub \in PlanSubscriptions
  PROVE  PageOK(Showing(page, sub))
<1>1. CASE page.sheet = NoPlan \/ StripeManaged(page.shown) = StripeManaged(sub)
  <2> DEFINE new == [page EXCEPT !.shown = sub]
  <2>1. new \in PageStates /\ new.waits = page.waits /\ new.sheet = page.sheet
    BY DEF PageOK, PageStates
  <2>2. Showing(page, sub) = new
    BY <1>1 DEF Showing
  <2> HIDE DEF new
  <2> QED
    BY <2>1, <2>2 DEF PageOK
<1>2. CASE ~(page.sheet = NoPlan \/ StripeManaged(page.shown) = StripeManaged(sub))
  <2> DEFINE waits == IF StripeManaged(sub) THEN "preview" ELSE "nothing"
             new == [page EXCEPT !.shown = sub, !.preview = NoPreview, !.error = "none",
                       !.waits = waits]
  <2>0. waits \in {"preview", "nothing"} /\ NoPreview \in Previews
    BY DEF Previews
  <2> HIDE DEF waits
  <2>1. new \in PageStates /\ new.sheet = page.sheet
    BY <2>0 DEF PageOK, PageStates
  <2>2. Showing(page, sub) = new
    BY <1>2 DEF Showing, waits
  <2> HIDE DEF new
  <2> QED
    BY <1>2, <2>1, <2>2 DEF PageOK
<1> QED
  BY <1>1, <1>2

LEMMA GestureTyped == ClocksOK /\ Gesture => gestures' \in 0..MaxGestures
BY MovesAssumption DEF ClocksOK, Gesture

(* A step that changes nothing at Stripe, and no change of plan.           *)
LEMMA OnlyShown ==
  ASSUME PlanInv, PagesOK', inRow' \in PlanSubscriptions,
         UNCHANGED <<atStripe, changes, outcomes, bills, today, rate>>,
         gestures' \in 0..MaxGestures
  PROVE  PlanInv'
<1>1. ChangesOK' /\ BillsOK'
  BY ChangesStay, BillsStay DEF PlanInv
<1> QED
  BY <1>1 DEF PlanInv, StripeOK, ClocksOK, Subscribed

LEMMA RereadPlanStays ==
  ASSUME PlanInv, NEW p \in Pages, RereadPlan(p) PROVE PlanInv'
<1>1. PageOK(Showing(pages[p], inRow))
  BY ShowingIsOK DEF PlanInv, PagesOK
<1>2. PagesOK'
  BY <1>1, PageGoes DEF PlanInv, RereadPlan
<1> QED
  BY <1>2, OnlyShown DEF RereadPlan, PlanInv, ClocksOK

LEMMA ChoosePlanStays ==
  ASSUME PlanInv, NEW p \in Pages, NEW choice \in PlanChoices, ChoosePlan(p, choice)
  PROVE  PlanInv'
<1> DEFINE waits == IF StripeManaged(pages[p].shown) THEN "preview" ELSE pages[p].waits
           page == [pages[p] EXCEPT !.sheet = choice, !.preview = NoPreview,
                      !.error = "none", !.waits = waits]
<1>1. PageOK(pages[p]) /\ pages \in [Pages -> PageStates] /\ choice # NoPlan
  BY NoPlanIsNoChoice DEF PlanInv, PagesOK
<1>2. waits \in {"nothing", "preview", "change", "payment"} /\ NoPreview \in Previews
  BY <1>1 DEF PageOK, PageStates, Previews
<1>3. pages' = [pages EXCEPT ![p] = page]
  BY <1>1 DEF ChoosePlan
<1> HIDE DEF waits
<1>4. page \in PageStates /\ page.sheet = choice
  BY <1>1, <1>2 DEF PageOK, PageStates
<1> HIDE DEF page
<1>5. PagesOK'
  BY <1>1, <1>3, <1>4, PageGoes DEF PlanInv, PageOK
<1> QED
  BY <1>5, OnlyShown, GestureTyped DEF ChoosePlan, PlanInv

LEMMA ClosePlanSheetStays ==
  ASSUME PlanInv, NEW p \in Pages, ClosePlanSheet(p) PROVE PlanInv'
<1> DEFINE page == [pages[p] EXCEPT !.sheet = NoPlan, !.preview = NoPreview,
                      !.waits = "nothing", !.error = "none"]
<1>1. PageOK(pages[p]) /\ pages \in [Pages -> PageStates] /\ NoPreview \in Previews
  BY DEF PlanInv, PagesOK, Previews
<1>2. pages' = [pages EXCEPT ![p] = page]
  BY <1>1 DEF ClosePlanSheet
<1>3. page \in PageStates /\ page.waits = "nothing"
  BY <1>1 DEF PageOK, PageStates
<1> HIDE DEF page
<1>4. PagesOK'
  BY <1>2, <1>3, PageGoes DEF PlanInv, PageOK
<1> QED
  BY <1>4, OnlyShown DEF ClosePlanSheet, PlanInv, ClocksOK

LEMMA AnswerPreviewStays ==
  ASSUME PlanInv, NEW p \in Pages, AnswerPreview(p) PROVE PlanInv'
<1> DEFINE context == ChangeContext(pages[p].sheet)
<1>1. PageOK(pages[p]) /\ pages[p].sheet \in PlanChoices /\ today \in 0..MaxClock
  BY DEF PlanInv, PagesOK, PageOK, PageStates, AnswerPreview, ClocksOK
<1>2. CASE context \in Supported /\ inRow' = RowAfterContext
           /\ pages' = [pages EXCEPT ![p] =
                [pages[p] EXCEPT !.waits = "nothing", !.preview =
                   [kind |-> context, amount |-> Amount(pages[p].sheet, today)]]]
  <2>1. Amount(pages[p].sheet, today) \in PlanAmounts
    BY <1>1, <1>2, SupportedIsSubscribed, AmountTyped
  <2> DEFINE preview == [kind |-> context, amount |-> Amount(pages[p].sheet, today)]
             page == [pages[p] EXCEPT !.waits = "nothing", !.preview = preview]
  <2>2. preview \in Previews
    BY <1>2, <2>1 DEF Previews
  <2>3. pages' = [pages EXCEPT ![p] = page]
    BY <1>2
  <2> HIDE DEF preview
  <2>4. page \in PageStates /\ page.waits = "nothing"
    BY <1>1, <2>2 DEF PageOK, PageStates
  <2> HIDE DEF page
  <2>5. PagesOK'
    BY <2>3, <2>4, PageGoes DEF PlanInv, PageOK
  <2> QED
    BY <1>2, <2>5, CopiedTyped, OnlyShown DEF AnswerPreview, PlanInv, ClocksOK
<1>3. CASE inRow' \in {inRow, RowAfterContext}
           /\ \E kind : pages' = [pages EXCEPT ![p] = PlanRefused(pages[p], kind)]
  <2>1. PICK kind : pages' = [pages EXCEPT ![p] = PlanRefused(pages[p], kind)]
    BY <1>3
  <2>2. PagesOK'
    BY <1>1, <2>1, RefusedIsOK, PageGoes DEF PlanInv
  <2> QED
    BY <1>3, <2>2, CopiedTyped, OnlyShown DEF AnswerPreview, PlanInv, ClocksOK
<1> QED
  BY <1>2, <1>3 DEF AnswerPreview

LEMMA RetryChangeStays ==
  ASSUME PlanInv, NEW p \in Pages, RetryChange(p) PROVE PlanInv'
<1> DEFINE page == [pages[p] EXCEPT !.waits = "preview", !.error = "none",
                      !.preview = NoPreview]
<1>1. PageOK(pages[p]) /\ pages \in [Pages -> PageStates] /\ NoPreview \in Previews
      /\ pages[p].sheet # NoPlan
  BY DEF PlanInv, PagesOK, Previews, RetryChange
<1>2. pages' = [pages EXCEPT ![p] = page]
  BY <1>1 DEF RetryChange
<1>3. page \in PageStates /\ page.sheet = pages[p].sheet
  BY <1>1 DEF PageOK, PageStates
<1> HIDE DEF page
<1>4. PagesOK'
  BY <1>1, <1>2, <1>3, PageGoes DEF PlanInv, PageOK
<1> QED
  BY <1>4, OnlyShown, GestureTyped DEF RetryChange, PlanInv

LEMMA StartCheckoutStays ==
  ASSUME PlanInv, NEW p \in Pages, StartCheckout(p) PROVE PlanInv'
<1>1. PageOK(pages[p]) /\ pages \in [Pages -> PageStates] /\ pages[p].sheet # NoPlan
  BY DEF PlanInv, PagesOK, StartCheckout
<1>2. inRow' \in PlanSubscriptions /\ gestures' \in 0..MaxGestures
  BY CopiedTyped, GestureTyped DEF StartCheckout, PlanInv
<1>3. PICK page \in {[pages[p] EXCEPT !.error = "blocked"],
                     [pages[p] EXCEPT !.waits = "payment"]} :
        pages' = [pages EXCEPT ![p] = page]
  BY <1>1 DEF StartCheckout
<1>4. page \in PageStates /\ page.sheet # NoPlan
  BY <1>1, <1>3 DEF PageOK, PageStates
<1>5. PagesOK'
  BY <1>3, <1>4, PageGoes DEF PlanInv, PageOK
<1> QED
  BY <1>2, <1>5, OnlyShown DEF StartCheckout

LEMMA ConfirmPaymentStays ==
  ASSUME PlanInv, NEW p \in Pages, ConfirmPayment(p) PROVE PlanInv'
<1>1. PageOK(pages[p]) /\ pages \in [Pages -> PageStates]
  BY DEF PlanInv, PagesOK
<1>2. inRow' \in PlanSubscriptions
  BY CopiedTyped DEF ConfirmPayment, PlanInv
<1>3. PICK page \in {pages[p], [pages[p] EXCEPT !.back = "no"],
                     [pages[p] EXCEPT !.back = "pending"]} :
        pages' = [pages EXCEPT ![p] = page]
  BY <1>1 DEF ConfirmPayment
<1>4. page \in PageStates /\ page.sheet = pages[p].sheet /\ page.waits = pages[p].waits
  BY <1>1, <1>3 DEF PageOK, PageStates
<1>5. PagesOK'
  BY <1>1, <1>3, <1>4, PageGoes DEF PlanInv, PageOK
<1> QED
  BY <1>2, <1>5, OnlyShown DEF ConfirmPayment, PlanInv, ClocksOK

(* A change that is sent.                                                  *)
LEMMA ConfirmChangeStays ==
  ASSUME PlanInv, NEW p \in Pages, ConfirmChange(p) PROVE PlanInv'
<1> DEFINE preview == pages[p].preview
           r == [page |-> p, kind |-> preview.kind, amount |-> preview.amount,
                 at |-> "sent", moved |-> FALSE, heard |-> TRUE]
           page == [pages[p] EXCEPT !.waits = "change", !.error = "none"]
<1>1. PageOK(pages[p]) /\ pages \in [Pages -> PageStates]
      /\ UNCHANGED <<atStripe, inRow, outcomes, bills, today, rate>>
      /\ changes' = changes \cup {r}
  BY DEF PlanInv, PagesOK, ConfirmChange
<1>2. preview \in [kind : Supported, amount : PlanAmounts]
  BY <1>1 DEF ConfirmChange, PageOK, PageStates, Previews
<1>3. r \in Changes /\ r.at = "sent"
  BY <1>2 DEF Changes
<1>4. pages' = [pages EXCEPT ![p] = page]
  BY <1>1 DEF ConfirmChange
<1>5. page \in PageStates /\ page.waits = "change"
  BY <1>1 DEF PageOK, PageStates
<1> HIDE DEF r, page
<1>6. PagesOK'
  BY <1>4, <1>5, PageGoes DEF PlanInv, PageOK
<1>7. ChangesOK'
  <2>1. StillAgreed(r)
    BY <1>3 DEF StillAgreed
  <2> QED
    BY <1>1, <1>3, <2>1, ChangeAdded DEF PlanInv
<1>8. BillsOK' /\ gestures' \in 0..MaxGestures
  BY <1>1, BillsStay, GestureTyped DEF PlanInv, ConfirmChange
<1> QED
  BY <1>1, <1>6, <1>7, <1>8 DEF PlanInv, StripeOK, ClocksOK, Subscribed

LEMMA LoseAnswerStays ==
  ASSUME PlanInv, NEW r \in changes, LoseAnswer(r) PROVE PlanInv'
<1> DEFINE s == [r EXCEPT !.heard = FALSE]
           page == IF pages[r.page].waits = "change"
                   THEN PlanRefused(pages[r.page], "unreachable") ELSE pages[r.page]
<1>1. /\ UNCHANGED <<atStripe, inRow, outcomes, bills, today, rate, gestures>>
      /\ changes' = (changes \ {r}) \cup {s} /\ r \in Changes /\ StillAgreed(r)
      /\ r.page \in Pages
  BY DEF LoseAnswer, PlanInv, ChangesOK, Changes
<1>2. /\ s \in Changes /\ s.at = r.at /\ s.kind = r.kind /\ s.moved = r.moved
      /\ s.amount = r.amount
  BY <1>1 DEF Changes
<1>3. pages' = [pages EXCEPT ![r.page] = page]
  BY DEF LoseAnswer
<1>4. PageOK(page)
  BY <1>1, RefusedIsOK DEF PlanInv, PagesOK
<1> HIDE DEF s, page
<1>5. PagesOK'
  BY <1>1, <1>3, <1>4, PageGoes DEF PlanInv
<1>6. ChangesOK'
  <2>1. StillAgreed(s)
    BY <1>1, <1>2 DEF StillAgreed
  <2> QED
    BY <1>1, <1>2, <2>1, ChangeAdded DEF PlanInv
<1>7. BillsOK'
  BY <1>1, BillsStay DEF PlanInv
<1> QED
  BY <1>1, <1>5, <1>6, <1>7 DEF PlanInv, StripeOK, ClocksOK, Subscribed

LEMMA CheckChangeStays ==
  ASSUME PlanInv, NEW r \in changes, CheckChange(r) PROVE PlanInv'
<1> DEFINE context == ChangeContext(r.amount.to)
           page == pages[r.page]
           date == IF today - r.amount.date <= MaxAge THEN r.amount.date ELSE today
           preview == [kind |-> "immediate", amount |-> Amount(r.amount.to, date)]
           again == [page EXCEPT !.waits = "nothing", !.preview = preview]
           s == [r EXCEPT !.at = "checked", !.kind = context]
<1>1. /\ UNCHANGED <<atStripe, outcomes, bills, today, rate, gestures>>
      /\ inRow' = RowAfterContext /\ r \in Changes /\ r.page \in Pages
      /\ r.amount \in PlanAmounts /\ today \in 0..MaxClock
  BY DEF CheckChange, PlanInv, ChangesOK, Changes, ClocksOK
<1>2. r.amount.to \in PlanChoices /\ r.amount.date \in 0..MaxClock
  BY <1>1 DEF PlanAmounts
<1>3. PageOK(page) /\ page \in PageStates
  BY <1>1 DEF PlanInv, PagesOK, PageOK
<1>4. inRow' \in PlanSubscriptions /\ BillsOK'
  BY <1>1, CopiedTyped, BillsStay DEF PlanInv
<1>5. SUFFICES PagesOK' /\ ChangesOK'
  BY <1>1, <1>4 DEF PlanInv, StripeOK, ClocksOK, Subscribed
<1>6. CASE context \notin Supported
  <2>1. changes' = changes \ {r} /\ pages' = Answered(r, PlanRefused(page, context))
    BY <1>6 DEF CheckChange, Supported
  <2>2. PagesOK'
    BY <1>1, <1>3, <2>1, RefusedIsOK, AnsweredPages DEF PlanInv
  <2>3. ChangesOK'
    BY <1>1, <2>1, ChangesStay DEF PlanInv
  <2> QED
    BY <2>2, <2>3
<1>7. CASE context = "immediate" /\ ~Agreed(r.amount)
  <2>1. changes' = changes \ {r} /\ pages' = Answered(r, again)
    BY <1>7 DEF CheckChange, Supported
  <2>2. preview \in Previews
    <3>1. date \in 0..MaxClock
      BY <1>1, <1>2
    <3>2. atStripe # Free
      BY <1>7, SupportedIsSubscribed DEF Supported
    <3> HIDE DEF date
    <3>3. Amount(r.amount.to, date) \in PlanAmounts
      BY <1>2, <3>1, <3>2, AmountTyped
    <3> QED
      BY <3>3 DEF Previews, Supported
  <2> HIDE DEF preview
  <2>3. again \in PageStates /\ again.waits = "nothing"
    BY <1>3, <2>2 DEF PageStates
  <2> HIDE DEF again
  <2>4. PagesOK'
    BY <1>1, <2>1, <2>3, AnsweredPages DEF PlanInv, PageOK
  <2>5. ChangesOK'
    BY <1>1, <2>1, ChangesStay DEF PlanInv
  <2> QED
    BY <2>4, <2>5
<1>8. CASE context \in Supported /\ (context = "immediate" => Agreed(r.amount))
  <2>1. changes' = (changes \ {r}) \cup {s} /\ UNCHANGED pages
    BY <1>8 DEF CheckChange, Supported
  <2> HIDE DEF context
  <2>2. s \in Changes /\ s.kind = context /\ s.amount = r.amount
    BY <1>1, <1>8 DEF Changes
  <2> HIDE DEF s
  <2>3. StillAgreed(s)
    BY <1>8, <2>2 DEF StillAgreed, Agreed, context
  <2>5. ChangesOK'
    BY <1>1, <2>1, <2>2, <2>3, ChangeAdded DEF PlanInv
  <2>6. PagesOK'
    BY <2>1 DEF PlanInv, PagesOK, PageOK
  <2> QED
    BY <2>5, <2>6
<1> QED
  BY <1>6, <1>7, <1>8

(* What is left once Stripe has answered.                                  *)
LEMMA Settled ==
  ASSUME PlanInv, NEW r \in changes, atStripe' \in PlanSubscriptions, Settle(r)
  PROVE  PagesOK' /\ inRow' \in PlanSubscriptions
<1>1. r \in Changes /\ r.page \in Pages
  BY DEF PlanInv, ChangesOK, Changes
<1>2. PageOK(pages[r.page]) /\ pages \in [Pages -> PageStates]
  BY <1>1 DEF PlanInv, PagesOK
<1>3. CASE /\ inRow' = atStripe'
           /\ pages' = [pages EXCEPT ![r.page] =
                IF r.heard THEN [PageAtRest(inRow') EXCEPT !.back = pages[r.page].back]
                ELSE pages[r.page]]
  <2> DEFINE page == IF r.heard THEN [PageAtRest(inRow') EXCEPT !.back = pages[r.page].back]
                     ELSE pages[r.page]
  <2>1. pages[r.page].back \in {"no", "confirming", "pending"}
    BY <1>2 DEF PageOK, PageStates
  <2>2. PageOK([PageAtRest(inRow') EXCEPT !.back = pages[r.page].back])
    BY <1>3, <2>1, RestIsOK
  <2>3. PageOK(page)
    BY <1>2, <2>2
  <2>4. pages' = [pages EXCEPT ![r.page] = page]
    BY <1>3
  <2> HIDE DEF page
  <2> QED
    BY <1>1, <1>3, <2>3, <2>4, PageGoes DEF PlanInv
<1>4. CASE /\ UNCHANGED inRow
           /\ pages' = Answered(r, PlanRefused(pages[r.page], "unreachable"))
  BY <1>1, <1>2, <1>4, RefusedIsOK, AnsweredPages DEF PlanInv
<1> QED
  BY <1>3, <1>4 DEF Settle

LEMMA UpdateFailed ==
  ASSUME PlanInv, NEW r \in changes, NEW error \in {"payment", "failed"}, FailUpdate(r, error),
         outcomes \subseteq outcomes', UNCHANGED <<today, rate, gestures>>
  PROVE  PlanInv'
<1> DEFINE answer == [pages[r.page] EXCEPT !.waits = "nothing", !.error = error]
<1>1. r \in Changes /\ r.page \in Pages
  BY DEF PlanInv, ChangesOK, Changes
<1>2. PageOK(pages[r.page])
  BY <1>1 DEF PlanInv, PagesOK
<1>3. answer \in PageStates /\ answer.waits = "nothing"
  BY <1>2 DEF PageOK, PageStates
<1>4. pages' = Answered(r, answer)
  BY DEF FailUpdate
<1> HIDE DEF answer
<1>5. PagesOK'
  BY <1>1, <1>3, <1>4, AnsweredPages DEF PlanInv, PageOK
<1>6. inRow' \in PlanSubscriptions
  BY CopiedTyped DEF FailUpdate, PlanInv
<1>7. ChangesOK' /\ BillsOK' /\ UNCHANGED atStripe
  BY ChangesStay, BillsStay DEF FailUpdate, PlanInv
<1> QED
  BY <1>5, <1>6, <1>7 DEF PlanInv, StripeOK, ClocksOK, Subscribed

LEMMA ChargeChangeStays ==
  ASSUME PlanInv, NEW r \in changes, ChargeChange(r) PROVE PlanInv'
<1> DEFINE bill == [nth |-> Cardinality(bills) + 1, seen |-> r.amount,
                    billed |-> Amount(r.amount.to, r.amount.date), moved |-> r.moved]
<1>1. /\ UNCHANGED <<today, rate, gestures>> /\ r \in Changes /\ StillAgreed(r)
      /\ r.at = "checked" /\ r.kind = "immediate" /\ atStripe # Free
      /\ r.amount \in PlanAmounts
  BY DEF ChargeChange, PlanInv, ChangesOK, Changes
<1>2. r.amount.to \in PlanChoices /\ r.amount.date \in 0..MaxClock
  BY <1>1 DEF PlanAmounts
<1>3. ClocksOK'
  BY <1>1 DEF PlanInv, ClocksOK
<1>4. CASE /\ \A o \in outcomes : o.key # Key(r)
           /\ atStripe' = PlanChanged(r.amount.to) /\ bills' = bills \cup {bill}
           /\ outcomes' = outcomes \cup {[key |-> Key(r), paid |-> TRUE]}
           /\ changes' = Moving(changes \ {r}) /\ Settle(r)
  <2>1. /\ atStripe' \in PlanSubscriptions /\ atStripe'.choice = r.amount.to
        /\ atStripe'.status = atStripe.status
    BY <1>2, <1>4 DEF PlanChanged, PlanInv, StripeOK, PlanSubscriptions
  <2>2. StripeOK'
    BY <1>1, <1>2, <2>1 DEF PlanInv, StripeOK, Subscribed, StripeManaged
  <2>3. PagesOK' /\ inRow' \in PlanSubscriptions
    BY <1>4, <2>1, Settled
  <2>4. ChangesOK'
    BY <1>4, ChangesMoved DEF PlanInv
  <2>5. /\ bill.seen = r.amount /\ bill.billed = Amount(r.amount.to, r.amount.date)
        /\ bill.moved = r.moved /\ SeenKey(bill) = Key(r)
    BY DEF SeenKey, Key
  <2>6. bill.billed \in PlanAmounts
    BY <1>1, <1>2, AmountTyped
  <2>7. bill.billed = bill.seen \/ bill.moved
    BY <1>1, <2>5 DEF StillAgreed
  <2> HIDE DEF bill
  <2>8. \A b \in bills : \E o \in outcomes : o.key = SeenKey(b)
    BY DEF PlanInv, BillsOK
  <2>9. \A b \in bills : SeenKey(b) # SeenKey(bill)
    BY <1>4, <2>5, <2>8
  <2>10. \A b \in bills : ~(b.seen.date = bill.seen.date /\ b.seen.to = bill.seen.to)
    BY <2>9 DEF SeenKey
  <2>11. PaysWhatWasShown'
    BY <1>4, <2>7, <2>10 DEF PlanInv, BillsOK, PaysWhatWasShown
  <2>12. \A b \in bills' : \E o \in outcomes' : o.key = SeenKey(b)
    <3>1. [key |-> Key(r), paid |-> TRUE].key = SeenKey(bill)
      BY <2>5
    <3> QED
      BY <1>4, <2>8, <3>1
  <2>13. BillsOK'
    BY <1>1, <1>4, <2>5, <2>6, <2>11, <2>12 DEF PlanInv, BillsOK, SeenKey
  <2> QED
    BY <1>3, <2>2, <2>3, <2>4, <2>13 DEF PlanInv
<1>5. CASE /\ outcomes' = outcomes \cup {[key |-> Key(r), paid |-> FALSE]}
           /\ FailUpdate(r, "payment")
  BY <1>1, <1>5, UpdateFailed
<1>6. CASE /\ changes' = changes \ {r} /\ UNCHANGED <<atStripe, bills, outcomes>>
           /\ Settle(r)
  <2>1. PagesOK' /\ inRow' \in PlanSubscriptions
    BY <1>6, Settled DEF PlanInv, StripeOK
  <2>2. ChangesOK' /\ BillsOK'
    BY <1>1, <1>6, ChangesStay, BillsStay DEF PlanInv
  <2> QED
    BY <1>3, <1>6, <2>1, <2>2 DEF PlanInv, StripeOK, Subscribed
<1>7. CASE FailUpdate(r, "payment") /\ UNCHANGED outcomes
  BY <1>1, <1>7, UpdateFailed
<1> QED
  BY <1>4, <1>5, <1>6, <1>7 DEF ChargeChange

LEMMA PlanChangeStays ==
  ASSUME PlanInv, NEW r \in changes, PlanChange(r) PROVE PlanInv'
<1>1. /\ UNCHANGED <<outcomes, bills, today, rate, gestures>> /\ atStripe # Free
      /\ r.amount.to \in PlanChoices
  BY DEF PlanChange, PlanInv, ChangesOK, Changes, PlanAmounts
<1>2. /\ atStripe' \in PlanSubscriptions /\ atStripe'.choice = atStripe.choice
      /\ atStripe'.status = atStripe.status
  BY <1>1 DEF PlanChange, PlanInv, StripeOK, PlanSubscriptions
<1>3. StripeOK'
  BY <1>1, <1>2 DEF PlanInv, StripeOK, Subscribed, StripeManaged
<1>4. PagesOK' /\ inRow' \in PlanSubscriptions
  BY <1>2, Settled DEF PlanChange
<1>5. ChangesOK' /\ BillsOK'
  BY <1>1, ChangesMoved, BillsStay DEF PlanInv, PlanChange
<1> QED
  BY <1>1, <1>3, <1>4, <1>5 DEF PlanInv, ClocksOK

(* What is asked of Stripe apart from changing plan leaves nothing, or a   *)
(* subscription to a plan.                                                 *)
LEMMA StripeEdits ==
  ASSUME PlanInv
  PROVE  \A sub \in {atStripe, Free, CancelAtStripe, [atStripe EXCEPT !.ending = FALSE],
                     [atStripe EXCEPT !.next = NoPlan]} :
           sub \in PlanSubscriptions /\ Subscribed(sub)
<1>1. atStripe \in PlanSubscriptions /\ Subscribed(atStripe)
      /\ Free \in PlanSubscriptions /\ Subscribed(Free)
  BY NoPlanIsNoChoice DEF PlanInv, StripeOK
<1>2. ASSUME NEW sub \in {[atStripe EXCEPT !.ending = FALSE], [atStripe EXCEPT !.next = NoPlan],
                          [atStripe EXCEPT !.ending = TRUE, !.next = NoPlan]},
             atStripe # Free \/ sub # [atStripe EXCEPT !.ending = TRUE, !.next = NoPlan]
      PROVE  sub \in PlanSubscriptions /\ Subscribed(sub)
  <2>1. /\ sub \in PlanSubscriptions /\ sub.status = atStripe.status
        /\ sub.choice = atStripe.choice
    BY <1>1, <1>2 DEF PlanSubscriptions
  <2>2. CASE atStripe # Free
    BY <1>1, <2>1, <2>2 DEF Subscribed, StripeManaged
  <2>3. CASE atStripe = Free
    <3>1. [Free EXCEPT !.ending = FALSE] = Free /\ [Free EXCEPT !.next = NoPlan] = Free
      BY <1>1, NoPlanIsNoChoice DEF PlanSubscriptions
    <3> QED
      BY <1>1, <1>2, <2>3, <3>1
  <2> QED
    BY <2>2, <2>3
<1>3. CancelAtStripe \in {Free, atStripe}
        \/ (atStripe # Free /\ CancelAtStripe = [atStripe EXCEPT !.ending = TRUE, !.next = NoPlan])
  <2>1. Free.status # "active"
    BY DEF Free, Plan
  <2> QED
    BY <2>1 DEF CancelAtStripe
<1>4. CancelAtStripe \in PlanSubscriptions /\ Subscribed(CancelAtStripe)
  BY <1>1, <1>2, <1>3
<1>5. /\ [atStripe EXCEPT !.ending = FALSE] \in PlanSubscriptions
      /\ Subscribed([atStripe EXCEPT !.ending = FALSE])
      /\ [atStripe EXCEPT !.next = NoPlan] \in PlanSubscriptions
      /\ Subscribed([atStripe EXCEPT !.next = NoPlan])
  <2>1. /\ [atStripe EXCEPT !.ending = FALSE] # [atStripe EXCEPT !.ending = TRUE, !.next = NoPlan]
           \/ atStripe # Free
        /\ [atStripe EXCEPT !.next = NoPlan] # [atStripe EXCEPT !.ending = TRUE, !.next = NoPlan]
           \/ atStripe # Free
    BY <1>1, NoPlanIsNoChoice DEF PlanSubscriptions
  <2> QED
    BY <1>2, <2>1
<1> QED
  BY <1>1, <1>4, <1>5

LEMMA AskStays ==
  ASSUME PlanInv, NEW p \in Pages, NEW offered, NEW sub,
         sub \in PlanSubscriptions, Subscribed(sub), Ask(p, offered, sub)
  PROVE  PlanInv'
<1>1. /\ UNCHANGED <<pages, outcomes, bills, today, rate>> /\ atStripe' = sub
      /\ gestures' \in 0..MaxGestures
  BY GestureTyped DEF Ask, PlanInv
<1>2. StripeOK'
  BY <1>1 DEF StripeOK
<1>3. inRow' \in PlanSubscriptions
  BY NoPlanIsNoChoice DEF Ask, PlanInv
<1>4. ChangesOK'
  <2>1. CASE sub = atStripe
    BY <1>1, <2>1, ChangesStay DEF Ask, PlanInv
  <2>2. CASE sub # atStripe
    BY <2>2, ChangesMoved DEF Ask, PlanInv
  <2> QED
    BY <2>1, <2>2
<1>5. BillsOK' /\ PagesOK'
  BY <1>1, BillsStay DEF PlanInv, PagesOK, PageOK
<1> QED
  BY <1>1, <1>2, <1>3, <1>4, <1>5 DEF PlanInv, ClocksOK

LEMMA AsksStay ==
  ASSUME PlanInv, NEW p \in Pages, CancelPlanHere(p) \/ Resume(p) \/ UndoChange(p)
  PROVE  PlanInv'
<1>1. PICK offered, sub :
        /\ sub \in {atStripe, CancelAtStripe, [atStripe EXCEPT !.ending = FALSE],
                    [atStripe EXCEPT !.next = NoPlan]}
        /\ Ask(p, offered, sub)
  BY DEF CancelPlanHere, Resume, UndoChange
<1> QED
  BY <1>1, StripeEdits, AskStays

LEMMA LeaveTrialStays ==
  ASSUME PlanInv, NEW p \in Pages, LeaveTrial(p) PROVE PlanInv'
<1>1. /\ UNCHANGED <<pages, outcomes, bills, today, rate>> /\ gestures' \in 0..MaxGestures
  BY GestureTyped DEF LeaveTrial, PlanInv
<1>2. BillsOK' /\ PagesOK'
  BY <1>1, BillsStay DEF PlanInv, PagesOK, PageOK
<1>3. CASE StripeManaged(inRow)
  <2>1. atStripe' = CancelAtStripe /\ inRow' = CancelAtStripe /\ changes' = Moving(changes)
    BY <1>3 DEF LeaveTrial
  <2>2. ChangesOK' /\ StripeOK' /\ inRow' \in PlanSubscriptions
    BY <2>1, ChangesMoved, StripeEdits DEF PlanInv, StripeOK
  <2> QED
    BY <1>1, <1>2, <2>2 DEF PlanInv, ClocksOK
<1>4. CASE ~StripeManaged(inRow)
  <2>1. inRow' = Free /\ UNCHANGED <<atStripe, changes>>
    BY <1>4 DEF LeaveTrial
  <2>2. ChangesOK' /\ inRow' \in PlanSubscriptions
    BY <1>1, <2>1, ChangesStay, NoPlanIsNoChoice DEF PlanInv
  <2> QED
    BY <1>1, <1>2, <2>1, <2>2 DEF PlanInv, ClocksOK, StripeOK, Subscribed
<1> QED
  BY <1>3, <1>4

(* A change that was checked and is not of nothing has moved, if there is  *)
(* nothing at Stripe by the time a page subscribes.                        *)
LEMMA ReturnFromCheckoutStays ==
  ASSUME PlanInv, NEW p \in Pages, ReturnFromCheckout(p) PROVE PlanInv'
<1>1. /\ UNCHANGED <<changes, outcomes, bills, today, rate, gestures>>
      /\ PageOK(pages[p]) /\ pages[p].sheet \in PlanChoices
      /\ inRow \in PlanSubscriptions
  BY DEF ReturnFromCheckout, PlanInv, PagesOK, PageOK, PageStates
<1>2. BillsOK'
  BY <1>1, BillsStay DEF PlanInv
<1>3. PagesOK'
  <2> DEFINE back == IF atStripe' # atStripe THEN "confirming" ELSE "no"
  <2>1. back \in {"no", "confirming", "pending"}
    OBVIOUS
  <2>2. pages' = [pages EXCEPT ![p] = [PageAtRest(inRow) EXCEPT !.back = back]]
    BY DEF ReturnFromCheckout
  <2> HIDE DEF back
  <2>3. PageOK([PageAtRest(inRow) EXCEPT !.back = back])
    BY <1>1, <2>1, RestIsOK
  <2> QED
    BY <2>2, <2>3, PageGoes DEF PlanInv
<1>4. CASE UNCHANGED <<atStripe, inRow>>
  <2>1. ChangesOK'
    BY <1>1, <1>4, ChangesStay DEF PlanInv
  <2> QED
    BY <1>1, <1>2, <1>3, <1>4, <2>1 DEF PlanInv, ClocksOK, StripeOK, Subscribed
<1>5. CASE /\ atStripe = Free /\ atStripe' = Plan("active", pages[p].sheet)
           /\ inRow' \in {inRow, atStripe'}
  <2>1. /\ atStripe' \in PlanSubscriptions /\ atStripe'.choice \in PlanChoices
        /\ atStripe'.status = "active"
    BY <1>1, <1>5, PlansTyped
  <2>2. StripeOK' /\ inRow' \in PlanSubscriptions
    BY <1>1, <1>5, <2>1 DEF StripeOK, Subscribed, StripeManaged
  <2>3. ASSUME NEW r \in changes, r.at = "checked", r.kind = "immediate"
        PROVE  r.moved
    <3>1. r.amount.from \in PlanChoices
      BY DEF PlanInv, ChangesOK, Changes, PlanAmounts
    <3>2. Amount(r.amount.to, r.amount.date).from = NoPlan
      BY <1>5, NoPlanIsNoChoice DEF Amount
    <3>3. r.amount # Amount(r.amount.to, r.amount.date)
      BY <3>1, <3>2, NoPlanIsNoChoice
    <3> QED
      BY <2>3, <3>3 DEF PlanInv, ChangesOK, StillAgreed
  <2>4. ChangesOK'
    BY <1>1, <2>3 DEF PlanInv, ChangesOK, StillAgreed
  <2> QED
    BY <1>1, <1>2, <1>3, <2>2, <2>4 DEF PlanInv, ClocksOK
<1> QED
  BY <1>4, <1>5 DEF ReturnFromCheckout

LEMMA MoveStays == ASSUME PlanInv, Move PROVE PlanInv'
<1>1. /\ UNCHANGED <<inRow, pages, outcomes, bills, today, gestures>>
      /\ changes' = Moving(changes) /\ rate' \in 0..MaxMoves
  BY MovesAssumption DEF Move, PlanInv, ClocksOK
<1>2. BillsOK' /\ PagesOK' /\ ChangesOK'
  BY <1>1, BillsStay, ChangesMoved DEF PlanInv, PagesOK, PageOK
<1>3. atStripe \in PlanSubscriptions /\ Subscribed(atStripe)
  BY DEF PlanInv, StripeOK
<1>4. StripeOK'
  <2>1. CASE atStripe' = Free
    BY <2>1, NoPlanIsNoChoice DEF StripeOK
  <2>2. CASE /\ atStripe.next # NoPlan
             /\ atStripe' = [atStripe EXCEPT !.choice = atStripe.next, !.next = NoPlan]
    <3>1. /\ atStripe' \in PlanSubscriptions /\ atStripe'.choice \in PlanChoices
          /\ atStripe'.status = atStripe.status
      BY <1>3, <2>2 DEF PlanSubscriptions
    <3>2. atStripe # Free
      BY <2>2, NoPlanIsNoChoice
    <3> QED
      BY <1>3, <3>1, <3>2 DEF StripeOK, Subscribed, StripeManaged
  <2>3. ASSUME NEW s \in {"active", "past_due"}, atStripe.status \in {"active", "past_due"},
               atStripe' = [atStripe EXCEPT !.status = s]
        PROVE  StripeOK'
    <3>1. /\ atStripe' \in PlanSubscriptions /\ atStripe'.choice = atStripe.choice
          /\ atStripe'.status = s
      BY <1>3, <2>3 DEF PlanSubscriptions, PlanStatuses
    <3>2. atStripe # Free
      BY <2>3 DEF Free, Plan
    <3> QED
      BY <1>3, <3>1, <3>2 DEF StripeOK, Subscribed, StripeManaged
  <2> QED
    BY <2>1, <2>2, <2>3 DEF Move
<1> QED
  BY <1>1, <1>2, <1>4 DEF PlanInv, ClocksOK

LEMMA PlanStarts == PlanInit => PlanInv
<1> SUFFICES ASSUME PlanInit PROVE PlanInv
  OBVIOUS
<1>1. StripeOK
  BY NoPlanIsNoChoice, PlansTyped DEF PlanInit, StripeOK, Subscribed, StripeManaged
<1>2. inRow \in PlanSubscriptions
  <2>1. [plan |-> 1, period |-> "month"] \in PlanChoices
    BY PlansAssumption DEF PlanChoices, Periods
  <2>2. inRow \in {Free, Plan("trial", [plan |-> 1, period |-> "month"]), atStripe}
    BY DEF PlanInit
  <2> QED
    BY <1>1, <2>1, <2>2, NoPlanIsNoChoice, PlansTyped DEF StripeOK
<1>3. PagesOK
  <2>1. \A p \in Pages : PageOK(PageAtRest(inRow))
    BY <1>2, RestIsOK
  <2> QED
    BY <2>1 DEF PlanInit, PagesOK, PageOK
<1>4. ChangesOK /\ BillsOK
  BY DEF PlanInit, ChangesOK, BillsOK, PaysWhatWasShown
<1>5. ClocksOK
  BY ClockAssumption, MovesAssumption DEF PlanInit, ClocksOK
<1> QED
  BY <1>1, <1>2, <1>3, <1>4, <1>5 DEF PlanInv

LEMMA PlanStays == PlanInv /\ [PlanNext]_planVars => PlanInv'
<1> SUFFICES ASSUME PlanInv, [PlanNext]_planVars PROVE PlanInv'
  OBVIOUS
<1>1. ASSUME NEW r \in changes, FailChange(r) PROVE PlanInv'
  BY <1>1, UpdateFailed DEF FailChange
<1>2. CASE Copy
  <2>1. PagesOK' /\ gestures' \in 0..MaxGestures
    BY <1>2 DEF Copy, PlanInv, PagesOK, PageOK, ClocksOK
  <2> QED
    BY <1>2, <2>1, CopiedTyped, OnlyShown DEF Copy
<1>3. CASE ExpireTrial
  <2>1. PagesOK' /\ gestures' \in 0..MaxGestures
    BY <1>3 DEF ExpireTrial, PlanInv, PagesOK, PageOK, ClocksOK
  <2>2. [inRow EXCEPT !.status = "expired"] \in PlanSubscriptions
    BY DEF PlanInv, PlanSubscriptions, PlanStatuses
  <2>3. inRow' \in PlanSubscriptions
    BY <1>3, <2>2, NoPlanIsNoChoice DEF ExpireTrial
  <2> QED
    BY <1>3, <2>1, <2>3, OnlyShown DEF ExpireTrial
<1>4. CASE PassTime
  <2>1. UNCHANGED <<atStripe, inRow, pages, changes, outcomes, bills, rate, gestures>>
        /\ today' \in 0..MaxClock
    BY <1>4, ClockAssumption DEF PassTime, PlanInv, ClocksOK
  <2>2. ChangesOK' /\ BillsOK' /\ PagesOK'
    BY <2>1, ChangesStay, BillsStay DEF PlanInv, PagesOK, PageOK
  <2> QED
    BY <2>1, <2>2 DEF PlanInv, ClocksOK, StripeOK, Subscribed
<1>5. CASE UNCHANGED planVars
  <2>1. PagesOK' /\ gestures' \in 0..MaxGestures
    BY <1>5 DEF planVars, PlanInv, PagesOK, PageOK, ClocksOK
  <2> QED
    BY <1>5, <2>1, OnlyShown DEF planVars, PlanInv
<1> QED
  BY <1>1, <1>2, <1>3, <1>4, <1>5, RereadPlanStays, ClosePlanSheetStays, AnswerPreviewStays,
     RetryChangeStays, ConfirmChangeStays, AsksStay, LeaveTrialStays, StartCheckoutStays,
     ReturnFromCheckoutStays, ConfirmPaymentStays, ChoosePlanStays, LoseAnswerStays,
     CheckChangeStays, ChargeChangeStays, PlanChangeStays, MoveStays DEF PlanNext

(* The subscription, its copy, the pages, the changes under way and the    *)
(* bills keep their types.                                                 *)
THEOREM PlanTypeCorrect == PlanSpec => []PlanTypeOK
<1>1. PlanInv => PlanTypeOK
  BY DEF PlanInv, PlanTypeOK, StripeOK, PagesOK, ChangesOK, BillsOK, ClocksOK
<1> QED
  BY <1>1, PlanStarts, PlanStays, PTL DEF PlanSpec

(* A change of plan is billed what its user was shown, once, whatever      *)
(* answers are lost and whatever other pages do, unless the subscription   *)
(* moved between the backend's check and Stripe's update                   *)
(* (apply_plan_change, _apply_immediate).                                  *)
THEOREM BillsAreOfWhatWasShown == PlanSpec => []PaysWhatWasShown
<1>1. PlanInv => PaysWhatWasShown
  BY DEF PlanInv, BillsOK
<1> QED
  BY <1>1, PlanStarts, PlanStays, PTL DEF PlanSpec

(* What a plan opens in the menus, the backend serves.                     *)
LEMMA MenusAreServed ==
  ASSUME NEW sub, EffectivePlan(sub) \in Nat, NEW feature \in DOMAIN MenuFeatures,
         OffersFeature(sub, feature)
  PROVE  ServesFeature(sub, feature)
<1>1. feature \in DOMAIN PlanFeatures /\ PlanFeatures[feature] = MenuFeatures[feature]
  BY DEF MenuFeatures, PlanFeatures
<1> QED
  BY <1>1 DEF OffersFeature, ServesFeature

(* While a page shows the subscription as it is at Stripe, the backend     *)
(* accepts what the page offers: the rules of the one are those of the     *)
(* other (planLock, PlanCta, usePlanGating.ts; _change_context,            *)
(* shop_has_feature, _check).                                              *)
THEOREM OffersAreAccepted == PlanSpec => []OfferedIsAccepted
<1>1. PlanInv => OfferedIsAccepted
  <2> SUFFICES ASSUME PlanInv, NEW p \in Pages, pages[p].shown = inRow, inRow = Copied
               PROVE
        LET sub == pages[p].shown IN
        /\ \A choice \in PlanChoices :
             OffersChoice(sub, choice) =>
               IF StripeManaged(sub)
               THEN \/ ChangeContext(choice) \in Supported
                    \/ TwoSteps(sub, choice)
               ELSE ~StripeManaged(inRow)
        /\ OffersCancel(sub) /\ StripeManaged(sub) => CancelAtStripe # atStripe
        /\ OffersResume(sub) => atStripe.ending
        /\ OffersUndo(sub) => atStripe.next # NoPlan
        /\ \A feature \in DOMAIN MenuFeatures :
             OffersFeature(sub, feature) => ServesFeature(inRow, feature)
        /\ \A counter \in Counters :
             OffersOneMore(counter) => ~RefusesOneMore(counter)
    BY DEF OfferedIsAccepted
  <2> DEFINE sub == inRow
  <2>1. /\ inRow \in PlanSubscriptions /\ atStripe \in PlanSubscriptions
        /\ atStripe = Free \/ (StripeManaged(atStripe) /\ atStripe.choice \in PlanChoices)
        /\ ~StripeManaged(Free)
    BY NoPlanIsNoChoice DEF PlanInv, StripeOK, Subscribed
  <2>2. StripeManaged(inRow) => inRow = atStripe /\ inRow.choice \in PlanChoices
    BY <2>1 DEF Copied
  <2>3. inRow.status = "active" => StripeManaged(inRow)
    BY DEF StripeManaged
  <2>4. ASSUME NEW choice \in PlanChoices, OffersChoice(inRow, choice), StripeManaged(inRow)
        PROVE  ChangeContext(choice) \in Supported \/ TwoSteps(inRow, choice)
    <3>1. /\ inRow.status = "active" /\ inRow.ending = FALSE /\ inRow.choice \in PlanChoices
      BY <2>1, <2>2, <2>4 DEF OffersChoice, PlanLocked, StripeManaged, PlanSubscriptions
    <3>2. ChangeContext(choice) = Classified(inRow, choice)
      BY <2>4, <3>1 DEF ChangeContext
    <3>3. ~(choice.plan = inRow.choice.plan /\ choice.period = inRow.choice.period)
      BY <2>4, <3>1 DEF OffersChoice, IsCurrent, EffectivePlan
    <3>4. /\ choice.plan \in Nat /\ inRow.choice.plan \in Nat
          /\ choice.period \in {"month", "year"} /\ inRow.choice.period \in {"month", "year"}
      BY <3>1, PlansAssumption DEF PlanChoices, Periods
    <3>5. choice # inRow.choice
      BY <3>3
    <3>6. Classified(inRow, choice) \in Supported \/ TwoSteps(inRow, choice)
      BY <3>3, <3>4, <3>5 DEF Classified, Supported, TwoSteps
    <3> QED
      BY <3>2, <3>6
  <2>5. OffersCancel(inRow) /\ StripeManaged(inRow) => CancelAtStripe # atStripe
    <3> SUFFICES ASSUME OffersCancel(inRow), StripeManaged(inRow), CancelAtStripe = atStripe
                 PROVE  FALSE
      OBVIOUS
    <3>1. inRow = atStripe /\ atStripe # Free
      BY <2>1, <2>2
    <3>2. CASE atStripe.status = "past_due"
      BY <3>1, <3>2 DEF CancelAtStripe
    <3>3. CASE atStripe.status = "active"
      <4>1. atStripe.ending = FALSE
        BY <2>1, <3>1, <3>3 DEF OffersCancel, StripeManaged, PlanSubscriptions
      <4>2. CancelAtStripe = [atStripe EXCEPT !.ending = TRUE, !.next = NoPlan]
        BY <3>3, <4>1 DEF CancelAtStripe
      <4>3. [atStripe EXCEPT !.ending = TRUE, !.next = NoPlan].ending = TRUE
        BY <2>1 DEF PlanSubscriptions
      <4> QED
        BY <4>1, <4>2, <4>3
    <3> QED
      BY <3>1, <3>2, <3>3 DEF StripeManaged
  <2>6. OffersResume(inRow) => atStripe.ending
    BY <2>2, <2>3 DEF OffersResume
  <2>7. OffersUndo(inRow) => atStripe.next # NoPlan
    BY <2>2, <2>3 DEF OffersUndo
  <2>8. EffectivePlan(inRow) \in Nat
    BY <2>1, PlansAssumption DEF EffectivePlan, PlanSubscriptions, PlanChoices, NoPlan
  <2>9. \A counter \in Counters : OffersOneMore(counter) => ~RefusesOneMore(counter)
    BY PlansAssumption DEF Counters, OffersOneMore, RefusesOneMore
  <2> QED
    BY <2>4, <2>5, <2>6, <2>7, <2>8, <2>9, MenusAreServed
<1> QED
  BY <1>1, PlanStarts, PlanStays, PTL DEF PlanSpec

----------------------------------------------------------------------------
(* The run is about the same specifications: whichever part of the system  *)
(* moves, the steps of the others are stutterings of theirs.               *)
THEOREM PlansAreKept ==
  Spec => [](/\ WithinLimit /\ PaysWhatWasShown /\ OfferedIsAccepted
             /\ ToldOnce /\ CallsCounted)
<1>1. Init => CreationInit /\ PlanInit /\ ArrearsInit /\ QuotaInit
  BY DEF Init
<1>2. [Next]_vars => /\ [CreationNext]_creationVars /\ [PlanNext]_planVars
                     /\ [ArrearsNext]_arrearsVars /\ [QuotaNext]_quotaVars
  BY DEF Next, vars
<1>3. Spec => CreationSpec /\ PlanSpec /\ ArrearsSpec /\ QuotaSpec
  BY <1>1, <1>2, PTL DEF Spec, CreationSpec, PlanSpec, ArrearsSpec, QuotaSpec
<1> QED
  BY <1>3, MonthsStayWithinLimit, BillsAreOfWhatWasShown, OffersAreAccepted,
     OwnersAreToldOnce, ScansAreCounted, PTL
=============================================================================
