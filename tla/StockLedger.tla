---------------------------- MODULE StockLedger ----------------------------
(***************************************************************************)
(* Stock movements of apps/stock as database transactions.                 *)
(*                                                                         *)
(* A request is one HTTP call that records movements in one transaction:   *)
(* an entry, a manual exit, an inventory count, or the reservation or      *)
(* release that an order performs.  It works through its lines in order.   *)
(* For each line it takes the row lock of the variant, inserts a movement, *)
(* sums the movements it can see and writes the sum into the variant's     *)
(* cached stock_quantity.  PostgreSQL runs the transactions at READ        *)
(* COMMITTED: a statement sees committed rows and its own transaction's.   *)
(*                                                                         *)
(* An editor is a PATCH of a variant (price, name, threshold): it reads    *)
(* the row without a lock and later saves every column of it.              *)
(***************************************************************************)
EXTENDS Integers, Sequences

CONSTANTS
  Requests,    \* the movement requests, each sent once
  Variants,    \* the variants (formats) that carry stock
  Editors,     \* the sessions that edit a variant's sheet
  Kind,        \* Kind[r]: what request r records
  Lines,       \* Lines[r]: its lines; for a count, qty is the counted stock
  Start,       \* Start[v]: the stock of v before the first request
  Nobody       \* the owner of a lock nobody holds

Kinds == {"entry", "release", "exit", "reserve", "count"}
Line == [variant : Variants, qty : Nat]

ASSUME RequestsAssumption ==
  /\ Kind \in [Requests -> Kinds]
  /\ Lines \in [Requests -> Seq(Line)]
ASSUME StartAssumption == Start \in [Variants -> Int]
ASSUME NobodyAssumption == Nobody \notin Requests

VARIABLES
  pc,        \* pc[r]: where request r stands
  line,      \* line[r]: index of the line r is working on
  owner,     \* owner[v]: the request that holds the row lock of v
  pending,   \* pending[r][v]: sum of r's uncommitted movements on v
  touched,   \* touched[r]: variants whose cached stock r has rewritten
  draft,     \* draft[r][v]: the uncommitted cached stock, for v in touched[r]
  ledger,    \* ledger[v]: sum of the committed movements on v
  cache,     \* cache[v]: the committed stock_quantity of v
  copy,      \* copy[e]: the row an editor has read, as a set of at most one
  clobbered  \* history: variants whose cache a stale save has overwritten

vars == <<pc, line, owner, pending, touched, draft, ledger, cache, copy,
          clobbered>>

States == {"idle", "lock", "record", "refresh", "commit", "done", "refused",
           "aborted"}
Ended == {"done", "refused", "aborted"}
Running == {"lock", "record", "refresh", "commit"}
Row == [variant : Variants, stock : Int]

TypeOK ==
  /\ pc \in [Requests -> States]
  /\ line \in [Requests -> Nat \ {0}]
  /\ owner \in [Variants -> Requests \cup {Nobody}]
  /\ pending \in [Requests -> [Variants -> Int]]
  /\ touched \in [Requests -> SUBSET Variants]
  /\ draft \in [Requests -> [Variants -> Int]]
  /\ ledger \in [Variants -> Int]
  /\ cache \in [Variants -> Int]
  /\ copy \in [Editors -> SUBSET Row]
  /\ clobbered \in SUBSET Variants

Init ==
  /\ pc = [r \in Requests |-> "idle"]
  /\ line = [r \in Requests |-> 1]
  /\ owner = [v \in Variants |-> Nobody]
  /\ pending = [r \in Requests |-> [v \in Variants |-> 0]]
  /\ touched = [r \in Requests |-> {}]
  /\ draft = [r \in Requests |-> [v \in Variants |-> 0]]
  /\ ledger = Start
  /\ cache = Start
  /\ copy = [e \in Editors |-> {}]
  /\ clobbered = {}

----------------------------------------------------------------------------
(* The current line of a request, and the stock its transaction sees.     *)

HasLine(r) == line[r] \in 1..Len(Lines[r])
Current(r) == Lines[r][line[r]]
OwnView(r, v) == IF v \in touched[r] THEN draft[r][v] ELSE cache[v]

(* The signed quantity the current line adds to the stock.                 *)
Delta(r) ==
  LET l == Current(r) IN
  IF Kind[r] \in {"entry", "release"} THEN l.qty
  ELSE IF Kind[r] \in {"exit", "reserve"} THEN -l.qty
  ELSE l.qty - OwnView(r, l.variant)

(* A manual exit never takes more than the stock it reads under the lock.  *)
TooMuch(r) ==
  /\ Kind[r] = "exit"
  /\ OwnView(r, Current(r).variant) < Current(r).qty

(* Mutant: no select_for_update.                                           *)
Unlocked(r, v) == TRUE

LockFree(r, v) == owner[v] \in {Nobody, r}

Begin(r) ==
  /\ pc[r] = "idle"
  /\ pc' = [pc EXCEPT ![r] = "lock"]
  /\ UNCHANGED <<line, owner, pending, touched, draft, ledger, cache, copy,
                 clobbered>>

(* select_for_update on the variant: waits until the row lock is free.     *)
Acquire(r) ==
  /\ pc[r] = "lock"
  /\ HasLine(r)
  /\ LockFree(r, Current(r).variant)
  /\ owner' = [owner EXCEPT ![Current(r).variant] = r]
  /\ pc' = [pc EXCEPT ![r] = "record"]
  /\ UNCHANGED <<line, pending, touched, draft, ledger, cache, copy,
                 clobbered>>

(* The check under the lock, then the INSERT of the movement.              *)
Record(r) ==
  /\ pc[r] = "record"
  /\ ~TooMuch(r)
  /\ Kind[r] = "count" => Delta(r) # 0
  /\ pending' = [pending EXCEPT ![r][Current(r).variant] = @ + Delta(r)]
  /\ pc' = [pc EXCEPT ![r] = "refresh"]
  /\ UNCHANGED <<line, owner, touched, draft, ledger, cache, copy, clobbered>>

(* Mutant: an equal count steps back instead of on.                        *)
SkipBackwards(r) ==
  /\ pc[r] = "record"
  /\ Kind[r] = "count"
  /\ Delta(r) = 0
  /\ line' = [line EXCEPT ![r] = @ - 1]
  /\ pc' = [pc EXCEPT ![r] = "lock"]
  /\ UNCHANGED <<owner, pending, touched, draft, ledger, cache, copy,
                 clobbered>>

(* A counted quantity equal to the stock records no movement.              *)
SkipEqualCount(r) ==
  /\ pc[r] = "record"
  /\ Kind[r] = "count"
  /\ Delta(r) = 0
  /\ line' = [line EXCEPT ![r] = @ + 1]
  /\ pc' = [pc EXCEPT ![r] = "lock"]
  /\ UNCHANGED <<owner, pending, touched, draft, ledger, cache, copy,
                 clobbered>>

(* Mutant: the cache is refreshed before the movement is inserted.         *)
RefreshFirst(r) ==
  LET v == Current(r).variant IN
  /\ pc[r] = "refresh"
  /\ draft' = [draft EXCEPT ![r][v] = ledger[v]]
  /\ touched' = [touched EXCEPT ![r] = @ \cup {v}]
  /\ line' = [line EXCEPT ![r] = @ + 1]
  /\ pc' = [pc EXCEPT ![r] = "lock"]
  /\ UNCHANGED <<owner, pending, ledger, cache, copy, clobbered>>

(* StockMovement.save: sum every visible movement, rewrite the cache.      *)
Refresh(r) ==
  LET v == Current(r).variant IN
  /\ pc[r] = "refresh"
  /\ draft' = [draft EXCEPT ![r][v] = ledger[v] + pending[r][v]]
  /\ touched' = [touched EXCEPT ![r] = @ \cup {v}]
  /\ line' = [line EXCEPT ![r] = @ + 1]
  /\ pc' = [pc EXCEPT ![r] = "lock"]
  /\ UNCHANGED <<owner, pending, ledger, cache, copy, clobbered>>

LastLineDone(r) ==
  /\ pc[r] = "lock"
  /\ ~HasLine(r)
  /\ pc' = [pc EXCEPT ![r] = "commit"]
  /\ UNCHANGED <<line, owner, pending, touched, draft, ledger, cache, copy,
                 clobbered>>

(* Locks go with the transaction, whichever way it ends.                   *)
Released(r) == [v \in Variants |-> IF owner[v] = r THEN Nobody ELSE owner[v]]

Commit(r) ==
  /\ pc[r] = "commit"
  /\ ledger' = [v \in Variants |-> ledger[v] + pending[r][v]]
  /\ cache' = [v \in Variants |-> OwnView(r, v)]
  /\ clobbered' = clobbered \ touched[r]
  /\ owner' = Released(r)
  /\ pending' = [pending EXCEPT ![r] = [v \in Variants |-> 0]]
  /\ touched' = [touched EXCEPT ![r] = {}]
  /\ pc' = [pc EXCEPT ![r] = "done"]
  /\ UNCHANGED <<line, draft, copy>>

RollBack(r, end) ==
  /\ owner' = Released(r)
  /\ pending' = [pending EXCEPT ![r] = [v \in Variants |-> 0]]
  /\ touched' = [touched EXCEPT ![r] = {}]
  /\ pc' = [pc EXCEPT ![r] = end]
  /\ UNCHANGED <<line, draft, ledger, cache, copy, clobbered>>

(* InsufficientStockError on one line: the whole exit is rolled back.      *)
Refuse(r) ==
  /\ pc[r] = "record"
  /\ TooMuch(r)
  /\ RollBack(r, "refused")

(* An exception, a killed worker or a lost connection before the commit.   *)
Fail(r) ==
  /\ pc[r] \in Running
  /\ RollBack(r, "aborted")

(* The request that holds the lock r waits for.                            *)
Waiting(r) ==
  /\ pc[r] = "lock"
  /\ HasLine(r)
  /\ ~LockFree(r, Current(r).variant)
Blocker(r) == owner[Current(r).variant]

(* Mutant: nothing breaks a cycle of waiting requests.                     *)
NeverDeadlocked(r) == FALSE

(* PostgreSQL cancels a request that is part of a cycle of waiting ones.   *)
Deadlocked(r) ==
  \E S \in SUBSET Requests :
    /\ r \in S
    /\ \A q \in S : Waiting(q)
    /\ {Blocker(q) : q \in S} = S

CancelDeadlocked(r) ==
  /\ Deadlocked(r)
  /\ RollBack(r, "aborted")

----------------------------------------------------------------------------
(* Editing a variant's sheet: get_object, then serializer.save().          *)

EditRead(e, v) ==
  /\ copy[e] = {}
  /\ copy' = [copy EXCEPT ![e] = {[variant |-> v, stock |-> cache[v]]}]
  /\ UNCHANGED <<pc, line, owner, pending, touched, draft, ledger, cache,
                 clobbered>>

(* The UPDATE writes every column, the stock that was read included; it    *)
(* waits for the row lock like any other write.                            *)
EditSave(e) ==
  \E row \in copy[e] :
    /\ owner[row.variant] = Nobody
    /\ cache' = [cache EXCEPT ![row.variant] = row.stock]
    /\ clobbered' = IF row.stock = cache[row.variant] THEN clobbered
                    ELSE clobbered \cup {row.variant}
    /\ copy' = [copy EXCEPT ![e] = {}]
    /\ UNCHANGED <<pc, line, owner, pending, touched, draft, ledger>>

----------------------------------------------------------------------------
Step(r) ==
  \/ Begin(r) \/ Acquire(r) \/ Record(r) \/ SkipEqualCount(r) \/ Refresh(r)
  \/ LastLineDone(r) \/ Commit(r) \/ Refuse(r) \/ CancelDeadlocked(r)

Next ==
  \/ \E r \in Requests : Step(r) \/ Fail(r)
  \/ \E e \in Editors : EditSave(e) \/ \E v \in Variants : EditRead(e, v)

Spec == Init /\ [][Next]_vars

(* The database and the worker carry a request on; nothing obliges a       *)
(* request to fail or an editor to act.                                    *)
FairSpec == Spec /\ \A r \in Requests : WF_vars(Step(r))

----------------------------------------------------------------------------
(* Safety                                                                  *)

(* The cached stock of a variant is the sum of its committed movements     *)
(* (StockMovement._update_variant_cache), unless a stale sheet edit has    *)
(* overwritten it since the last movement.                                 *)
CacheIsLedger == \A v \in Variants \ clobbered : cache[v] = ledger[v]

(* stock_quantity is a cache derived from the movements and nothing else   *)
(* sets it, as ProductVariantDetailView.update says of it.                 *)
StockOnlyFromMovements == \A v \in Variants : cache[v] = ledger[v]

(* Every request that starts ends, committed or rolled back: row locks     *)
(* taken in line order cannot block two requests for ever.                 *)
EveryRequestEnds ==
  \A r \in Requests : pc[r] \in Running ~> pc[r] \in Ended
=============================================================================
