----------------------------- MODULE QueryCache -----------------------------
(***************************************************************************)
(* The cache of queries of one browser (components/providers/QueryProvider *)
(* and the hooks of lib/hooks).  What a screen shows is kept for a minute  *)
(* without asking the backend again; a write that succeeds has what it     *)
(* changed read again.  The screens come and go, the answers come late.    *)
(*                                                                         *)
(* One query of QueryKeys is watched, any of them; of the backend only the *)
(* number of changes this browser made to what it shows is kept.  Changes  *)
(* of other devices are the business of the minute, not of this module.    *)
(*                                                                         *)
(* Bound: MaxWrites changes.                                               *)
(***************************************************************************)
EXTENDS QueryKeys, Integers

CONSTANT MaxWrites

ASSUME MaxWritesAssumption == MaxWrites \in Nat \ {0}

VARIABLES
  view,     \* the query watched
  server,   \* changes made in the backend to what it shows
  data,     \* the change the cache has the answer of; -1: nothing cached
  stale,    \* a minute old, or to be read again
  shown,    \* a screen shows it
  failed,   \* the last reading failed
  fetch,    \* the reading under way: none, asked of, or read in, the backend
  got,      \* what it has read
  write,    \* the write under way
  known,    \* the last change this browser knows it made
  crossed   \* an answer read before a change came after it was known

cacheVars == <<view, server, data, stale, shown, failed, fetch, got, write,
               known, crossed>>
cachePart == <<data, stale, shown, failed, fetch, got, crossed>>

NoWrite == [state |-> "none", op |-> Write("", {}, {}), made |-> 0]

CacheInit ==
  /\ view \in Views
  /\ server = 0 /\ data = -1 /\ stale = FALSE /\ shown = FALSE
  /\ failed = FALSE /\ fetch = "none" /\ got = 0
  /\ write = NoWrite /\ known = 0 /\ crossed = FALSE

-----------------------------------------------------------------------------
(* Reading *)

(* A screen that shows the query opens: it is read unless what is cached   *)
(* is fresh.                                                               *)
Mount ==
  /\ ~shown /\ shown' = TRUE
  /\ IF fetch = "none" /\ (data = -1 \/ stale)
       THEN fetch' = "asked" /\ failed' = FALSE /\ crossed' = FALSE
       ELSE UNCHANGED <<fetch, failed, crossed>>
  /\ UNCHANGED <<view, server, data, stale, got, write, known>>

(* It closes; a reading under way goes on.                                 *)
Unmount ==
  /\ shown /\ shown' = FALSE
  /\ UNCHANGED <<view, server, data, stale, failed, fetch, got, write, known,
                 crossed>>

Read ==
  /\ fetch = "asked"
  /\ fetch' = "read" /\ got' = server
  /\ UNCHANGED <<view, server, data, stale, shown, failed, write, known,
                 crossed>>

(* The answer arrives and is fresh, whatever happened since it was read.   *)
Arrive ==
  /\ fetch = "read"
  /\ fetch' = "none" /\ data' = got /\ stale' = FALSE /\ failed' = FALSE
  /\ got' = 0
  /\ UNCHANGED <<view, server, shown, write, known, crossed>>

(* It does not, twice: the error is shown.                                 *)
Fail ==
  /\ fetch # "none"
  /\ fetch' = "none" /\ got' = 0 /\ failed' = TRUE
  /\ UNCHANGED <<view, server, data, stale, shown, write, known, crossed>>

(* A minute passes.                                                        *)
Age ==
  /\ data # -1 /\ ~stale /\ fetch = "none"
  /\ stale' = TRUE
  /\ UNCHANGED <<view, server, data, shown, failed, fetch, got, write, known,
                 crossed>>

(* Nobody has shown it for five minutes.                                   *)
Collect ==
  /\ ~shown /\ fetch = "none" /\ data # -1
  /\ data' = -1 /\ stale' = FALSE /\ failed' = FALSE /\ crossed' = FALSE
  /\ UNCHANGED <<view, server, shown, fetch, got, write, known>>

-----------------------------------------------------------------------------
(* Writing *)

Concerns(op) == op.changes \cap view.shows # {}

SendWrite(op) ==
  /\ write.state = "none" /\ Concerns(op) /\ server < MaxWrites
  /\ write' = [state |-> "sent", op |-> op, made |-> 0]
  /\ UNCHANGED <<view, server, known>> /\ UNCHANGED cachePart

(* The backend changes what the query shows.                               *)
Apply ==
  /\ write.state = "sent"
  /\ server' = server + 1
  /\ write' = [write EXCEPT !.state = "done", !.made = server + 1]
  /\ UNCHANGED <<view, known>> /\ UNCHANGED cachePart

(* What the code leaves to the minute: a write does not have every query   *)
(* that shows its effect read again.                                       *)
LeftToAge(op, key) ==
  \/ key \in {<<"search">>, <<"zakat", "sources">>} \cup op.except
  \/ Head(key) = "zakat" /\ op.changes \cap {"order", "payment"} # {}
  \/ key = <<"zakat", "followups">>
     /\ op.name \in {"createCalculation", "payCalculation"}
  \/ op \in CustomerWrites /\ Head(key) # "customers"
  \/ op \in OrderWrites \cup OrderEditWrites
     /\ key \in {<<"customers", "list">>, <<"customers", "summary">>}
  \/ op \in NoteWrites /\ key \in {<<"customers", "id", "activity">>,
                                  <<"customers", "id", "activity-export">>}
  \/ op \in ProductWrites \cup ProductFormWrites
     /\ Head(key) # "products" /\ op.name # "deleteProduct"
     /\ ~(op.name = "createProduct" /\ Head(key) = "stock")
  \/ op.name \in {"saveDraft", "deleteDraft", "issueDraft"}
     /\ key # <<"invoices", "id">>
     /\ ~(op.name # "saveDraft" /\ Head(key) = "invoices")

(* The rule the writes keep: what shows an effect of one of them, and is   *)
(* not left to the minute, is read again or given its answer; it is read   *)
(* again if the write has what it changed read again even if it fails.     *)
Reaches(op, key) ==
  \/ Covered(key, op.again) /\ key \notin op.except
  \/ Covered(key, op.later)
  \/ key \in op.sets /\ ~Covered(key, op.again) /\ ~op.anyway

ASSUME WritesAssumption ==
  \A op \in Writes : \A v \in Views :
    op.changes \cap v.shows # {} => LeftToAge(op, v.key) \/ Reaches(op, v.key)

(* Mutants: what a screen shows is only marked; what none shows is not.    *)
InvalidateLater(op) ==
  LET again == Covered(view.key, op.again) /\ view.key \notin op.except
      later == Covered(view.key, op.later) IN
  /\ stale' = (data # -1 /\ (stale \/ again \/ later))
  /\ crossed' = (crossed \/ (fetch = "read" /\ got < write.made))
  /\ UNCHANGED <<data, shown, fetch, got, failed>>

InvalidateShown(op) ==
  LET again == Covered(view.key, op.again) /\ view.key \notin op.except
      restart == again /\ shown /\ (fetch = "none" \/ data # -1) IN
  /\ fetch' = IF restart THEN "asked" ELSE fetch
  /\ got' = IF restart THEN 0 ELSE got
  /\ failed' = (failed /\ ~restart)
  /\ crossed' = IF restart THEN FALSE
                ELSE crossed \/ (fetch = "read" /\ got < write.made)
  /\ UNCHANGED <<data, shown, stale>>

(* `invalidateQueries`: marked to be read again, and read again at once if *)
(* a screen shows it.  A reading under way is given up for the new one,    *)
(* except the first reading and that of a closed screen.                   *)
Invalidate(op) ==
  LET again == Covered(view.key, op.again) /\ view.key \notin op.except
      later == Covered(view.key, op.later)
      restart == again /\ shown /\ (fetch = "none" \/ data # -1) IN
  /\ stale' = (data # -1 /\ (stale \/ again \/ later))
  /\ fetch' = IF restart THEN "asked" ELSE fetch
  /\ got' = IF restart THEN 0 ELSE got
  /\ failed' = (failed /\ ~restart)
  /\ crossed' = IF restart THEN FALSE
                ELSE crossed \/ (fetch = "read" /\ got < write.made)
  /\ UNCHANGED <<data, shown>>

(* The write has succeeded: its answer may be put in the cache, a reading  *)
(* under way going on (`setQueryData`); the rest is read again.            *)
Succeed ==
  /\ write.state = "done"
  /\ known' = IF LeftToAge(write.op, view.key) THEN known ELSE write.made
  /\ \/ /\ view.key \in write.op.sets
           /\ ~Covered(view.key, write.op.again)
        /\ data' = write.made /\ stale' = FALSE /\ failed' = FALSE
        /\ crossed' = (crossed \/ (fetch = "read" /\ got < write.made))
        /\ UNCHANGED <<shown, fetch, got>>
     \/ /\ view.key \notin write.op.sets \/ Covered(view.key, write.op.again)
        /\ Invalidate(write.op)
  /\ write' = NoWrite
  /\ UNCHANGED <<view, server>>

(* It has failed, or its answer is lost: only what is always read again.   *)
Miss ==
  /\ write.state \in {"sent", "done"}
  /\ IF write.op.anyway THEN Invalidate(write.op) ELSE UNCHANGED cachePart
  /\ known' = IF write.op.anyway /\ write.state = "done"
                 /\ ~LeftToAge(write.op, view.key)
              THEN write.made ELSE known
  /\ write' = NoWrite
  /\ UNCHANGED <<view, server>>

-----------------------------------------------------------------------------
CacheNext ==
  \/ Mount \/ Unmount \/ Read \/ Arrive \/ Fail \/ Age \/ Collect
  \/ \E op \in Writes : SendWrite(op)
  \/ Apply \/ Succeed \/ Miss

(* A reading under way ends, even asked again by a save that fails, as a   *)
(* user does not save for ever faster than the backend answers.  Nothing   *)
(* else is promised of the user.                                           *)
CacheFairness == WF_cacheVars(Read) /\ SF_cacheVars(Arrive)

CacheSpec == CacheInit /\ [][CacheNext]_cacheVars /\ CacheFairness

-----------------------------------------------------------------------------
CacheTypeOK ==
  /\ view \in Views
  /\ server \in 0..MaxWrites /\ known \in 0..MaxWrites
  /\ data \in -1..MaxWrites /\ got \in 0..MaxWrites
  /\ stale \in BOOLEAN /\ shown \in BOOLEAN
  /\ failed \in BOOLEAN /\ crossed \in BOOLEAN
  /\ fetch \in {"none", "asked", "read"}
  /\ write \in [state : {"none", "sent", "done"},
                op : Writes \cup {NoWrite.op}, made : 0..MaxWrites]

(* A fact this browser changed is never shown as it was: what is cached as *)
(* fresh has every change this browser knows it made, whichever screen     *)
(* wrote and whichever shows it, unless the code leaves it to the minute   *)
(* or an answer read before the change came after it.                      *)
OwnWritesShown ==
  data # -1 /\ data < known => stale \/ fetch # "none" \/ failed \/ crossed

(* An open screen comes to show what this browser changed, without being   *)
(* closed and opened, unless the reading fails.  What is left of a deleted *)
(* product waits for the next screen.                                      *)
ShownInTheEnd ==
  \A n \in 1..MaxWrites :
    shown /\ known >= n /\ data # -1
      ~> \/ data >= n \/ ~shown \/ failed \/ crossed
         \/ stale /\ Covered(view.key, UNION {op.later : op \in Writes})
=============================================================================
