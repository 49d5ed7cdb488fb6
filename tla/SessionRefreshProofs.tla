------------------------ MODULE SessionRefreshProofs ------------------------
(***************************************************************************)
(* Proofs about SessionRefresh.                                            *)
(***************************************************************************)
EXTENDS SessionRefresh, FiniteSetTheorems, TLAPS

(* The requests, as TypeOK has them.                                       *)
RequestsTyped ==
  /\ req \in [Requests -> Request]
  /\ \A r \in Requests : req[r].pc = "refreshing" => req[r].flight \in Flights

(* The flights, as TypeOK has them.                                        *)
FlightsTyped ==
  /\ flight \in [Flights -> Flight]
  /\ \A f \in Asked : flight[f].key \in Pairs

RestTyped ==
  /\ jar \in 0..MaxPairs /\ page \in {"app", "leaving", "login"}
  /\ table \subseteq Flights
  /\ issued \in Pairs
  /\ dead \subseteq Pairs /\ stale \subseteq Pairs
  /\ events \subseteq Events

(* TypeOK, by the variables a step changes.                                *)
LEMMA TypeOKParts == TypeOK <=> RequestsTyped /\ FlightsTyped /\ RestTyped
BY DEF TypeOK, RequestsTyped, FlightsTyped, RestTyped

(* A step that leaves the requests, or the flights, as they are.           *)
LEMMA UnchangedTyped ==
  /\ RequestsTyped /\ req' = req => RequestsTyped'
  /\ FlightsTyped /\ flight' = flight => FlightsTyped'
BY DEF RequestsTyped, FlightsTyped, Asked

(* A request replaced by a well formed one.                                *)
LEMMA RequestTyped ==
  ASSUME RequestsTyped, NEW r \in Requests, NEW x \in Request,
         x.pc = "refreshing" => x.flight \in Flights,
         req' = [req EXCEPT ![r] = x]
  PROVE  RequestsTyped'
BY DEF RequestsTyped

(* A flight replaced by a well formed one.                                 *)
LEMMA FlightTyped ==
  ASSUME FlightsTyped, NEW f \in Flights, NEW x \in Flight, x.key \in Pairs,
         flight' = [flight EXCEPT ![f] = x]
  PROVE  FlightsTyped'
BY DEF FlightsTyped, Asked

(* An answer given to a request leaves the requests well formed.           *)
LEMMA ReplyTyped ==
  ASSUME RequestsTyped, NEW r \in Requests, NEW kind \in Replies,
         NEW p \in 0..MaxPairs, Reply(r, kind, p)
  PROVE  RequestsTyped'
<1> DEFINE new == [req[r] EXCEPT !.pc = "replied", !.reply = kind, !.pair = p]
<1>1. new \in Request /\ new.pc = "replied"
  BY DEF RequestsTyped, Request
<1>2. req' = [req EXCEPT ![r] = new]
  BY DEF Reply
<1> HIDE DEF new
<1>3. QED
  BY <1>1, <1>2, RequestTyped

(* The variables have their types.                                         *)
THEOREM Typed == Spec => []TypeOK
<1>1. Init => TypeOK
  <2> SUFFICES ASSUME Init PROVE TypeOK
    OBVIOUS
  <2>1. Idle \in Request
    BY BoundsAssumption DEF Idle, Request, Ops, Replies
  <2>2. NoFlight \in Flight
    BY BoundsAssumption DEF NoFlight, Flight
  <2>3. RequestsTyped
    BY <2>1 DEF Init, RequestsTyped, Idle
  <2>4. FlightsTyped
    BY <2>2 DEF Init, FlightsTyped, Asked, NoFlight
  <2>5. RestTyped
    BY BoundsAssumption DEF Init, RestTyped, Pairs
  <2>6. QED
    BY <2>3, <2>4, <2>5, TypeOKParts
<1>2. TypeOK /\ [Next]_vars => TypeOK'
  <2> SUFFICES ASSUME RequestsTyped, FlightsTyped, RestTyped, [Next]_vars
               PROVE  RequestsTyped' /\ FlightsTyped' /\ RestTyped'
    BY DEF TypeOK, RequestsTyped, FlightsTyped, RestTyped
  <2> DEFINE Goal == RequestsTyped' /\ FlightsTyped' /\ RestTyped'
  <2> USE BoundsAssumption
  <2>a. \A r \in Requests :
          /\ req[r] \in Request
          /\ req[r].pair \in 0..MaxPairs /\ req[r].cookie \in 0..MaxPairs
    BY DEF RequestsTyped, Request
  <2>b. Idle \in Request
    BY DEF Idle, Request, Ops, Replies
  <2>1. ASSUME NEW r \in Requests, NEW op \in Ops, Start(r, op) PROVE Goal
    <3> DEFINE new == [Idle EXCEPT !.pc = "sent", !.op = op, !.cookie = jar]
    <3>0. jar \in 0..MaxPairs /\ op \in Ops
      BY DEF RestTyped
    <3>1. new \in Request /\ new.pc = "sent"
      BY <2>b, <3>0 DEF Idle, Request
    <3>2. req' = [req EXCEPT ![r] = new]
      BY <2>1 DEF Start
    <3> HIDE DEF new
    <3>3. RequestsTyped'
      BY <3>1, <3>2, RequestTyped
    <3>4. FlightsTyped' /\ RestTyped'
      BY <2>1, UnchangedTyped DEF Start, RestTyped
    <3>5. QED
      BY <3>3, <3>4
  <2>2. ASSUME NEW r \in Requests, Deliver(r) \/ Drop(r) PROVE Goal
    <3>1. RequestsTyped'
      BY <2>2, <2>b, RequestTyped DEF Deliver, Drop, Idle
    <3>2. RestTyped'
      BY <2>2, <2>a DEF Deliver, Drop, RestTyped
    <3>3. QED
      BY <2>2, <3>1, <3>2, UnchangedTyped DEF Deliver, Drop
  <2>3. ASSUME NEW r \in Requests, Refresh(r) PROVE Goal
    <3>1. CASE Reply(r, "clear", 0) /\ UNCHANGED <<flight, table>>
      BY <2>3, <3>1, ReplyTyped, UnchangedTyped DEF Refresh, RestTyped, Replies
    <3>2. ASSUME NEW f \in Flights,
                 req' = [req EXCEPT ![r].pc = "refreshing", ![r].flight = f]
          PROVE  RequestsTyped'
      <4> DEFINE new == [req[r] EXCEPT !.pc = "refreshing", !.flight = f]
      <4>0. f \in 0..MaxFlights
        BY DEF Flights
      <4>1. new \in Request /\ new.flight = f
        BY <2>a, <4>0 DEF Request
      <4>2. req' = [req EXCEPT ![r] = new]
        BY <3>2
      <4> HIDE DEF new
      <4>3. QED
        BY <4>1, <4>2, RequestTyped
    <3>3. ASSUME NEW f \in Joinable(req[r].cookie),
                 UNCHANGED <<flight, table>>,
                 req' = [req EXCEPT ![r].pc = "refreshing", ![r].flight = f]
          PROVE  Goal
      <4>1. f \in Flights
        BY <3>3 DEF Joinable, RestTyped
      <4>2. RequestsTyped'
        BY <3>2, <3>3, <4>1
      <4>3. QED
        BY <2>3, <3>3, <4>2, UnchangedTyped DEF Refresh, RestTyped
    <3>4. ASSUME req[r].cookie # 0, NEW f \in Flights \ Asked,
                 flight' = [flight EXCEPT ![f] =
                   [key |-> req[r].cookie, state |-> "asked", pair |-> 0]],
                 table' = table \cup {f},
                 req' = [req EXCEPT ![r].pc = "refreshing", ![r].flight = f]
          PROVE  Goal
      <4> DEFINE new == [key |-> req[r].cookie, state |-> "asked", pair |-> 0]
      <4>1. new \in Flight /\ new.key \in Pairs
        BY <2>a, <3>4 DEF Flight, Pairs
      <4>2. flight' = [flight EXCEPT ![f] = new]
        BY <3>4
      <4> HIDE DEF new
      <4>3. FlightsTyped'
        BY <3>4, <4>1, <4>2, FlightTyped
      <4>4. RequestsTyped'
        BY <3>2, <3>4
      <4>5. QED
        BY <2>3, <3>4, <4>3, <4>4 DEF Refresh, RestTyped
    <3>5. QED
      BY <2>3, <3>1, <3>3, <3>4 DEF Refresh
  <2>4. ASSUME NEW r \in Requests, Resume(r) PROVE Goal
    <3>1. CASE req' = [req EXCEPT ![r].pc = "retrying",
                                  ![r].pair = flight[req[r].flight].pair]
      <4> DEFINE new == [req[r] EXCEPT !.pc = "retrying",
                                       !.pair = flight[req[r].flight].pair]
      <4>1. flight[req[r].flight] \in Flight
        BY <2>4 DEF Resume, RequestsTyped, FlightsTyped
      <4>2. flight[req[r].flight].pair \in 0..MaxPairs
        BY <4>1 DEF Flight
      <4>3. new \in Request /\ new.pc = "retrying"
        BY <2>a, <4>2 DEF Request
      <4>4. req' = [req EXCEPT ![r] = new]
        BY <3>1
      <4> HIDE DEF new
      <4>5. RequestsTyped'
        BY <4>3, <4>4, RequestTyped
      <4>6. QED
        BY <2>4, <4>5, UnchangedTyped DEF Resume, RestTyped
    <3>2. CASE Reply(r, "clear", 0) \/ Reply(r, "unavailable", 0)
      BY <2>4, <3>2, ReplyTyped, UnchangedTyped DEF Resume, RestTyped, Replies
    <3>3. QED
      BY <2>4, <3>1, <3>2 DEF Resume
  <2>5. ASSUME NEW r \in Requests, RetryRefused(r) \/ Serve(r) PROVE Goal
    <3>1. RequestsTyped'
      BY <2>5, <2>a, ReplyTyped DEF RetryRefused, Serve, Replies
    <3>2. QED
      BY <2>5, <3>1, UnchangedTyped DEF RetryRefused, Serve, RestTyped
  <2>6. ASSUME NEW r \in Requests, RelayPasswordChange(r) \/ FinishLogout(r)
        PROVE  Goal
    <3>1. RequestsTyped'
      BY <2>6, <2>a, ReplyTyped DEF RelayPasswordChange, FinishLogout, Replies
    <3>2. Forget(req[r].cookie) /\ UNCHANGED <<jar, page, flight, issued, dead,
                                               stale, events>>
      BY <2>6 DEF RelayPasswordChange, FinishLogout
    <3>3. table' \subseteq Flights
      BY <3>2 DEF Forget, RestTyped
    <3>4. RestTyped'
      BY <3>2, <3>3 DEF RestTyped
    <3>5. QED
      BY <3>1, <3>2, <3>4, UnchangedTyped
  <2>7. ASSUME NEW r \in Requests, ChangePassword(r) PROVE Goal
    <3> DEFINE new == [req[r] EXCEPT !.pc = "changed", !.pair = issued + 1]
    <3>1. issued + 1 \in Pairs /\ 1..issued \subseteq Pairs
      BY <2>7 DEF ChangePassword, RestTyped, Pairs
    <3>2. new \in Request /\ new.pc = "changed"
      <4>1. issued + 1 \in 0..MaxPairs
        BY <3>1 DEF Pairs
      <4>2. QED
        BY <2>a, <4>1 DEF Request
    <3>3. req' = [req EXCEPT ![r] = new]
      BY <2>7 DEF ChangePassword
    <3> HIDE DEF new
    <3>4. RequestsTyped'
      BY <3>2, <3>3, RequestTyped
    <3>5. QED
      BY <2>7, <3>1, <3>4, UnchangedTyped DEF ChangePassword, RestTyped, Events
  <2>8. ASSUME NEW r \in Requests, Blacklist(r) PROVE Goal
    <3> DEFINE new == [req[r] EXCEPT !.pc = "revoked"]
    <3>1. new \in Request /\ new.pc = "revoked"
      BY <2>a DEF Request
    <3>2. req' = [req EXCEPT ![r] = new]
      BY <2>8 DEF Blacklist
    <3> HIDE DEF new
    <3>3. RequestsTyped'
      BY <3>1, <3>2, RequestTyped
    <3>4. dead' \subseteq Pairs
      BY <2>8, <2>a DEF Blacklist, RestTyped, Pairs
    <3>5. QED
      BY <2>8, <3>3, <3>4, UnchangedTyped DEF Blacklist, RestTyped, Events
  <2>9. ASSUME NEW f \in Flights, Rotate(f) \/ Settle(f) \/ TimeOut(f)
        PROVE  Goal
    <3>1. flight[f] \in Flight /\ flight[f].key \in Pairs
      BY <2>9 DEF FlightsTyped, Rotate, Settle, TimeOut, Asked
    <3>2. ASSUME NEW state \in {"refused", "ok", "expired", "unavailable"},
                 flight' = [flight EXCEPT ![f].state = state]
          PROVE  FlightsTyped'
      <4> DEFINE new == [flight[f] EXCEPT !.state = state]
      <4>1. new \in Flight /\ new.key \in Pairs
        BY <3>1 DEF Flight
      <4>2. flight' = [flight EXCEPT ![f] = new]
        BY <3>2
      <4> HIDE DEF new
      <4>3. QED
        BY <4>1, <4>2, FlightTyped
    <3>3. CASE Settle(f) \/ TimeOut(f)
      <4>1. FlightsTyped'
        BY <3>2, <3>3 DEF Settle, TimeOut
      <4>2. QED
        BY <3>3, <4>1, UnchangedTyped DEF Settle, TimeOut, RestTyped, Events
    <3>4. CASE Rotate(f) /\ issued' # issued + 1
      <4>1. FlightsTyped'
        BY <3>2, <3>4 DEF Rotate
      <4>2. QED
        BY <3>4, <4>1, UnchangedTyped DEF Rotate, RestTyped
    <3>5. CASE /\ issued < MaxPairs /\ issued' = issued + 1
               /\ dead' = dead \cup {flight[f].key}
               /\ flight' = [flight EXCEPT ![f] = [key |-> flight[f].key,
                               state |-> "rotated", pair |-> issued + 1]]
               /\ Rotate(f)
      <4> DEFINE new == [key |-> flight[f].key, state |-> "rotated",
                         pair |-> issued + 1]
      <4>1. issued + 1 \in Pairs
        BY <3>5 DEF RestTyped, Pairs
      <4>2. new \in Flight /\ new.key \in Pairs
        BY <3>1, <4>1 DEF Flight, Pairs
      <4>3. flight' = [flight EXCEPT ![f] = new]
        BY <3>5
      <4> HIDE DEF new
      <4>4. FlightsTyped'
        BY <4>2, <4>3, FlightTyped
      <4>5. RestTyped'
        BY <3>1, <3>5, <4>1 DEF Rotate, RestTyped
      <4>6. QED
        BY <3>5, <4>4, <4>5, UnchangedTyped DEF Rotate
    <3>6. QED
      BY <2>9, <3>3, <3>4, <3>5 DEF Rotate, RestTyped, Pairs
  <2>10. ASSUME NEW f \in Flights, Prune(f) \/ Evict(f) PROVE Goal
    BY <2>10, UnchangedTyped DEF Prune, Evict, RestTyped, Events
  <2>11. ASSUME NEW p \in Pairs, Expire(p) \/ EndRefresh(p) PROVE Goal
    <3>1. CASE Expire(p)
      BY <3>1, UnchangedTyped DEF Expire, RestTyped, Pairs
    <3>2. CASE EndRefresh(p)
      <4>1. jar' \in 0..MaxPairs /\ 1..p \subseteq Pairs
        BY <3>2 DEF EndRefresh, RestTyped, Pairs
      <4>2. RestTyped'
        BY <3>2, <4>1 DEF EndRefresh, RestTyped, Events
      <4>3. QED
        BY <3>2, <4>2, UnchangedTyped DEF EndRefresh
    <3>3. QED
      BY <2>11, <3>1, <3>2
  <2>12. CASE ShowLogin \/ OpenPage \/ Login \/ Disable
    <3>1. CASE Login
      <4>1. Cardinality(Active) \in Nat
        BY RequestsAssumption, FS_Subset, FS_CardinalityType DEF Active
      <4>2. issued + 1 \in Pairs
        BY <3>1, <4>1 DEF Login, RestTyped, Pairs
      <4>3. RestTyped'
        BY <3>1, <4>2 DEF Login, RestTyped, Pairs
      <4>4. QED
        BY <3>1, <4>3, UnchangedTyped DEF Login
    <3>2. CASE ShowLogin
      <4>1. 0 \in 0..MaxPairs
        OBVIOUS
      <4>2. RestTyped'
        BY <3>2, <4>1 DEF ShowLogin, RestTyped
      <4>3. QED
        BY <3>2, <4>2, UnchangedTyped DEF ShowLogin
    <3>3. CASE Disable
      <4>1. events' \subseteq Events
        BY <3>3 DEF Disable, RestTyped, Events
      <4>2. QED
        BY <3>3, <4>1, UnchangedTyped DEF Disable, RestTyped
    <3>4. CASE OpenPage
      <4>1. events' \subseteq Events
        BY <3>4 DEF OpenPage, RestTyped, Events
      <4>2. RestTyped'
        BY <3>4, <4>1 DEF OpenPage, RestTyped
      <4>3. QED
        BY <3>4, <4>2, UnchangedTyped DEF OpenPage
    <3>5. QED
      BY <2>12, <3>1, <3>2, <3>3, <3>4
  <2>13. CASE UNCHANGED vars
    BY <2>13, UnchangedTyped DEF vars, RestTyped
  <2>14. QED
    BY <2>1, <2>2, <2>3, <2>4, <2>5, <2>6, <2>7, <2>8, <2>9, <2>10, <2>11,
       <2>12, <2>13 DEF Next, Process, Backend
<1>3. QED
  BY <1>1, <1>2, PTL DEF Spec

-----------------------------------------------------------------------------
(* The states an undisturbed browser is in.                                *)

Live(f) == flight[f].state \in {"asked", "rotated", "ok"}

RequestQuiet(r) ==
  /\ req[r].pc \in {"idle", "sent", "refreshing", "retrying", "replied"}
  /\ req[r].reply # "clear"
  /\ req[r].pc = "sent" => req[r].cookie \in 1..issued
  /\ req[r].pc = "refreshing" =>
       req[r].flight \in Asked /\ flight[req[r].flight].pair \notin stale
  /\ req[r].pc = "retrying" => req[r].pair \in (1..issued) \ stale
  /\ req[r].pc = "replied" /\ req[r].reply = "set" =>
       req[r].pair \in (1..issued) \ stale

(* A flight asks with an expired pair, and leaves the table only when no   *)
(* request and no cookie has that pair any more.                           *)
FlightQuiet(f) ==
  /\ Live(f) \/ flight[f].state = "unavailable"
  /\ flight[f].key \in stale
  /\ Live(f) => f \in table \/ ~Needed(flight[f].key)
  /\ flight[f].state \in {"rotated", "ok"} => flight[f].pair \in 1..issued
  /\ f \in table => Live(f) /\ flight[f].pair \notin stale

(* Flights are asked in order, and twice for a pair only after a failure.  *)
FlightOrder ==
  /\ table \subseteq Asked
  /\ \A f, g \in Flights : f < g /\ g \in Asked => f \in Asked
  /\ \A f, g \in Asked :
       f < g /\ flight[f].key = flight[g].key
         => flight[f].state = "unavailable"

(* The blacklist holds what a flight has exchanged, and nothing else.      *)
DeadExchanged ==
  \A p \in dead : \E f \in Flights :
    flight[f].key = p /\ flight[f].state \in {"rotated", "ok"}

Quiet ==
  /\ jar \in 1..issued /\ page # "leaving"
  /\ \A r \in Requests : RequestQuiet(r)
  /\ \A f \in Asked : FlightQuiet(f)
  /\ FlightOrder
  /\ DeadExchanged

SessionInv ==
  /\ stale \subseteq 1..issued
  /\ Undisturbed => Quiet
  /\ events = {} => page = "app"

(* A step that changes one request at most, and the cookies with it.       *)
LEMMA QuietRequest ==
  ASSUME TypeOK, Quiet, NEW r \in Requests, NEW x \in Request,
         req' = [req EXCEPT ![r] = x],
         UNCHANGED <<page, flight, table, issued, dead, stale>>,
         jar' = jar \/ jar' \in (1..issued) \ stale,
         x.pc \in {"idle", "sent", "refreshing", "retrying", "replied"},
         x.reply # "clear",
         x.pc = "sent" => x.cookie = jar,
         x.pc = "refreshing" =>
           x.flight \in Asked /\ flight[x.flight].pair \notin stale,
         x.pc = "retrying" => x.pair \in (1..issued) \ stale,
         x.pc = "replied" /\ x.reply = "set" =>
           x.pair \in (1..issued) \ stale
  PROVE  Quiet'
<1>1. /\ req'[r] = x
      /\ \A s \in Requests : s # r => req'[s] = req[s]
  BY DEF TypeOK
<1>2. jar \in 1..issued /\ page # "leaving" /\ Asked' = Asked
  BY DEF Quiet, Asked
<1>3. ASSUME NEW s \in Requests PROVE RequestQuiet(s)'
  <2>1. RequestQuiet(s)
    BY DEF Quiet
  <2>2. CASE s = r
    BY <1>1, <1>2, <2>2 DEF RequestQuiet
  <2>3. CASE s # r
    BY <1>1, <1>2, <2>1, <2>3 DEF RequestQuiet
  <2>4. QED
    BY <2>2, <2>3
<1>4. ASSUME NEW p, p \in stale, Needed(p)' PROVE Needed(p)
  <2>1. CASE jar' = p
    BY <1>4, <2>1 DEF Needed
  <2>2. ASSUME NEW s \in Requests, req'[s].pc = "sent", req'[s].cookie = p
        PROVE  Needed(p)
    BY <1>1, <2>2 DEF Needed
  <2>3. QED
    BY <1>4, <2>1, <2>2 DEF Needed
<1>5. ASSUME NEW f \in Asked PROVE FlightQuiet(f)'
  <2>1. FlightQuiet(f)
    BY DEF Quiet
  <2>2. Live(f)' <=> Live(f)
    BY DEF Live
  <2>3. Needed(flight[f].key)' => Needed(flight[f].key)
    BY <1>4, <2>1 DEF FlightQuiet
  <2>4. flight'[f] = flight[f]
    OBVIOUS
  <2>5. QED
    BY <2>1, <2>2, <2>3, <2>4 DEF FlightQuiet
<1>6. FlightOrder' /\ DeadExchanged'
  BY <1>2 DEF Quiet, FlightOrder, DeadExchanged
<1>7. QED
  BY <1>2, <1>3, <1>5, <1>6 DEF Quiet

(* An answer that erases no cookie.                                        *)
LEMMA QuietReply ==
  ASSUME TypeOK, Quiet, NEW r \in Requests, NEW kind \in Replies,
         NEW p \in 0..MaxPairs, Reply(r, kind, p), kind # "clear",
         kind = "set" => p \in (1..issued) \ stale,
         UNCHANGED <<jar, page, flight, table, issued, dead, stale>>
  PROVE  Quiet'
<1> DEFINE x == [req[r] EXCEPT !.pc = "replied", !.reply = kind, !.pair = p]
<1>1. req[r] \in Request
  BY DEF TypeOK
<1>2. x \in Request /\ x.pc = "replied" /\ x.reply = kind /\ x.pair = p
  BY <1>1 DEF Request
<1>3. req' = [req EXCEPT ![r] = x]
  BY DEF Reply
<1> HIDE DEF x
<1>4. QED
  BY <1>2, <1>3, QuietRequest

(* A step that only the flights and the backend take part in: each flight  *)
(* is left alone or stays live, and the requests do not move.              *)
LEMMA QuietRequestsStay ==
  ASSUME TypeOK, Quiet, UNCHANGED <<jar, page, req, stale>>,
         issued \in Nat, issued' \in Nat, issued <= issued',
         Asked \subseteq Asked',
         \A f \in Asked : flight'[f].pair \in stale => flight[f].pair \in stale
  PROVE  /\ jar' \in 1..issued' /\ page' # "leaving"
         /\ \A r \in Requests : RequestQuiet(r)'
         /\ \A p : Needed(p)' <=> Needed(p)
<1>1. 1..issued \subseteq 1..issued'
  OBVIOUS
<1>2. ASSUME NEW r \in Requests PROVE RequestQuiet(r)'
  <2>1. RequestQuiet(r)
    BY DEF Quiet
  <2>2. req'[r] = req[r] /\ stale' = stale
    OBVIOUS
  <2>3. req[r].pc = "refreshing" => req[r].flight \in Asked' /\
          flight'[req[r].flight].pair \notin stale
    BY <2>1 DEF RequestQuiet
  <2>4. QED
    BY <1>1, <2>1, <2>2, <2>3 DEF RequestQuiet
<1>3. QED
  BY <1>1, <1>2 DEF Quiet, Needed

-----------------------------------------------------------------------------
(* The steps of an undisturbed browser, one lemma for each that is not a   *)
(* mere change of one request.                                             *)

(* A request whose token was refused joins its flight or asks for one: no  *)
(* earlier flight of that token is still live, or it would be in the table.*)
LEMMA QuietRefresh ==
  ASSUME TypeOK, Quiet, stale \subseteq 1..issued, Undisturbed,
         NEW r \in Requests, Refresh(r)
  PROVE  Quiet'
<1> DEFINE c == req[r].cookie
<1>1. /\ req[r] \in Request /\ issued \in Nat
      /\ flight \in [Flights -> Flight]
  BY DEF TypeOK, Pairs
<1>2. req[r].pc = "sent" /\ c \in 1..issued /\ c \in stale /\ c # 0
  BY <1>1 DEF Quiet, RequestQuiet, Refresh, Accepted, Undisturbed
<1>3. Needed(c)
  BY <1>2 DEF Needed
<1>4. ASSUME NEW f \in Joinable(c), UNCHANGED <<flight, table>>,
             req' = [req EXCEPT ![r].pc = "refreshing", ![r].flight = f]
      PROVE  Quiet'
  <2> DEFINE x == [req[r] EXCEPT !.pc = "refreshing", !.flight = f]
  <2>1. f \in table /\ f \in Asked /\ f \in Flights
    BY <1>4 DEF Joinable, Quiet, FlightOrder, Asked
  <2>2. flight[f].pair \notin stale
    BY <2>1 DEF Quiet, FlightQuiet
  <2>3. f \in 0..MaxFlights
    BY <2>1, BoundsAssumption DEF Flights
  <2>4. x \in Request /\ x.pc = "refreshing" /\ x.flight = f
    BY <1>1, <2>3 DEF Request
  <2>5. x.reply # "clear"
    BY <1>1 DEF Quiet, RequestQuiet, Request
  <2>6. req' = [req EXCEPT ![r] = x]
    BY <1>4
  <2> HIDE DEF x
  <2>7. QED
    BY <1>4, <2>1, <2>2, <2>4, <2>5, <2>6, QuietRequest DEF Refresh
<1>5. ASSUME Joinable(c) = {}, NEW f \in Flights \ Asked,
             \A g \in Flights \ Asked : f <= g,
             flight' = [flight EXCEPT ![f] =
               [key |-> c, state |-> "asked", pair |-> 0]],
             table' = table \cup {f},
             req' = [req EXCEPT ![r].pc = "refreshing", ![r].flight = f]
      PROVE  Quiet'
  <2>1. /\ flight'[f] = [key |-> c, state |-> "asked", pair |-> 0]
        /\ \A g \in Flights : g # f => flight'[g] = flight[g]
    BY <1>1, <1>5
  <2>2. UNCHANGED <<jar, page, issued, dead, stale, events>>
    BY DEF Refresh
  <2>3. Asked' = Asked \cup {f}
    BY <2>1 DEF Asked
  <2>4. 0 \notin stale
    BY <1>1
  <2>5. /\ req'[r].pc = "refreshing" /\ req'[r].flight = f
        /\ req'[r].reply = req[r].reply
        /\ \A s \in Requests : s # r => req'[s] = req[s]
    BY <1>1, <1>5 DEF TypeOK, Request
  <2>6. ASSUME NEW s \in Requests PROVE RequestQuiet(s)'
    <3>1. RequestQuiet(s)
      BY DEF Quiet
    <3>2. CASE s = r
      BY <2>1, <2>2, <2>3, <2>4, <2>5, <3>1, <3>2 DEF RequestQuiet
    <3>3. CASE s # r
      <4>1. req'[s] = req[s] /\ stale' = stale /\ issued' = issued
        BY <2>2, <2>5, <3>3
      <4>2. req[s].pc = "refreshing" => req[s].flight \in Asked' /\
              flight'[req[s].flight].pair \notin stale
        BY <2>1, <2>3, <3>1, <1>5 DEF RequestQuiet, Asked
      <4>3. QED
        BY <3>1, <4>1, <4>2 DEF RequestQuiet
    <3>4. QED
      BY <3>2, <3>3
  <2>7. ASSUME NEW p, Needed(p)' PROVE Needed(p)
    BY <2>2, <2>5, <2>7 DEF Needed
  <2>8. ASSUME NEW g \in Asked' PROVE FlightQuiet(g)'
    <3>1. CASE g = f
      BY <1>2, <2>1, <2>2, <2>4, <3>1, <1>5 DEF FlightQuiet, Live
    <3>2. CASE g # f
      <4>1. FlightQuiet(g) /\ flight'[g] = flight[g]
        BY <2>1, <2>3, <3>2 DEF Quiet, Asked
      <4>2. Needed(flight[g].key)' => Needed(flight[g].key)
        BY <2>7, <4>1 DEF Needed
      <4>3. /\ stale' = stale /\ issued' = issued
            /\ g \in table' <=> g \in table
        BY <2>2, <3>2, <1>5
      <4>4. QED
        BY <4>1, <4>2, <4>3 DEF FlightQuiet, Live
    <3>3. QED
      BY <3>1, <3>2
  <2>9. ASSUME NEW g \in Asked, flight[g].key = c
        PROVE  flight[g].state = "unavailable"
    BY <1>3, <1>5, <2>9 DEF Quiet, FlightQuiet, Joinable
  <2>10. \A g \in Asked : g < f
    BY <1>5 DEF Quiet, FlightOrder, Asked, Flights
  <2>11. FlightOrder'
    <3>1. table' \subseteq Asked'
      BY <1>5, <2>3 DEF Quiet, FlightOrder
    <3>2. ASSUME NEW g \in Flights, NEW h \in Flights, g < h, h \in Asked'
          PROVE  g \in Asked'
      BY <1>5, <2>3, <3>2 DEF Quiet, FlightOrder, Flights
    <3>3. ASSUME NEW g \in Asked', NEW h \in Asked', g < h,
                 flight'[g].key = flight'[h].key
          PROVE  flight'[g].state = "unavailable"
      <4>1. g \in Flights /\ h \in Flights /\ g # f
        BY <2>3, <2>10, <3>3 DEF Asked, Flights
      <4>2. CASE h = f
        BY <2>1, <2>3, <2>9, <3>3, <4>1, <4>2
      <4>3. CASE h # f
        BY <2>1, <2>3, <3>3, <4>1, <4>3 DEF Quiet, FlightOrder
      <4>4. QED
        BY <4>2, <4>3
    <3>4. QED
      BY <3>1, <3>2, <3>3 DEF FlightOrder
  <2>12. DeadExchanged'
    BY <1>5, <2>1, <2>2 DEF Quiet, DeadExchanged, Asked
  <2>13. QED
    BY <2>2, <2>6, <2>8, <2>11, <2>12 DEF Quiet
<1>6. QED
  BY <1>2, <1>4, <1>5 DEF Refresh

(* The backend exchanges the token, or cannot be reached.  It refuses a    *)
(* token that is on the blacklist, and then a flight has exchanged it.     *)
LEMMA QuietBackend ==
  ASSUME TypeOK, Quiet, stale \subseteq 1..issued, Undisturbed, Undisturbed',
         NEW f \in Flights, Rotate(f) \/ Settle(f) \/ TimeOut(f)
  PROVE  Quiet'
<1>1. /\ flight \in [Flights -> Flight] /\ issued \in Nat
      /\ flight[f] \in Flight
  BY DEF TypeOK, Pairs
<1>2. UNCHANGED <<jar, page, req, stale>>
  BY DEF Rotate, Settle, TimeOut
<1>3. f \in Asked /\ flight[f].state \notin {"refused", "expired"}
  <2>1. f \in Asked
    BY DEF Rotate, Settle, TimeOut, Asked
  <2>2. QED
    BY <2>1 DEF Quiet, FlightQuiet, Live
<1>4. \A g \in Asked : g # f /\ flight[g].key = flight[f].key =>
        \/ g < f /\ flight[g].state = "unavailable"
        \/ f < g /\ flight[f].state = "unavailable"
  BY <1>3 DEF Quiet, FlightOrder, Asked, Flights
<1>5. flight[f].state = "asked" => flight[f].key \notin dead
  <2>1. SUFFICES ASSUME flight[f].state = "asked", flight[f].key \in dead
                 PROVE  FALSE
    OBVIOUS
  <2>2. PICK g \in Flights : flight[g].key = flight[f].key /\
                             flight[g].state \in {"rotated", "ok"}
    BY <2>1 DEF Quiet, DeadExchanged
  <2>3. QED
    BY <1>4, <2>1, <2>2 DEF Asked
<1>6. \/ /\ flight[f].state = "asked" /\ table' = table
         /\ issued' = issued + 1 /\ dead' = dead \cup {flight[f].key}
         /\ flight' = [flight EXCEPT ![f] = [key |-> flight[f].key,
                         state |-> "rotated", pair |-> issued + 1]]
      \/ /\ flight[f].state = "rotated" /\ table' = table
         /\ issued' = issued /\ dead' = dead
         /\ flight' = [flight EXCEPT ![f].state = "ok"]
      \/ /\ flight[f].state = "asked" /\ table' = table \ {f}
         /\ issued' = issued /\ dead' = dead
         /\ flight' = [flight EXCEPT ![f].state = "unavailable"]
  BY <1>3, <1>5 DEF Rotate, Settle, TimeOut, Undisturbed
<1>7. /\ flight'[f].key = flight[f].key
      /\ flight'[f].state \in {"rotated", "ok", "unavailable"}
      /\ flight'[f].pair = flight[f].pair \/ flight'[f].pair = issued + 1
      /\ \A g \in Flights : g # f => flight'[g] = flight[g]
      /\ Asked' = Asked /\ issued' \in Nat /\ issued <= issued'
  <2>1. /\ flight'[f].key = flight[f].key
        /\ flight'[f].state \in {"rotated", "ok", "unavailable"}
        /\ flight'[f].pair = flight[f].pair \/ flight'[f].pair = issued + 1
        /\ \A g \in Flights : g # f => flight'[g] = flight[g]
    BY <1>1, <1>6 DEF Flight
  <2>2. Asked' = Asked
    BY <1>3, <2>1 DEF Asked
  <2>3. QED
    BY <1>1, <1>6, <2>1, <2>2
<1>8. issued + 1 \notin stale
  BY <1>1
<1>9. /\ jar' \in 1..issued' /\ page' # "leaving"
      /\ \A r \in Requests : RequestQuiet(r)'
      /\ \A p : Needed(p)' <=> Needed(p)
  <2>1. \A g \in Asked :
          flight'[g].pair \in stale => flight[g].pair \in stale
    BY <1>7, <1>8 DEF Asked
  <2>2. QED
    BY <1>1, <1>2, <1>7, <2>1, QuietRequestsStay
<1>10. ASSUME NEW g \in Asked PROVE FlightQuiet(g)'
  <2>1. FlightQuiet(g) /\ g \in Flights
    BY DEF Quiet, Asked
  <2>2. 1..issued \subseteq 1..issued' /\ stale' = stale
    BY <1>1, <1>2, <1>7
  <2>3. CASE g # f
    <3>1. flight'[g] = flight[g] /\ (g \in table' <=> g \in table)
      BY <1>6, <1>7, <2>1, <2>3
    <3>2. QED
      BY <1>9, <2>1, <2>2, <3>1 DEF FlightQuiet, Live
  <2>4. CASE g = f
    <3>1. CASE flight'[f].state = "unavailable"
      <4>1. f \notin table'
        BY <1>1, <1>6, <3>1 DEF Flight
      <4>2. QED
        BY <1>2, <1>7, <2>1, <2>4, <3>1, <4>1 DEF FlightQuiet, Live
    <3>2. CASE flight'[f].state # "unavailable"
      <4>1. /\ Live(f) /\ flight'[f].state \in {"rotated", "ok"}
            /\ table' = table
        BY <1>1, <1>6, <1>7, <3>2 DEF Live, Flight
      <4>2. flight'[f].pair \in 1..issued'
        BY <1>1, <1>6, <2>1, <2>4, <4>1 DEF FlightQuiet, Flight, Live
      <4>3. f \in table => flight'[f].pair \notin stale
        BY <1>7, <1>8, <2>1, <2>4 DEF FlightQuiet
      <4>4. QED
        BY <1>2, <1>7, <1>9, <2>1, <2>4, <3>2, <4>1, <4>2, <4>3
           DEF FlightQuiet, Live
    <3>3. QED
      BY <3>1, <3>2
  <2>5. QED
    BY <2>3, <2>4
<1>11. FlightOrder'
  <2>1. table' \subseteq Asked' /\
        \A g, h \in Flights : g < h /\ h \in Asked' => g \in Asked'
    BY <1>6, <1>7 DEF Quiet, FlightOrder
  <2>2. ASSUME NEW g \in Asked, NEW h \in Asked, g < h,
               flight'[g].key = flight'[h].key
        PROVE  flight'[g].state = "unavailable"
    <3>1. flight[g].state = "unavailable"
      BY <1>7, <2>2 DEF Quiet, FlightOrder, Asked
    <3>2. QED
      BY <1>6, <1>7, <3>1 DEF Asked
  <2>3. QED
    BY <1>7, <2>1, <2>2 DEF FlightOrder
<1>12. DeadExchanged'
  <2>1. ASSUME NEW p \in dead'
        PROVE  \E g \in Flights : flight'[g].key = p /\
                                  flight'[g].state \in {"rotated", "ok"}
    <3>1. CASE p \in dead
      <4>1. PICK g \in Flights :
              flight[g].key = p /\ flight[g].state \in {"rotated", "ok"}
        BY <3>1 DEF Quiet, DeadExchanged
      <4>2. flight'[g].key = p /\ flight'[g].state \in {"rotated", "ok"}
        <5>1. CASE g # f
          BY <1>7, <4>1, <5>1
        <5>2. CASE g = f
          BY <1>1, <1>6, <1>7, <4>1, <5>2 DEF Flight
        <5>3. QED
          BY <5>1, <5>2
      <4>3. QED
        BY <4>2
    <3>2. CASE p \notin dead
      BY <1>1, <1>6, <1>7, <2>1, <3>2 DEF Flight
    <3>3. QED
      BY <3>1, <3>2
  <2>2. QED
    BY <2>1 DEF DeadExchanged
<1>13. QED
  BY <1>7, <1>9, <1>10, <1>11, <1>12 DEF Quiet

(* A flight leaves the table when nobody has its token any more, and an    *)
(* access token expires when no answer brings it any more.                 *)
LEMMA QuietAging ==
  ASSUME TypeOK, Quiet, Undisturbed, Undisturbed',
         \/ \E f \in Flights : Prune(f) \/ Evict(f)
         \/ \E p \in Pairs : Expire(p)
  PROVE  Quiet'
<1>1. UNCHANGED <<jar, page, req, flight, issued, dead>>
  BY DEF Prune, Evict, Expire
<1>2. Asked' = Asked /\ DeadExchanged' /\ \A p : Needed(p)' <=> Needed(p)
  BY <1>1 DEF Asked, Quiet, DeadExchanged, Needed
<1>3. table' \subseteq table /\ FlightOrder'
  BY <1>1, <1>2 DEF Prune, Evict, Expire, Quiet, FlightOrder
<1>4. ASSUME NEW f \in Flights, Prune(f) \/ Evict(f) PROVE Quiet'
  <2>1. stale' = stale /\ table' = table \ {f} /\ ~Needed(flight[f].key)
    BY <1>4 DEF Prune, Evict, Undisturbed
  <2>2. \A r \in Requests : RequestQuiet(r)'
    BY <1>1, <1>2, <2>1 DEF Quiet, RequestQuiet
  <2>3. ASSUME NEW g \in Asked PROVE FlightQuiet(g)'
    <3>1. FlightQuiet(g)
      BY DEF Quiet
    <3>2. QED
      BY <1>1, <1>2, <2>1, <3>1 DEF FlightQuiet, Live
  <2>4. QED
    BY <1>1, <1>2, <1>3, <2>2, <2>3 DEF Quiet
<1>5. ASSUME NEW p \in Pairs, Expire(p) PROVE Quiet'
  <2>1. stale' = stale \cup 1..p /\ table' = table
    BY <1>5 DEF Expire
  <2>2. ASSUME NEW r \in Requests PROVE RequestQuiet(r)'
    <3>1. RequestQuiet(r)
      BY DEF Quiet
    <3>2. /\ req[r].pc \in {"retrying", "replied"} => req[r].pair \notin 1..p
          /\ req[r].pc = "refreshing" =>
               flight[req[r].flight].pair \notin 1..p
      BY <1>5 DEF Expire
    <3>3. QED
      BY <1>1, <1>2, <2>1, <3>1, <3>2 DEF RequestQuiet
  <2>3. ASSUME NEW g \in Asked PROVE FlightQuiet(g)'
    <3>1. FlightQuiet(g) /\ (g \in table => flight[g].pair \notin 1..p)
      BY <1>5 DEF Quiet, Expire, Asked
    <3>2. QED
      BY <1>1, <1>2, <2>1, <3>1 DEF FlightQuiet, Live
  <2>4. QED
    BY <1>1, <1>2, <1>3, <2>2, <2>3 DEF Quiet
<1>6. QED
  BY <1>4, <1>5

(* The user signs in again, with a pair that no flight has asked with.     *)
LEMMA QuietLogin ==
  ASSUME TypeOK, Quiet, stale \subseteq 1..issued, issued \in 1..MaxPairs, Login
  PROVE  Quiet'
<1>1. /\ UNCHANGED <<req, flight, table, dead, stale>> /\ page' = "app"
      /\ issued \in Nat /\ issued' = issued + 1 /\ jar' = issued'
  BY DEF Login, Pairs
<1>2. 1..issued \subseteq 1..issued' /\ jar' \in 1..issued' /\ jar' \notin stale
  BY <1>1
<1>3. ASSUME NEW r \in Requests PROVE RequestQuiet(r)'
  <2>1. RequestQuiet(r)
    BY DEF Quiet
  <2>2. QED
    BY <1>1, <1>2, <2>1 DEF RequestQuiet, Asked
<1>4. ASSUME NEW p \in stale, Needed(p)' PROVE Needed(p)
  BY <1>1, <1>2, <1>4 DEF Needed
<1>5. ASSUME NEW f \in Asked PROVE FlightQuiet(f)'
  <2>1. FlightQuiet(f)
    BY DEF Quiet
  <2>2. Needed(flight[f].key)' => Needed(flight[f].key)
    <3>1. flight[f].key \in stale /\ flight'[f] = flight[f]
      BY <1>1, <2>1 DEF FlightQuiet
    <3>2. QED
      BY <1>4, <3>1 DEF Needed
  <2>3. flight' = flight /\ table' = table /\ stale' = stale
    BY <1>1
  <2>4. QED
    BY <1>2, <2>1, <2>2, <2>3 DEF FlightQuiet, Live
<1>6. Asked' = Asked /\ FlightOrder' /\ DeadExchanged'
  BY <1>1 DEF Quiet, Asked, FlightOrder, DeadExchanged
<1>7. QED
  BY <1>1, <1>2, <1>3, <1>5, <1>6 DEF Quiet

-----------------------------------------------------------------------------
(* The invariant: an undisturbed browser stays in a quiet state.           *)
THEOREM UndisturbedIsQuiet == Spec => []SessionInv
<1>1. Init => SessionInv
  <2> SUFFICES ASSUME Init PROVE SessionInv
    OBVIOUS
  <2>1. Asked = {} /\ table = {} /\ dead = {} /\ stale = {}
    BY DEF Init, Asked, NoFlight
  <2>2. \A r \in Requests : RequestQuiet(r)
    BY DEF Init, RequestQuiet, Idle
  <2>3. QED
    BY <2>1, <2>2
       DEF Init, SessionInv, Quiet, FlightOrder, DeadExchanged
<1>2. TypeOK /\ TypeOK' /\ SessionInv /\ [Next]_vars => SessionInv'
  <2> SUFFICES ASSUME TypeOK, TypeOK', SessionInv, [Next]_vars
               PROVE  SessionInv'
    OBVIOUS
  <2>1. stale' \subseteq 1..issued'
    <3>1. issued \in Nat /\ issued' \in Nat /\ stale \subseteq 1..issued
      BY DEF TypeOK, Pairs, SessionInv
    <3>2. CASE \E p \in Pairs : Expire(p)
      <4>1. PICK p \in Pairs : Expire(p)
        BY <3>2
      <4>2. /\ p \in Nat /\ p <= issued /\ issued' = issued
            /\ stale' = stale \cup 1..p
        BY <4>1 DEF Expire, Pairs
      <4>3. QED
        BY <3>1, <4>2
    <3>3. CASE stale' = stale /\ issued' \in {issued, issued + 1}
      BY <3>1, <3>3
    <3>4. CASE ShowLogin \/ OpenPage \/ Login \/ Disable
      BY <3>3, <3>4 DEF ShowLogin, OpenPage, Login, Disable
    <3>5. CASE \E p \in Pairs : EndRefresh(p)
      BY <3>3, <3>5 DEF EndRefresh
    <3>6. CASE \E f \in Flights : Backend(f) \/ Prune(f) \/ Evict(f)
      BY <3>3, <3>6 DEF Backend, Rotate, Settle, TimeOut, Prune, Evict
    <3>7. CASE \E r \in Requests : \/ \E op \in Ops : Start(r, op)
                                  \/ Deliver(r) \/ Drop(r) \/ Process(r)
      BY <3>3, <3>7 DEF Process, Start, Deliver, Drop, Refresh, Resume,
         RetryRefused, RelayPasswordChange, FinishLogout, Serve,
         ChangePassword, Blacklist
    <3>8. QED
      BY <3>1, <3>2, <3>3, <3>4, <3>5, <3>6, <3>7 DEF Next, vars
  <2>2. ASSUME Undisturbed' PROVE Quiet'
    <3>1. Undisturbed
      BY <2>2 DEF Next, Process, Backend, Start, Deliver, Drop, Refresh,
         Resume, RetryRefused, RelayPasswordChange, FinishLogout, Serve,
         ChangePassword, Blacklist, Rotate, Settle, TimeOut, Prune, Evict,
         Expire, EndRefresh, ShowLogin, OpenPage, Login, Disable, vars,
         Undisturbed
    <3>2. Quiet /\ stale \subseteq 1..issued
      BY <3>1 DEF SessionInv
    <3>3. /\ jar \in 0..MaxPairs /\ issued \in 1..MaxPairs
          /\ \A r \in Requests : req[r] \in Request
      BY DEF TypeOK, Pairs
    <3>4. Idle \in Request /\ Idle.pc = "idle" /\ Idle.reply = "none"
      BY BoundsAssumption DEF Idle, Request, Ops, Replies
    <3>5. ASSUME NEW r \in Requests, NEW op \in Ops, Start(r, op) PROVE Quiet'
      <4> DEFINE x == [Idle EXCEPT !.pc = "sent", !.op = op, !.cookie = jar]
      <4>1. /\ x \in Request /\ x.pc = "sent" /\ x.reply = "none"
            /\ x.cookie = jar
        BY <3>3, <3>4 DEF Idle, Request
      <4>2. req' = [req EXCEPT ![r] = x]
        BY <3>5 DEF Start
      <4> HIDE DEF x
      <4>3. QED
        BY <3>2, <3>5, <4>1, <4>2, QuietRequest DEF Start
    <3>6. ASSUME NEW r \in Requests, Deliver(r) \/ Drop(r) PROVE Quiet'
      <4>1. /\ req[r].pc = "replied" /\ req' = [req EXCEPT ![r] = Idle]
            /\ UNCHANGED <<flight, table, issued, dead, stale>>
        BY <3>6 DEF Deliver, Drop
      <4>2. RequestQuiet(r)
        BY <3>2 DEF Quiet
      <4>3. page' = page /\ (jar' = jar \/ jar' \in (1..issued) \ stale)
        BY <3>6, <4>1, <4>2 DEF Deliver, Drop, RequestQuiet
      <4>4. QED
        BY <3>2, <3>4, <4>1, <4>3, QuietRequest
    <3>7. ASSUME NEW r \in Requests, Resume(r) PROVE Quiet'
      <4> DEFINE f == req[r].flight
      <4>1. RequestQuiet(r) /\ req[r].pc = "refreshing"
        BY <3>2, <3>7 DEF Quiet, Resume
      <4>2. f \in Asked /\ flight[f].pair \notin stale /\ FlightQuiet(f)
        BY <3>2, <4>1 DEF Quiet, RequestQuiet
      <4>3. CASE flight[f].state = "ok"
        <5> DEFINE x == [req[r] EXCEPT !.pc = "retrying",
                                       !.pair = flight[f].pair]
        <5>1. flight[f].pair \in (1..issued) \ stale
          BY <4>2, <4>3 DEF FlightQuiet
        <5>2. flight[f].pair \in 0..MaxPairs
          <6>1. flight[f] \in Flight
            BY <4>2 DEF TypeOK, Asked
          <6>2. QED
            BY <6>1 DEF Flight
        <5>3. /\ x \in Request /\ x.pc = "retrying" /\ x.reply # "clear"
              /\ x.pair = flight[f].pair
          BY <3>3, <4>1, <5>2 DEF Request, RequestQuiet
        <5>4. req' = [req EXCEPT ![r] = x]
          BY <3>7, <4>3 DEF Resume, Reply
        <5> HIDE DEF x
        <5>5. QED
          BY <3>2, <3>7, <5>1, <5>3, <5>4, QuietRequest DEF Resume
      <4>4. CASE flight[f].state # "ok"
        <5>1. Reply(r, "unavailable", 0)
          BY <3>7, <4>2, <4>4 DEF Resume, FlightQuiet, Live
        <5>2. 0 \in 0..MaxPairs /\ "unavailable" \in Replies
          BY BoundsAssumption DEF Replies
        <5>3. UNCHANGED <<jar, page, flight, table, issued, dead, stale>>
          BY <3>7 DEF Resume
        <5>4. QED
          BY <3>2, <5>1, <5>2, <5>3, QuietReply
      <4>5. QED
        BY <4>3, <4>4
    <3>8. ASSUME NEW r \in Requests, Serve(r) PROVE Quiet'
      <4>1. RequestQuiet(r) /\ req[r].pair \in 0..MaxPairs
        BY <3>2, <3>3 DEF Quiet, Request
      <4>2. QED
        BY <3>2, <3>8, <4>1, QuietReply DEF Serve, Replies, RequestQuiet
    <3>9. ASSUME NEW r \in Requests,
                 \/ RetryRefused(r) \/ RelayPasswordChange(r)
                 \/ FinishLogout(r) \/ ChangePassword(r) \/ Blacklist(r)
          PROVE  FALSE
      <4>1. RequestQuiet(r)
        BY <3>2 DEF Quiet
      <4>2. ~RetryRefused(r)
        BY <3>1, <3>3, <4>1 DEF RetryRefused, RequestQuiet, Accepted,
           Undisturbed
      <4>3. QED
        BY <2>2, <3>9, <4>1, <4>2 DEF RelayPasswordChange, FinishLogout,
           ChangePassword, Blacklist, RequestQuiet, Undisturbed
    <3>10. ~ShowLogin /\ ~Disable /\ \A p \in Pairs : ~EndRefresh(p)
      BY <2>2, <3>2 DEF Quiet, ShowLogin, Disable, EndRefresh, Undisturbed
    <3>11. CASE UNCHANGED vars
      BY <3>2, <3>11 DEF vars, Quiet, RequestQuiet, FlightQuiet, FlightOrder,
         DeadExchanged, Asked, Live, Needed
    <3>12. CASE OpenPage
      <4>1. UNCHANGED <<jar, req, flight, table, issued, dead, stale>> /\
            page' # "leaving"
        BY <3>12 DEF OpenPage
      <4>2. QED
        BY <3>2, <4>1 DEF Quiet, RequestQuiet, FlightQuiet, FlightOrder,
           DeadExchanged, Asked, Live, Needed
    <3>13. CASE Login
      BY <3>2, <3>3, <3>13, QuietLogin
    <3>14. QED
      BY <2>2, <3>1, <3>2, <3>5, <3>6, <3>7, <3>8, <3>9, <3>10, <3>11, <3>12,
         <3>13, QuietRefresh, QuietBackend, QuietAging
         DEF Next, Process, Backend
  <2>3. ASSUME events' = {} PROVE page' = "app"
    <3>1. Undisturbed' /\ Undisturbed
      BY <2>3 DEF Next, Process, Backend, Start, Deliver, Drop, Refresh,
         Resume, RetryRefused, RelayPasswordChange, FinishLogout, Serve,
         ChangePassword, Blacklist, Rotate, Settle, TimeOut, Prune, Evict,
         Expire, EndRefresh, ShowLogin, OpenPage, Login, Disable, vars,
         Undisturbed
    <3>2. Quiet
      BY <3>1 DEF SessionInv
    <3>3. events = {}
      BY <2>3 DEF Next, Process, Backend, Start, Deliver, Drop, Refresh,
         Resume, RetryRefused, RelayPasswordChange, FinishLogout, Serve,
         ChangePassword, Blacklist, Rotate, Settle, TimeOut, Prune, Evict,
         Expire, EndRefresh, ShowLogin, OpenPage, Login, Disable, vars
    <3>4. page = "app"
      BY <3>3 DEF SessionInv
    <3>5. CASE page' = page
      BY <3>4, <3>5
    <3>6. ASSUME NEW r \in Requests, Deliver(r) PROVE page' = "app"
      <4>1. RequestQuiet(r)
        BY <3>2 DEF Quiet
      <4>2. QED
        BY <3>4, <3>6, <4>1 DEF Deliver, RequestQuiet
    <3>7. CASE OpenPage
      <4>1. jar # 0
        BY <3>2 DEF Quiet, TypeOK, Pairs
      <4>2. jar \notin stale
        BY <2>3, <3>4, <3>7 DEF OpenPage
      <4>3. QED
        BY <3>7, <4>1, <4>2 DEF OpenPage, HasSession
    <3>8. CASE Login
      BY <3>8 DEF Login
    <3>9. CASE ShowLogin
      BY <3>4, <3>9 DEF ShowLogin
    <3>10. QED
      BY <3>5, <3>6, <3>7, <3>8, <3>9 DEF Next, Process, Backend, Start, Drop,
         Refresh, Resume, RetryRefused, RelayPasswordChange, FinishLogout,
         Serve, ChangePassword, Blacklist, Rotate, Settle, TimeOut, Prune,
         Evict, Expire, EndRefresh, Disable, vars
  <2>4. QED
    BY <2>1, <2>2, <2>3 DEF SessionInv
<1>3. QED
  BY <1>1, <1>2, Typed, PTL DEF Spec

(* However requests interleave, nothing but what Events lists erases the   *)
(* cookies, and without any of it the user stays in the application.       *)
THEOREM KeepsSession == Spec => []SessionKept
<1>1. SessionInv => SessionKept
  BY DEF SessionInv, Quiet, RequestQuiet, SessionKept
<1>2. QED
  BY <1>1, UndisturbedIsQuiet, PTL

(* A token is put to the backend again only after the backend could not be *)
(* reached the first time.                                                 *)
THEOREM AsksOnce == Spec => []AskedOnce
<1>1. SessionInv => AskedOnce
  BY DEF SessionInv, Quiet, FlightOrder, AskedOnce
<1>2. QED
  BY <1>1, UndisturbedIsQuiet, PTL
=============================================================================
