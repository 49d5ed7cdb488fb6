--------------------------- MODULE SessionRefresh ---------------------------
(***************************************************************************)
(* The session of one browser: its cookies, the Next.js process that       *)
(* relays its requests and renews its tokens (lib/refresh-flights.ts,      *)
(* lib/server-session.ts, app/api), and the backend, which accepts a       *)
(* refresh token once and puts it on a blacklist.                          *)
(*                                                                         *)
(* Pair n is the n-th pair of tokens (access and refresh) the backend      *)
(* issued to this browser; 0 is no cookie.  A flight is one refresh asked  *)
(* of the backend; the table of the process maps a token to its flight.    *)
(* An access token and its cookie live an hour, a refresh token and its    *)
(* cookie thirty days.  A cookie is set as soon as its token is issued, so *)
(* that the two end together, but for the time of an answer.               *)
(*                                                                         *)
(* Bounds: MaxPairs pairs and MaxFlights flights in a behaviour.           *)
(***************************************************************************)
EXTENDS Naturals, FiniteSets

CONSTANTS Requests, MaxPairs, MaxFlights

ASSUME RequestsAssumption == IsFiniteSet(Requests)
ASSUME BoundsAssumption == MaxPairs \in Nat \ {0} /\ MaxFlights \in Nat \ {0}

VARIABLES
  jar,      \* the pair whose refresh token is in the browser's cookies
  page,     \* "app", "leaving" (to /login?session=expired) or "login"
  req,      \* each request: where it is, what it carries, what it got
  flight,   \* every refresh asked of the backend
  table,    \* the flights a request may still join
  issued,   \* how many pairs the backend has issued
  dead,     \* pairs whose refresh token is on the blacklist, or has expired
  stale,    \* pairs whose access token has expired
  events    \* what may end a session: see SessionKept

vars == <<jar, page, req, flight, table, issued, dead, stale, events>>

Pairs == 1..MaxPairs
Flights == 1..MaxFlights
Ops == {"call", "password", "logout"}
Events ==
  {"logout", "password", "disabled", "lost", "left", "month", "hour"}
Replies == {"none", "data", "set", "clear", "unavailable"}

Idle == [pc |-> "idle", op |-> "call", cookie |-> 0, flight |-> 0,
         pair |-> 0, reply |-> "none"]
NoFlight == [key |-> 0, state |-> "free", pair |-> 0]

Request == [pc : {"idle", "sent", "refreshing", "retrying", "changed",
                  "revoked", "replied"},
            op : Ops, cookie : 0..MaxPairs, flight : 0..MaxFlights,
            pair : 0..MaxPairs, reply : Replies]
Flight == [key : 0..MaxPairs,
           state : {"free", "asked", "rotated", "refused", "ok", "expired",
                    "unavailable"},
           pair : 0..MaxPairs]

Init ==
  /\ jar = 1 /\ page = "app"
  /\ req = [r \in Requests |-> Idle]
  /\ flight = [f \in Flights |-> NoFlight]
  /\ table = {}
  /\ issued = 1 /\ dead = {} /\ stale = {} /\ events = {}

(* The access token of pair p is accepted by the backend.                  *)
Accepted(p) == p # 0 /\ p \notin stale /\ "disabled" \notin events

(* The access cookie is in the browser.                                    *)
HasSession == jar # 0 /\ jar \notin stale

Active == {r \in Requests : req[r].pc # "idle"}
Asked == {f \in Flights : flight[f].state # "free"}

(* A request still needs the flight of token p: it carries p and has not   *)
(* asked yet, or the browser still holds p.                                *)
Needed(p) ==
  jar = p \/ \E r \in Requests : req[r].pc = "sent" /\ req[r].cookie = p

(* The refresh token of pair p may still be put to the backend.            *)
InUse(p) ==
  Needed(p) \/ \E f \in Flights : flight[f].state = "asked" /\ flight[f].key = p

Reply(r, kind, p) ==
  req' = [req EXCEPT ![r].pc = "replied", ![r].reply = kind, ![r].pair = p]

-----------------------------------------------------------------------------
(* The browser *)

(* A page sends a request with its cookies.  A request takes at most one   *)
(* flight and two pairs, and starts only while the bounds leave them.      *)
Start(r, op) ==
  /\ page = "app" /\ req[r].pc = "idle"
  /\ issued + 2 * (Cardinality(Active) + 1) <= MaxPairs
  /\ Cardinality(Asked) + Cardinality(Active) + 1 <= MaxFlights
  /\ req' = [req EXCEPT ![r] = [Idle EXCEPT !.pc = "sent", !.op = op,
                                            !.cookie = jar]]
  /\ UNCHANGED <<jar, page, flight, table, issued, dead, stale, events>>

(* The answer arrives: its Set-Cookie headers apply whatever was set       *)
(* since the request left.  An expired session leaves the page, once; so   *)
(* does signing out, except in the other tabs.                             *)
Deliver(r) ==
  /\ req[r].pc = "replied"
  /\ jar' = IF req[r].reply = "set" THEN req[r].pair
            ELSE IF req[r].reply = "clear" THEN 0 ELSE jar
  /\ page' \in IF req[r].reply # "clear" \/ page # "app" THEN {page}
               ELSE IF req[r].op = "logout" THEN {"login", "app"}
               ELSE {"leaving"}
  /\ req' = [req EXCEPT ![r] = Idle]
  /\ UNCHANGED <<flight, table, issued, dead, stale, events>>

(* The answer is lost on its way to the browser, or its tab was closed.    *)
Drop(r) ==
  /\ req[r].pc = "replied"
  /\ req' = [req EXCEPT ![r] = Idle]
  /\ UNCHANGED <<jar, page, flight, table, issued, dead, stale, events>>

(* /login?session=expired shows the login page and never goes to the       *)
(* dashboard.  It erases both cookies, even what a late answer has put     *)
(* back, if it finds an access cookie.                                     *)
ShowLogin ==
  /\ page = "leaving" /\ page' = "login"
  /\ jar' = IF HasSession THEN 0 ELSE jar
  /\ UNCHANGED <<req, flight, table, issued, dead, stale, events>>

(* A page is loaded: with an access cookie, that of the application, from  *)
(* the login page too; without one the login page, and the cookies stay as *)
(* they are.  The refresh token is not tried.                              *)
OpenPage ==
  /\ page # "leaving" /\ page' = IF HasSession THEN "app" ELSE "login"
  /\ events' = IF page = "app" /\ jar \in stale THEN events \cup {"hour"}
               ELSE events
  /\ UNCHANGED <<jar, req, flight, table, issued, dead, stale>>

(* The user signs in again.                                                *)
Login ==
  /\ page = "login" /\ "disabled" \notin events
  /\ issued + 2 * Cardinality(Active) < MaxPairs
  /\ issued' = issued + 1 /\ jar' = issued + 1 /\ page' = "app"
  /\ UNCHANGED <<req, flight, table, dead, stale, events>>

-----------------------------------------------------------------------------
(* The Next.js process *)

(* Mutant: a settled refresh is not given to those that come late.         *)
JoinableUnsettled(p) ==
  {f \in table : flight[f].key = p /\ flight[f].state # "ok"}

(* The flight that carries token p, if the table has one.                  *)
Joinable(p) == {f \in table : flight[f].key = p}

(* The backend refused the access token: the request joins the flight of   *)
(* its refresh token, or asks for a new one.                               *)
Refresh(r) ==
  /\ req[r].pc = "sent" /\ req[r].op # "logout" /\ ~Accepted(req[r].cookie)
  /\ \/ /\ req[r].cookie = 0
        /\ Reply(r, "clear", 0)
        /\ UNCHANGED <<flight, table>>
     \/ /\ req[r].cookie # 0
        /\ \E f \in Joinable(req[r].cookie) :
             req' = [req EXCEPT ![r].pc = "refreshing", ![r].flight = f]
        /\ UNCHANGED <<flight, table>>
     \/ /\ req[r].cookie # 0 /\ Joinable(req[r].cookie) = {}
        /\ \E f \in Flights \ Asked :
             /\ \A g \in Flights \ Asked : f <= g
             /\ flight' = [flight EXCEPT ![f] =
                  [key |-> req[r].cookie, state |-> "asked", pair |-> 0]]
             /\ table' = table \cup {f}
             /\ req' = [req EXCEPT ![r].pc = "refreshing", ![r].flight = f]
  /\ UNCHANGED <<jar, page, issued, dead, stale, events>>

(* Mutant: the flight leaves the table as soon as it is answered.          *)
SettleForgetting(f) ==
  /\ \/ /\ flight[f].state = "rotated"
        /\ flight' = [flight EXCEPT ![f].state = "ok"]
        /\ table' = table \ {f}
     \/ /\ flight[f].state = "refused"
        /\ flight' = [flight EXCEPT ![f].state = "expired"]
        /\ table' = table \ {f}
  /\ UNCHANGED <<jar, page, req, issued, dead, stale, events>>

(* The answer of the backend is in: a success stays in the table for the   *)
(* grace window, a failure does not.                                       *)
Settle(f) ==
  /\ \/ /\ flight[f].state = "rotated"
        /\ flight' = [flight EXCEPT ![f].state = "ok"]
        /\ UNCHANGED table
     \/ /\ flight[f].state = "refused"
        /\ flight' = [flight EXCEPT ![f].state = "expired"]
        /\ table' = table \ {f}
  /\ UNCHANGED <<jar, page, req, issued, dead, stale, events>>

(* The backend could not be reached, or its answer was lost or came after  *)
(* the ten seconds of the timeout: by then the token may have been used.   *)
TimeOut(f) ==
  /\ flight[f].state \in {"asked", "rotated", "refused"}
  /\ flight' = [flight EXCEPT ![f].state = "unavailable"]
  /\ table' = table \ {f}
  /\ events' = IF flight[f].state = "rotated" THEN events \cup {"lost"}
               ELSE events
  /\ UNCHANGED <<jar, page, req, issued, dead, stale>>

(* A request that waited on a flight goes on with its result.              *)
Resume(r) ==
  /\ req[r].pc = "refreshing"
  /\ LET f == flight[req[r].flight] IN
       \/ /\ f.state = "ok"
          /\ req' = [req EXCEPT ![r].pc = "retrying", ![r].pair = f.pair]
       \/ f.state = "expired" /\ Reply(r, "clear", 0)
       \/ f.state = "unavailable" /\ Reply(r, "unavailable", 0)
  /\ UNCHANGED <<jar, page, flight, table, issued, dead, stale, events>>

(* The new access token is refused as well: the session is over.           *)
RetryRefused(r) ==
  /\ req[r].pc = "retrying" /\ ~Accepted(req[r].pair)
  /\ Reply(r, "clear", 0)
  /\ UNCHANGED <<jar, page, flight, table, issued, dead, stale, events>>

(* The flights tied to token p, as key or as result, are forgotten.        *)
Forget(p) ==
  /\ table' = {f \in table : flight[f].key # p /\
                             ~(flight[f].state = "ok" /\ flight[f].pair = p)}

(* The new password is relayed: the new pair becomes the cookies.          *)
RelayPasswordChange(r) ==
  /\ req[r].pc = "changed"
  /\ Reply(r, "set", req[r].pair)
  /\ Forget(req[r].cookie)
  /\ UNCHANGED <<jar, page, flight, issued, dead, stale, events>>

FinishLogout(r) ==
  /\ req[r].pc = "revoked"
  /\ Reply(r, "clear", 0)
  /\ Forget(req[r].cookie)
  /\ UNCHANGED <<jar, page, flight, issued, dead, stale, events>>

(* A flight settled thirty seconds ago leaves the table, whoever still     *)
(* carries its token.                                                      *)
Prune(f) ==
  /\ f \in table /\ flight[f].state = "ok"
  /\ table' = table \ {f}
  /\ events' = IF Needed(flight[f].key) THEN events \cup {"left"} ELSE events
  /\ UNCHANGED <<jar, page, req, flight, issued, dead, stale>>

(* Other sessions have filled the table: its oldest entry leaves it.       *)
Evict(f) ==
  /\ f \in table /\ \A g \in table : f <= g
  /\ table' = table \ {f}
  /\ events' = IF Needed(flight[f].key) THEN events \cup {"left"} ELSE events
  /\ UNCHANGED <<jar, page, req, flight, issued, dead, stale>>

-----------------------------------------------------------------------------
(* The backend *)

TokenOf(r) == IF req[r].pc = "retrying" THEN req[r].pair ELSE req[r].cookie

(* A request is served; after a refresh its answer carries the new pair.   *)
Serve(r) ==
  /\ req[r].pc \in {"sent", "retrying"} /\ req[r].op = "call"
  /\ Accepted(TokenOf(r))
  /\ Reply(r, IF req[r].pc = "retrying" THEN "set" ELSE "data", req[r].pair)
  /\ UNCHANGED <<jar, page, flight, table, issued, dead, stale, events>>

(* A refresh token is exchanged once, within thirty days; it is then on    *)
(* the blacklist.                                                          *)
Rotate(f) ==
  /\ flight[f].state = "asked"
  /\ \/ /\ flight[f].key \notin dead /\ "disabled" \notin events
        /\ issued < MaxPairs
        /\ issued' = issued + 1
        /\ dead' = dead \cup {flight[f].key}
        /\ flight' = [flight EXCEPT ![f] = [key |-> flight[f].key,
                        state |-> "rotated", pair |-> issued + 1]]
     \/ /\ flight[f].key \in dead \/ "disabled" \in events
        /\ flight' = [flight EXCEPT ![f].state = "refused"]
        /\ UNCHANGED <<issued, dead>>
  /\ UNCHANGED <<jar, page, req, table, stale, events>>

(* The password changes: every session is revoked, this one gets a pair.   *)
ChangePassword(r) ==
  /\ req[r].pc \in {"sent", "retrying"} /\ req[r].op = "password"
  /\ Accepted(TokenOf(r)) /\ issued < MaxPairs
  /\ issued' = issued + 1
  /\ dead' = 1..issued
  /\ req' = [req EXCEPT ![r].pc = "changed", ![r].pair = issued + 1]
  /\ events' = events \cup {"password"}
  /\ UNCHANGED <<jar, page, flight, table, stale>>

(* Mutant: signing out without a cookie puts the missing token on the      *)
(* blacklist.                                                              *)
BlacklistNone(r) ==
  /\ req[r].pc = "sent" /\ req[r].op = "logout"
  /\ dead' \in {dead, dead \cup ({req[r].cookie})}
  /\ req' = [req EXCEPT ![r].pc = "revoked"]
  /\ events' = events \cup {"logout"}
  /\ UNCHANGED <<jar, page, flight, table, issued, stale>>

(* Signing out puts the token on the blacklist, if the backend answers.    *)
Blacklist(r) ==
  /\ req[r].pc = "sent" /\ req[r].op = "logout"
  /\ dead' \in {dead, dead \cup ({req[r].cookie} \ {0})}
  /\ req' = [req EXCEPT ![r].pc = "revoked"]
  /\ events' = events \cup {"logout"}
  /\ UNCHANGED <<jar, page, flight, table, issued, stale>>

(* The access token of pair p expires, an hour after it was issued; those  *)
(* issued before have.  An hour is longer than the grace window and than   *)
(* any answer on its way.                                                  *)
Expire(p) ==
  /\ p \in Pairs /\ p <= issued /\ p \notin stale
  /\ \A f \in Flights :
       flight[f].pair \in 1..p => f \notin table /\ flight[f].state # "rotated"
  /\ \A r \in Requests :
       /\ req[r].pc \in {"retrying", "changed", "replied"}
            => req[r].pair \notin 1..p
       /\ req[r].pc = "refreshing" => flight[req[r].flight].pair \notin 1..p
  /\ stale' = stale \cup 1..p
  /\ UNCHANGED <<jar, page, req, flight, table, issued, dead, events>>

(* The refresh token of pair p expires, thirty days after it was issued,   *)
(* and its cookie with it; those issued before have.  One that nobody can  *)
(* present any more changes nothing.                                       *)
EndRefresh(p) ==
  /\ p \in stale /\ \E q \in 1..p : InUse(q)
  /\ dead' = dead \cup 1..p
  /\ jar' \in IF jar \in 1..p THEN {jar, 0} ELSE {jar}
  /\ events' = events \cup {"month"}
  /\ UNCHANGED <<page, req, flight, table, issued, stale>>

(* The account is disabled: every token is refused from then on.           *)
Disable ==
  /\ "disabled" \notin events
  /\ events' = events \cup {"disabled"}
  /\ UNCHANGED <<jar, page, req, flight, table, issued, dead, stale>>

-----------------------------------------------------------------------------
Process(r) ==
  \/ Refresh(r) \/ Resume(r) \/ RetryRefused(r) \/ RelayPasswordChange(r)
  \/ FinishLogout(r) \/ Serve(r) \/ ChangePassword(r) \/ Blacklist(r)

Backend(f) == Rotate(f) \/ Settle(f) \/ TimeOut(f)

Next ==
  \/ \E r \in Requests : \/ \E op \in Ops : Start(r, op)
                         \/ Deliver(r) \/ Drop(r) \/ Process(r)
  \/ \E f \in Flights : Backend(f) \/ Prune(f) \/ Evict(f)
  \/ \E p \in Pairs : Expire(p) \/ EndRefresh(p)
  \/ ShowLogin \/ OpenPage \/ Login \/ Disable

Spec == Init /\ [][Next]_vars

-----------------------------------------------------------------------------
TypeOK ==
  /\ jar \in 0..MaxPairs /\ page \in {"app", "leaving", "login"}
  /\ req \in [Requests -> Request]
  /\ \A r \in Requests : req[r].pc = "refreshing" => req[r].flight \in Flights
  /\ flight \in [Flights -> Flight]
  /\ \A f \in Asked : flight[f].key \in Pairs
  /\ table \subseteq Flights
  /\ issued \in Pairs
  /\ dead \subseteq Pairs /\ stale \subseteq Pairs
  /\ events \subseteq Events

(* Nothing happened that may end a session.  A page loaded an hour after   *)
(* the last answer is not such a thing: it shows the login page, and the   *)
(* cookies stay.                                                           *)
Undisturbed == events \subseteq {"hour"}

(* Requests sent together, late or again, with the same token never end a  *)
(* session.  The cookies are erased only if the user signed out or changed *)
(* the password, the account was disabled, the backend's answer to a       *)
(* refresh was lost, the flight left the table while its token was still   *)
(* in use (thirty seconds passed, or the table was full), or thirty days   *)
(* passed; and the user is sent to the login page only then, or when a     *)
(* page is loaded without an access cookie, after an hour.                 *)
SessionKept ==
  /\ Undisturbed => jar # 0 /\ \A r \in Requests : req[r].reply # "clear"
  /\ events = {} => page = "app"

(* The backend is asked twice for the same token only after the first      *)
(* attempt found it unavailable (same exceptions): server-session.ts,      *)
(* one request per token, shared by simultaneous requests.                 *)
AskedOnce ==
  Undisturbed =>
    \A f, g \in Asked :
      f < g /\ flight[f].key = flight[g].key => flight[f].state = "unavailable"
=============================================================================
