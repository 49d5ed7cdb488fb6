----------------------------- MODULE ScanQuota ------------------------------
(***************************************************************************)
(* The scans of packages a shop has a month, counted before they are paid  *)
(* for.                                                                    *)
(*                                                                         *)
(* A scan reads the photo of a face, or that of a face again with its      *)
(* back.  It takes a slot of the month for the reading of the text, and    *)
(* another for the image if the text was not enough; a call whose answer   *)
(* is lost or of no use gives its slot back, even if the provider was      *)
(* called and paid.  A face that was read is kept a while, so that its     *)
(* back takes no slot.  Scans run together, the month may change and the   *)
(* process be killed between any two steps.  The plan of the shop does not *)
(* change meanwhile.                                                       *)
(*                                                                         *)
(* Bounds: MaxScans begun in all, LastMonth, MaxKills.                     *)
(***************************************************************************)
EXTENDS Naturals, FiniteSets

CONSTANTS
  Scanners,    \* the requests that may run together
  Faces,       \* the photos of faces
  Allowed,     \* the plan's slots a month; as if 0 when the provider is off
  MaxScans, LastMonth, MaxKills

ScanCounters == {"text", "vision"}

ASSUME QuotaAssumption ==
  /\ Allowed \in [ScanCounters -> Nat]
  /\ MaxScans \in Nat /\ LastMonth \in Nat \ {0} /\ MaxKills \in Nat

VARIABLES
  monthNow, \* the month that it is
  counts,   \* counts[c][m]: the slots taken of the month m
  kept,     \* the faces whose back takes no slot
  scans,    \* what each request is at
  begun, kills,
  \* What happened, whatever was counted:
  paid,     \* paid[c][m]: the calls the provider had on slots of the month m
  wasted,   \* wasted[c][m]: of these, the calls whose answer came to nothing
  faces,    \* the faces read alone, and the backs read on the slot of one
  lost      \* lost[c][m]: the slots of requests killed before their call ended

quotaVars ==
  <<monthNow, counts, kept, scans, begun, kills, paid, wasted, faces, lost>>

Months == 1..LastMonth
NoCount == [c \in ScanCounters |-> [m \in Months |-> 0]]

(* `slot` is of the text while it is read, of the image after: reserved,   *)
(* shared with the face, or none.  `text` is what became of the reading.   *)
NoScan ==
  [at |-> "none", face |-> CHOOSE f \in Faces : TRUE, back |-> FALSE,
   month |-> 1, slot |-> "none", text |-> "unread"]

QuotaInit ==
  /\ monthNow = 1 /\ counts = NoCount /\ kept = {}
  /\ scans = [s \in Scanners |-> NoScan]
  /\ begun = 0 /\ kills = 0
  /\ paid = NoCount /\ wasted = NoCount /\ lost = NoCount
  /\ faces = [alone |-> 0, backs |-> 0]

-----------------------------------------------------------------------------
IsAt(s, at) == scans[s].at = at
Becomes(s, scan) == scans' = [scans EXCEPT ![s] = scan]

Counter(s) ==
  IF scans[s].at \in {"look", "hold", "image"} THEN "vision" ELSE "text"

One(count, s) == [count EXCEPT ![Counter(s)][scans[s].month] = @ + 1]

(* The row of the month is created if need be, and incremented if it is    *)
(* below the limit, by one update.                                         *)
Below(c, m) == counts[c][m] < Allowed[c]

ReserveSlot(s, next, otherwise) ==
  IF Below(Counter(s), scans[s].month)
  THEN /\ counts' = One(counts, s)
       /\ Becomes(s, [scans[s] EXCEPT !.at = next, !.slot = "reserved"])
  ELSE UNCHANGED counts /\ Becomes(s, otherwise)

(* Mutant: the month that it is.                                           *)
MonthItIs(s) == monthNow

SlotMonth(s) == scans[s].month

ReleaseSlot(s) ==
  LET c == Counter(s)
      m == SlotMonth(s)
  IN counts' = [counts EXCEPT ![c][m] = IF @ > 0 THEN @ - 1 ELSE @]

-----------------------------------------------------------------------------
(* A request reads the month, then looks for a slot.                       *)
BeginScan(s) ==
  /\ IsAt(s, "none") /\ begun < MaxScans /\ begun' = begun + 1
  /\ \E f \in Faces, back \in BOOLEAN :
       Becomes(s, [NoScan EXCEPT !.at = IF back THEN "claim" ELSE "reserve",
                     !.face = f, !.back = back, !.month = monthNow])
  /\ UNCHANGED <<monthNow, counts, kept, kills, paid, wasted,
                 faces, lost>>

(* The slot of the face is taken once: by who takes the face out of the    *)
(* cache, if it answers.                                                   *)
ClaimFace(s) ==
  LET f == scans[s].face IN
  /\ IsAt(s, "claim")
  /\ \/ /\ f \in kept /\ kept' = kept \ {f}
        /\ Becomes(s, [scans[s] EXCEPT !.at = "read", !.slot = "shared"])
     \/ /\ kept' \in {kept, kept \ {f}}
        /\ Becomes(s, [scans[s] EXCEPT !.at = "reserve"])
  /\ UNCHANGED <<monthNow, counts, begun, kills, paid, wasted,
                 faces, lost>>

(* Without a slot, it is read by the local rules alone.                    *)
ReserveText(s) ==
  /\ IsAt(s, "reserve")
  /\ ReserveSlot(s, "read", [scans[s] EXCEPT !.at = "read"])
  /\ UNCHANGED <<monthNow, kept, begun, kills, paid, wasted,
                 faces, lost>>

(* The provider has the call, whether or not its answer is of use.         *)
Received(s, useful) ==
  /\ paid' = One(paid, s)
  /\ wasted' = IF useful THEN wasted ELSE One(wasted, s)

(* With one, the provider structures the text, or fails; or the service    *)
(* does not answer in time, or with an error.  Where the text comes back   *)
(* unstructured the provider may have had the call: it answered off its    *)
(* schema, or its answer was lost on the way.                              *)
ReadText(s) ==
  /\ IsAt(s, "read")
  /\ \E text \in {"structured", "failed", "unreachable"} :
       /\ text = "structured" => scans[s].slot # "none"
       /\ Becomes(s, [scans[s] EXCEPT !.at = "settle", !.text = text])
       /\ \/ scans[s].slot = "reserved" /\ Received(s, text = "structured")
          \/ /\ text = "structured" => scans[s].slot = "shared"
             /\ UNCHANGED <<paid, wasted>>
       /\ faces' =
            CASE text = "structured" /\ scans[s].slot = "shared" ->
                   [faces EXCEPT !.backs = @ + 1]
              [] text = "structured" /\ scans[s].slot = "reserved"
                   /\ ~scans[s].back -> [faces EXCEPT !.alone = @ + 1]
              [] OTHER -> faces
  /\ UNCHANGED <<monthNow, counts, kept, begun, kills, lost>>

(* The face is kept for its back, if the cache answers.                    *)
KeepFace(s) == kept' \in {kept, kept \cup {scans[s].face}}

(* A slot that was of no use is given back, or left for the back again.    *)
SettleText(s) ==
  /\ IsAt(s, "settle")
  /\ LET slot == scans[s].slot
         useful == scans[s].text = "structured"
     IN CASE slot = "reserved" /\ ~useful -> ReleaseSlot(s) /\ UNCHANGED kept
          [] slot = "shared" /\ ~useful -> KeepFace(s) /\ UNCHANGED counts
          [] useful /\ ~scans[s].back -> KeepFace(s) /\ UNCHANGED counts
          [] OTHER -> UNCHANGED <<counts, kept>>
  /\ Becomes(s, IF scans[s].text = "unreachable" THEN NoScan
                ELSE [scans[s] EXCEPT !.at = "look", !.slot = "none"])
  /\ UNCHANGED <<monthNow, begun, kills, paid, wasted, faces, lost>>

(* The image is not needed, or the month is read again for it.             *)
LookAtText(s) ==
  /\ IsAt(s, "look")
  /\ \/ Becomes(s, NoScan)
     \/ Becomes(s, [scans[s] EXCEPT !.at = "hold", !.month = monthNow])
  /\ UNCHANGED <<monthNow, counts, kept, begun, kills, paid, wasted,
                 faces, lost>>

ReserveImage(s) ==
  /\ IsAt(s, "hold") /\ ReserveSlot(s, "image", NoScan)
  /\ UNCHANGED <<monthNow, kept, begun, kills, paid, wasted,
                 faces, lost>>

(* The image is read, or the answer is an error, late or unreadable.       *)
ReadImage(s) ==
  /\ IsAt(s, "image") /\ Becomes(s, NoScan)
  /\ \/ Received(s, TRUE) /\ UNCHANGED counts
     \/ ReleaseSlot(s) /\ (Received(s, FALSE) \/ UNCHANGED <<paid, wasted>>)
  /\ UNCHANGED <<monthNow, kept, begun, kills, faces, lost>>

-----------------------------------------------------------------------------
(* A slot reserved for a call whose end is not known yet, or which came to *)
(* nothing and has not given its slot back yet.                            *)
Held(s) ==
  \/ scans[s].slot = "reserved" /\ scans[s].text # "structured"
  \/ IsAt(s, "image")

(* So ends an error that nobody expected, before the call or after it.     *)
KillScan(s) ==
  /\ ~IsAt(s, "none") /\ Becomes(s, NoScan)
  /\ kills < MaxKills /\ kills' = kills + 1
  /\ lost' = IF Held(s) THEN One(lost, s) ELSE lost
  /\ \/ Held(s) /\ scans[s].at \in {"read", "image"} /\ Received(s, FALSE)
     \/ UNCHANGED <<paid, wasted>>
  /\ UNCHANGED <<monthNow, counts, kept, begun, faces>>

ForgetFace ==
  /\ \E f \in kept : kept' = kept \ {f}
  /\ UNCHANGED <<monthNow, counts, scans, begun, kills, paid, wasted,
                 faces, lost>>

MonthPasses ==
  /\ monthNow < LastMonth /\ monthNow' = monthNow + 1
  /\ UNCHANGED <<counts, kept, scans, begun, kills, paid, wasted,
                 faces, lost>>

QuotaNext ==
  \/ ForgetFace \/ MonthPasses
  \/ \E s \in Scanners :
       \/ BeginScan(s) \/ ClaimFace(s) \/ ReserveText(s) \/ ReadText(s)
       \/ SettleText(s) \/ LookAtText(s) \/ ReserveImage(s) \/ ReadImage(s)
       \/ KillScan(s)

-----------------------------------------------------------------------------
Tallies == [ScanCounters -> [Months -> 0..MaxScans]]

QuotaTypeOK ==
  /\ monthNow \in Months /\ kept \subseteq Faces
  /\ {counts, paid, wasted, lost} \subseteq Tallies
  /\ scans \in [Scanners ->
       [at : {"none", "claim", "reserve", "read", "settle", "look", "hold",
              "image"},
        face : Faces, back : BOOLEAN, month : Months,
        slot : {"none", "reserved", "shared"},
        text : {"unread", "structured", "failed", "unreachable"}]]
  /\ begun \in 0..MaxScans /\ kills \in 0..MaxKills
  /\ faces \in [alone : 0..MaxScans, backs : 0..MaxScans]

(* The slots a month has taken are, one for one, the calls whose answer    *)
(* was of use, those under way and those a kill cut off; the plan allows   *)
(* them; and a back whose answer is used is read on the slot of one face,  *)
(* read alone before.  None of these is left uncounted and none is counted *)
(* twice, whatever fails, runs together or is killed, though the month     *)
(* changes meanwhile ("au pire une lecture de moins pour la boutique,      *)
(* jamais un appel non compte": _settle_text_slot, of a process that is    *)
(* killed).  What the provider is paid beyond the count is the calls whose *)
(* answer came to nothing, and nothing else.                               *)
CallsCounted ==
  /\ \A c \in ScanCounters, m \in Months :
       LET held == {s \in Scanners :
                      Held(s) /\ Counter(s) = c /\ scans[s].month = m}
       IN /\ counts[c][m] + wasted[c][m]
               = paid[c][m] + lost[c][m] + Cardinality(held)
          /\ counts[c][m] <= Allowed[c]
  /\ LET shared == {s \in Scanners :
                      scans[s].slot = "shared" /\ scans[s].text # "structured"}
     IN faces.backs + Cardinality(kept) + Cardinality(shared) <= faces.alone
=============================================================================
