----------------------------- MODULE Appearance -----------------------------
(***************************************************************************)
(* The preferences that apply at once and are saved behind (lib/hooks/     *)
(* useMe, useAccountTheme, useReminders): the theme, the period of the     *)
(* sales, the folded sidebar, the reminders.  A click changes what the     *)
(* cache has of the account, and for the theme what the browser keeps; the *)
(* saves are sent one after another; one that fails puts back what there   *)
(* was before its click.                                                   *)
(*                                                                         *)
(* One preference is modelled.  An account that never had one takes, once, *)
(* that of the browser.  Bound: MaxClicks clicks.                          *)
(***************************************************************************)
EXTENDS Naturals, Sequences

CONSTANTS Looks, MaxClicks, Unset

ASSUME UnsetAssumption == Unset \notin Looks
ASSUME MaxClicksAssumption == MaxClicks \in Nat

VARIABLES
  answers,   \* a save puts its answer in the cache (the reminders do)
  stored,    \* the preference of the account in the backend
  inCache,   \* and in the cache
  display,   \* the one the browser keeps and shows
  synced,    \* it has been taken from the account
  clicks,    \* saves to make, the first one under way
  sending,   \* what that one is at: none, sent, applied
  asking,    \* a reading of the account: none, asked, read
  asked,     \* what it has read
  count,     \* clicks made
  lastLook,  \* the last one
  anyFailed, \* a save failed since the last time there was none to make
  reread     \* a reading has been asked for since, with saves to make

lookVars == <<answers, stored, inCache, display, synced, clicks, sending,
              asking, asked, count, lastLook, anyFailed, reread>>

AnyLook == Looks \cup {Unset}

(* The application opens: the account is being read.                       *)
LookInit ==
  /\ answers \in BOOLEAN
  /\ stored \in AnyLook /\ inCache = Unset /\ display \in Looks
  /\ synced = FALSE /\ clicks = <<>> /\ sending = "none"
  /\ asking = "asked" /\ asked = Unset
  /\ count = 0 /\ lastLook = Unset
  /\ anyFailed = FALSE /\ reread = FALSE

-----------------------------------------------------------------------------
(* Mutant: the readings under way are not dropped.                         *)
ChooseLookReading(look) ==
  /\ UNCHANGED <<asking, asked>>
  /\ clicks' = Append(clicks, [look |-> look, inCache |-> inCache,
                               display |-> display])
  /\ sending' = IF clicks = <<>> THEN "sent" ELSE sending
  /\ inCache' = look /\ lastLook' = look
  /\ IF clicks = <<>> THEN anyFailed' = FALSE /\ reread' = FALSE
     ELSE UNCHANGED <<anyFailed, reread>>

(* `onMutate`, run at the click: readings under way are dropped, the cache *)
(* has the choice, and the save waits for those before it (`scope`).       *)
ChooseLook(look) ==
  /\ asking' = "none" /\ asked' = Unset
  /\ clicks' = Append(clicks, [look |-> look, inCache |-> inCache,
                               display |-> display])
  /\ sending' = IF clicks = <<>> THEN "sent" ELSE sending
  /\ inCache' = look /\ lastLook' = look
  /\ IF clicks = <<>> THEN anyFailed' = FALSE /\ reread' = FALSE
     ELSE UNCHANGED <<anyFailed, reread>>

(* `AccountThemeSync`: the first account read is followed; one without a   *)
(* preference is given that of the browser.                                *)
Follow(account) ==
  /\ synced' = TRUE
  /\ IF account = Unset
       THEN /\ ChooseLook(display) /\ UNCHANGED <<display, count>>
       ELSE /\ display' = account /\ inCache' = account
            /\ asking' = "none" /\ asked' = Unset
            /\ UNCHANGED <<clicks, sending, count, lastLook, anyFailed, reread>>

Click(look) ==
  /\ synced /\ count < MaxClicks /\ count' = count + 1
  /\ display' = look /\ ChooseLook(look)
  /\ UNCHANGED <<answers, stored, synced>>

ApplyLook ==
  /\ sending = "sent" /\ sending' = "applied"
  /\ stored' = Head(clicks).look
  /\ UNCHANGED <<answers, inCache, display, synced, clicks, asking, asked,
                 count, lastLook, anyFailed, reread>>

(* The next save is sent when one has been answered or has failed.         *)
NextLook ==
  /\ clicks' = Tail(clicks)
  /\ sending' = IF Len(clicks) = 1 THEN "none" ELSE "sent"

AnswerLook ==
  /\ sending = "applied" /\ NextLook
  /\ inCache' = IF answers THEN Head(clicks).look ELSE inCache
  /\ UNCHANGED <<answers, stored, display, synced, asking, asked, count,
                 lastLook, anyFailed, reread>>

(* The cache goes back to what it was at the click.  So does what is       *)
(* shown, for the last click made at one place of the screen: the others   *)
(* are no longer told.                                                     *)
FailLook ==
  /\ sending # "none" /\ NextLook
  /\ inCache' = Head(clicks).inCache
  /\ IF Len(clicks) = 1 THEN display' = Head(clicks).display
     ELSE display' \in {display, Head(clicks).display}
  /\ anyFailed' = TRUE
  /\ UNCHANGED <<answers, stored, synced, asking, asked, count, lastLook,
                 reread>>

(* The account is read again: the profile was changed, the connection is   *)
(* back.                                                                   *)
AskAccount ==
  /\ asking = "none" /\ asking' = "asked"
  /\ reread' = (reread \/ clicks # <<>>)
  /\ UNCHANGED <<answers, stored, inCache, display, synced, clicks, sending,
                 asked, count, lastLook, anyFailed>>

ReadAccount ==
  /\ asking = "asked" /\ asking' = "read" /\ asked' = stored
  /\ UNCHANGED <<answers, stored, inCache, display, synced, clicks, sending,
                 count, lastLook, anyFailed, reread>>

ArriveAccount ==
  /\ asking = "read"
  /\ IF synced
       THEN /\ inCache' = asked /\ asking' = "none" /\ asked' = Unset
            /\ UNCHANGED <<display, synced, clicks, sending, count, lastLook,
                           anyFailed, reread>>
       ELSE Follow(asked)
  /\ UNCHANGED <<answers, stored>>

-----------------------------------------------------------------------------
LookNext ==
  \/ \E look \in Looks : Click(look)
  \/ ApplyLook \/ AnswerLook \/ FailLook
  \/ AskAccount \/ ReadAccount \/ ArriveAccount

LookSpec == LookInit /\ [][LookNext]_lookVars

-----------------------------------------------------------------------------
LookTypeOK ==
  /\ stored \in AnyLook /\ inCache \in AnyLook /\ asked \in AnyLook
  /\ lastLook \in AnyLook /\ display \in Looks
  /\ clicks \in Seq([look : Looks, inCache : AnyLook, display : Looks])
  /\ sending \in {"none", "sent", "applied"}
  /\ asking \in {"none", "asked", "read"}
  /\ (clicks = <<>>) <=> (sending = "none")
  /\ answers \in BOOLEAN /\ synced \in BOOLEAN
  /\ anyFailed \in BOOLEAN /\ reread \in BOOLEAN
  /\ count \in 0..MaxClicks

(* Quick clicks are saved in their order: once all have been, none having  *)
(* failed, the account has the last choice, which is still shown; and the  *)
(* cache has it too, unless the account was read again in between.         *)
(* ("Les clics rapides sont envoyés dans l'ordre : la dernière sélection   *)
(* gagne aussi côté serveur": useMe.ts:133.)                               *)
LastSelectionWins ==
  clicks = <<>> /\ lastLook # Unset /\ ~anyFailed
    => /\ stored = lastLook /\ display = lastLook
       /\ ~reread => inCache = lastLook
=============================================================================
