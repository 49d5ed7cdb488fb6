--------------------------- MODULE ProfileAutosave ---------------------------
(***************************************************************************)
(* The zakat settings of a person save themselves too                      *)
(* (components/zakat/settings/useProfileAutosave.ts), without a version:   *)
(* one loop sends what waits until nothing does.  The backend writes only  *)
(* the choices it receives.                                                *)
(*                                                                         *)
(* A choice is the number of the edit that made it.                        *)
(*                                                                         *)
(* Bound: MaxChoices edits.                                                *)
(***************************************************************************)
EXTENDS PendingEdits, Naturals, FiniteSets

CONSTANTS Preferences, MaxChoices

ASSUME ChoicesAssumption == IsFiniteSet(Preferences) /\ MaxChoices \in Nat

VARIABLES
  profile,  \* the choices of the backend
  panel,    \* the choices of the cache, which the page shows
  queue,    \* edits not sent yet
  pause,    \* the pause after an edit is running
  loop,     \* what the loop is at
  batch,    \* the edits it is sending
  choices,  \* edits made
  chosen    \* the last edit of each choice, not refused

profileVars == <<profile, panel, queue, pause, loop, batch, choices, chosen>>

NewProfile == [c \in Preferences |-> 0]

ProfileInit ==
  /\ profile = NewProfile /\ panel = NewProfile /\ chosen = NewProfile
  /\ queue = NoEdit /\ batch = NoEdit
  /\ pause = FALSE /\ loop = "idle" /\ choices = 0

-----------------------------------------------------------------------------
(* `save`: shown, kept, and sent after the pause.                          *)
Choose(c) ==
  /\ choices < MaxChoices /\ choices' = choices + 1
  /\ panel' = [panel EXCEPT ![c] = choices']
  /\ chosen' = [chosen EXCEPT ![c] = choices']
  /\ queue' = Merged(queue, [x \in {c} |-> choices'])
  /\ pause' = TRUE
  /\ UNCHANGED <<profile, loop, batch>>

(* Mutant: what waits at the end of the pause is taken for sent.           *)
EndPauseForgetting ==
  /\ pause /\ pause' = FALSE
  /\ IF loop = "idle" /\ queue # NoEdit
       THEN loop' = "sent" /\ batch' = queue /\ queue' = NoEdit
       ELSE queue' = NoEdit /\ UNCHANGED <<loop, batch>>
  /\ UNCHANGED <<profile, panel, choices, chosen>>

(* `send`: the pause ends; a loop that runs takes what waits by itself.    *)
EndPause ==
  /\ pause /\ pause' = FALSE
  /\ IF loop = "idle" /\ queue # NoEdit
       THEN loop' = "sent" /\ batch' = queue /\ queue' = NoEdit
       ELSE UNCHANGED <<loop, batch, queue>>
  /\ UNCHANGED <<profile, panel, choices, chosen>>

WriteProfile ==
  /\ loop = "sent" /\ loop' = "written"
  /\ profile' = Merged(profile, batch)
  /\ UNCHANGED <<panel, queue, pause, batch, choices, chosen>>

(* Written: the answer is shown with what was chosen since, which is sent  *)
(* at once unless it is still in its pause.                                *)
NextBatch ==
  /\ loop = "written"
  /\ panel' = Merged(profile, queue)
  /\ IF queue # NoEdit /\ ~pause
       THEN loop' = "sent" /\ batch' = queue /\ queue' = NoEdit
       ELSE loop' = "idle" /\ batch' = NoEdit /\ UNCHANGED queue
  /\ UNCHANGED <<profile, pause, choices, chosen>>

(* No answer, or an error: what was sent waits for the next edit, and the  *)
(* page says so.                                                           *)
FailProfile ==
  /\ loop \in {"sent", "written"}
  /\ queue' = Merged(batch, queue) /\ batch' = NoEdit
  /\ loop' = "idle"
  /\ UNCHANGED <<profile, panel, pause, choices, chosen>>

(* Refused: what waits is given up, the profile is read again.             *)
RefuseProfile ==
  /\ loop = "sent" /\ loop' = "reading"
  /\ queue' = NoEdit /\ batch' = NoEdit /\ chosen' = profile
  /\ UNCHANGED <<profile, panel, pause, choices>>

(* The profile has been read, or cannot be: the loop ends, whatever waits. *)
ReloadProfile ==
  /\ loop = "reading" /\ loop' = "idle"
  /\ panel' \in {profile, panel}
  /\ UNCHANGED <<profile, queue, pause, batch, choices, chosen>>

-----------------------------------------------------------------------------
ProfileNext ==
  \/ \E c \in Preferences : Choose(c)
  \/ EndPause \/ WriteProfile \/ NextBatch \/ FailProfile \/ RefuseProfile
  \/ ReloadProfile

ProfileSpec == ProfileInit /\ [][ProfileNext]_profileVars

-----------------------------------------------------------------------------
ProfileTypeOK ==
  /\ {profile, panel, chosen} \subseteq [Preferences -> 0..MaxChoices]
  /\ \E X, Y \in SUBSET Preferences :
       queue \in [X -> 1..MaxChoices] /\ batch \in [Y -> 1..MaxChoices]
  /\ loop \in {"idle", "sent", "written", "reading"}
  /\ choices \in 0..MaxChoices
  /\ pause \in BOOLEAN

(* No choice is lost, nor comes back after a later one, unless it was      *)
(* refused: when none waits and none is being sent, the backend has them.  *)
ChoicesStored == queue = NoEdit /\ loop = "idle" => profile = chosen
==============================================================================
