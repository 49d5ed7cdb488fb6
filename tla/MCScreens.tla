----------------------------- MODULE MCScreens -----------------------------
(***************************************************************************)
(* The parts of the frontend that keep what the user does from being lost, *)
(* checked in one run.  They share nothing here: each behaviour is one of  *)
(* theirs, chosen at the start, while the others stay as they begin.       *)
(***************************************************************************)
EXTENDS QueryCache, DraftEditor, SettingsForm, ZakatAutosave, ProfileAutosave,
        SaleEdit, Appearance, Submission, Dialogs, Listing, Lists,
        Reading, Panels, Lines, LineTables, OrderDetail

CONSTANT Screens    \* those the run is about

ASSUME ScreensAssumption ==
  Screens \subseteq
    {"cache", "editor", "form", "zakat", "profile", "sale", "look", "submit",
     "list", "panel", "lines", "order"}

VARIABLE screen

vars == <<screen, cacheVars, editorVars, formVars, zakatVars, profileVars,
          saleVars, lookVars, submissionVars, listVars, panelVars, linesVars,
          detailVars>>

(* One part of a screen for all those with the same row and exceptions:    *)
(* they only differ in their name.                                         *)
Alike(p, q) ==
  /\ PanelRows[p] = PanelRows[q]
  /\ \A exceptions \in {Presuming, Forever} :
       p \in exceptions <=> q \in exceptions

Parts ==
  {CHOOSE q \in DOMAIN PanelRows : Alike(p, q) : p \in DOMAIN PanelRows}

(* A sheet of filters with four parameters has many more drafts than one   *)
(* with three, and no other way to be wrong.                               *)
SmallSheet == Cardinality(List.sections) <= 3

(* The choices of the screens that stay as they begin are fixed.           *)
Init ==
  /\ screen \in Screens
  /\ CacheInit /\ (screen # "cache" => view = CHOOSE v \in Views : TRUE)
  /\ EditorInit
  /\ FormInit /\ (screen # "form" => followed)
  /\ ZakatInit /\ ProfileInit
  /\ SaleInit /\ (screen # "sale" => order = {})
  /\ LookInit
  /\ screen # "look" =>
       ~answers /\ stored = Unset /\ display = CHOOSE look \in Looks : TRUE
  /\ SubmissionInit
  /\ screen # "submit" => form = CHOOSE f \in DOMAIN FormRows : TRUE
  /\ ListInit
  /\ IF screen = "list" THEN desktop \/ SmallSheet
     ELSE ~desktop /\ list = "orders" /\ entries = <<Place({}, 0, 1)>>
  /\ IF screen = "panel" THEN PanelInit /\ part \in Parts
     ELSE PanelStill /\ part = CHOOSE p \in Parts : TRUE
  /\ LinesInit
  /\ screen # "lines" =>
       lines = <<>> /\ table = CHOOSE t \in DOMAIN LineRows : TRUE
  /\ DetailInit
  /\ screen # "order" =>
       seat = [mode |-> "on_site", invoices |-> TRUE] /\ passed = <<>>

Next ==
  /\ UNCHANGED screen
  /\ IF screen = "cache" THEN CacheNext ELSE UNCHANGED cacheVars
  /\ IF screen = "editor" THEN EditorNext ELSE UNCHANGED editorVars
  /\ IF screen = "form" THEN FormNext ELSE UNCHANGED formVars
  /\ IF screen = "zakat" THEN ZakatNext ELSE UNCHANGED zakatVars
  /\ IF screen = "profile" THEN ProfileNext ELSE UNCHANGED profileVars
  /\ IF screen = "sale" THEN SaleNext ELSE UNCHANGED saleVars
  /\ IF screen = "look" THEN LookNext ELSE UNCHANGED lookVars
  /\ IF screen = "submit" THEN SubmissionNext ELSE UNCHANGED submissionVars
  /\ IF screen = "list" THEN ListNext ELSE UNCHANGED listVars
  /\ IF screen = "panel" THEN PanelNext ELSE UNCHANGED panelVars
  /\ IF screen = "lines" THEN LinesNext ELSE UNCHANGED linesVars
  /\ IF screen = "order" THEN DetailNext ELSE UNCHANGED detailVars

Spec == Init /\ [][Next]_vars

(* The fairness of each, as its module states it: in a screen that stays   *)
(* as it begins, nothing it speaks of is ever enabled.                     *)
FairSpec ==
  /\ Spec
  /\ CacheFairness /\ EditorFairness /\ ZakatFairness /\ PanelFairness

TypeOK ==
  /\ CacheTypeOK /\ EditorTypeOK /\ FormTypeOK /\ ZakatTypeOK /\ ProfileTypeOK
  /\ SaleTypeOK /\ LookTypeOK /\ SubmissionTypeOK /\ ListTypeOK
  /\ PanelTypeOK /\ LinesTypeOK /\ DetailTypeOK
=============================================================================
