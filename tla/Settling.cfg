SPECIFICATION FairSpec
CONSTANTS
  MaxWrites = 2
  Editors = {e1}
  Fresh = {e1}
  Docs = 1
  MaxTyped = 3
  Fields = {f, g}
  MaxOthers = 1
  Amounts = {a}
  MaxAmount = 2
  MaxElsewhere = 1
  Preferences = {c, d}
  MaxChoices = 3
  Goods = {"p", "q"}
  MaxQuantity = 2
  MaxId = 2
  MaxMeddling = 1
  Looks = {x, y}
  Unset = unset
  MaxClicks = 3
  FormRows <- AllForms
  MaxContents = 2
  MaxOpenings = 2
  MaxSendings = 2
  ListRows <- AllLists
  MaxWord = 1
  MaxPage = 2
  MaxAsked = 3
  PanelRows <- AllPanels
  Presuming <- AllPresuming
  Forever <- AllForever
  LineRows <- AllLineTables
  Misplacing <- AllMisplacing
  MaxLines = 3
  MaxOf = 2
  Total = 1
  MaxPaid = 1
  MaxChanges = 1
  MaxBy = 0
  Screens = {"cache", "zakat", "profile", "editor", "panel"}
INVARIANTS
  OwnWritesShown NoConflictAlone LastEditStored ChoicesStored
  NothingOnlyIfSo
PROPERTIES ShownInTheEnd InputSettles EditsSettle WaitingEnds
CHECK_DEADLOCK FALSE
