SPECIFICATION Spec
CONSTANTS
  Creators = {c1, c2, c3}
  Limits = {1, 2}
  NoLimit = NoLimit
  Base = 10
  Wide = 1000
  MonthsPerYear = 2
  MaxMonth = 2
  Pages = {t, u}
  MaxPlan = 2
  MaxClock = 1
  MaxAge = 0
  MaxMoves = 1
  MaxGestures = 3
  MaxRemotes = 2
  MaxArrived = 3
  MaxCopies = 2
  Tasks = {v, w}
  LastStage = 3
  MaxSpells = 2
  MaxDeaths = 1
  Scanners = {x, y}
  Faces = {f}
  Allowed <- TwoTexts
  MaxScans = 3
  LastMonth = 2
  MaxKills = 1
INVARIANTS
  WithinLimit PaysWhatWasShown OfferedIsAccepted ToldOnce CallsCounted
PROPERTIES InStepInTheEnd
CHECK_DEADLOCK FALSE
