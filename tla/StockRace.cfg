CONSTANTS
  v1 = v1
  v2 = v2
  count = count
  sale = sale
  exit = exit
  entry = entry
  return = return
  Nobody = Nobody
  Requests <- RaceRequests
  Variants <- RaceVariants
  Editors = {}
  Kind <- RaceKind
  Lines <- RaceLines
  Start <- RaceStart
  Readers = {m, n}
  MaxPhotos = 2
  MaxEntries = 2
  MaxTwice = 1
  MaxLost = 1
SPECIFICATION MCFairSpec
INVARIANT StockedAsShown
PROPERTY EveryRequestEnds
PROPERTY ImplementsBook
PROPERTY ReadingEnds
CHECK_DEADLOCK FALSE
