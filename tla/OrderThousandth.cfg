CONSTANTS
  Creators = {c1, c2, c3, c4}
  Limits = {9}
  NoLimit = NoLimit
  Base = 3
  Wide = 3
  MonthsPerYear = 2
  MaxMonth = 0
SPECIFICATION CreationSpec
INVARIANT GeneratedNumberIsFree
CHECK_DEADLOCK FALSE
