\* One change of a record and one of its branch's region.
SPECIFICATION ExtractSpec
CONSTANTS
  NumIds = 1
  Loop = Loop
  Refresh = Refresh
  PAGE_SIZE = 1
  MAX_PAGES = 6
  TICKS = 2
  MaxClock = 4
  MaxChanges = 1
  MaxFailures = 1
INVARIANT BranchChangeIsReread
