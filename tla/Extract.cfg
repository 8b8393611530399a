\* Two records in pages of one, the loop and a concurrent /refresh, three
\* milliseconds to a second; changes in two seconds, one fault.
SPECIFICATION FairExtract
CONSTANTS
  NumIds = 2
  Loop = Loop
  Refresh = Refresh
  PAGE_SIZE = 1
  MAX_PAGES = 5
  TICKS = 3
  MaxClock = 6
  MaxChanges = 2
  MaxFailures = 1
INVARIANT OnlyLateChangesAreSkipped
PROPERTY BronzeCatchesUp
