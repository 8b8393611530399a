\* A user who starts on one day and completes on the next, and a reader of the second.
SPECIFICATION WarehouseSpec
CONSTANTS
  Loop = Loop
  Callers = {}
  Apps = {a1, a2}
  SeededApps = {a2}
  Events <- EventsDef
  Funnel <- FunnelDef
  DateOf <- DateOfDef
  Backlog <- BacklogDef
  LimitRows = 3
  MaxCalls = 0
  MaxChanges = 1
  MaxFaults = 0
INVARIANT EveryWindowNarrows
CHECK_DEADLOCK FALSE
