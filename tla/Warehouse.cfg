\* The loop, one request and the extract, with a fault at any statement.
SPECIFICATION FairWarehouse
CONSTANTS
  Loop = Loop
  Callers = {c}
  Apps = {a1, a2}
  SeededApps = {a2}
  Events <- EventsDef
  Funnel <- FunnelDef
  DateOf <- DateOfDef
  Backlog <- BacklogDef
  LimitRows = 3
  MaxCalls = 1
  MaxChanges = 1
  MaxFaults = 1
INVARIANT LaterStagesAreSmaller
PROPERTY WarehouseSettles
CHECK_DEADLOCK FALSE
