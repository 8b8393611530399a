\* An event of a name the taxonomy does not know, over two rounds of the loop.
SPECIFICATION WarehouseSpec
CONSTANTS
  Loop = Loop
  Callers = {}
  Apps = {a1}
  SeededApps = {}
  Events <- UnknownDef
  Funnel <- FunnelDef
  DateOf <- DateOfDef
  Backlog <- BacklogDef
  LimitRows = 3
  MaxCalls = 0
  MaxChanges = 1
  MaxFaults = 0
INVARIANT OneRowPerReject
CHECK_DEADLOCK FALSE
