------------------------------ MODULE MCWarehouse ------------------------------
EXTENDS Warehouse

Event(i, user, name, at, seeded) == [id |-> i, user |-> user, name |-> name, at |-> at, seeded |-> seeded]
Started == Event(1, "u", "kyc_started", 2, FALSE)
EventsDef == {Started, Event(2, "u", "kyc_completed", 3, FALSE), Event(3, "v", "kyc_completed", 1, TRUE)}
FunnelDef == <<"kyc_started", "kyc_completed">>
BacklogDef == <<Started>>
\* the second day begins at 3
DateOfDef == [at \in 1 .. 3 |-> at \div 3]
\* for WarehouseRejects.cfg: a name the taxonomy does not know
UnknownDef == {Started, Event(2, "u", "of_nobody", 3, FALSE)}
================================================================================
