SPECIFICATION Spec
CONSTANTS
    Savings = Savings
    Current = Current
    Foreign = Foreign
    Requests = {r1, r2}
    NoRequest = NoRequest
    Accounts = {Savings, Current}
    Owner <- OneCustomer
    Opening <- OneEach
    Apps = {p}
    Principal <- OneLoan
    Amounts = {1}
    PayLists <- Payrolls
    Fee = 2
    Values = {0, 5}
    Licensed = {"owner"}
    Kinds = {"post"}
PROPERTIES
    TransfersAreCovered
CHECK_DEADLOCK FALSE
