SPECIFICATION FairSpec
CONSTANTS
    Savings = Savings
    Current = Current
    Foreign = Foreign
    Requests = {r1, r2}
    NoRequest = NoRequest
    Accounts = {Savings, Current, Foreign}
    Owner <- OneCustomer
    Opening <- OneEach
    Apps = {p}
    Principal <- OneLoan
    Amounts = {1}
    PayLists <- Payrolls
    Fee = 2
    Values = {5}
    Licensed = {"owner"}
    Kinds = {"post", "self", "payee", "unlock", "payroll", "trade", "rebalance", "approve", "reject", "kyc"}
INVARIANTS
    BooksExplainBalances
    PayoutsMatchApplications
    AnswersMatchTheBook
PROPERTIES
    UnracedIsSerial
    EveryRequestIsAnswered
CHECK_DEADLOCK FALSE
