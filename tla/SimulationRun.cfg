SPECIFICATION RunSpec
CONSTANTS
    Count = 3
    Workers = {w1, w2}
    Draws <- TheDraws
    Salary = 60
    ReusedBalance = 7
    Spends = {5}
    LoanAmount = 90
    LicenceFee = 20
    SpendAbove = 10
    LicenceAbove = 50
    TransferAbove = 50
    TransferAmounts = {59}
    MinPairing = 3
    MaxFaults = 1
    MaxOutside = 1
    Nobody = Nobody
    Ended = Ended
INVARIANTS
    BooksExplainNewAccounts
PROPERTIES
    EveryRunIsAnswered
CHECK_DEADLOCK FALSE
