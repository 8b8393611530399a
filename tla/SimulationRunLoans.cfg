SPECIFICATION RunSpec
CONSTANTS
    Count = 1
    Workers = {w1, w2}
    Draws <- LoanDraws
    Salary = 60
    ReusedBalance = 7
    Spends = {5}
    LoanAmount = 90
    LicenceFee = 20
    SpendAbove = 10
    LicenceAbove = 50
    TransferAbove = 50
    TransferAmounts = {59}
    MinPairing = 3
    MaxFaults = 1
    MaxOutside = 1
    Nobody = Nobody
    Ended = Ended
INVARIANTS
    ApprovedIsLent
CHECK_DEADLOCK FALSE
