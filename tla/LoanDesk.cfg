\* What an administrator opened before decides where a loan goes.
SPECIFICATION LoanSpec
CONSTANTS
    asha = asha
    ravi = ravi
    admin = admin
    Admins = {admin}
    Applicant = asha
    Clients = {asha, ravi}
    Banked = {asha, ravi}
    Waiting <- TheWaiting
    Nobody = Nobody
    Mishaps = Mishaps
    Budgets <- TheBudgets
    MaxForms = 0
INVARIANT LoansReachTheirCustomer
CHECK_DEADLOCK FALSE
