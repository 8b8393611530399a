\* A step of the form that leaves the screen lets the form pass the next one unchecked.
SPECIFICATION LoanSpec
CONSTANTS
    asha = asha
    ravi = ravi
    admin = admin
    Admins = {admin}
    Applicant = asha
    Clients = {asha, ravi}
    Banked = {asha, ravi}
    Waiting <- TheWaiting
    Nobody = Nobody
    Mishaps = Mishaps
    Budgets <- FormBudgets
    MaxForms = 1
INVARIANT ApplicationsAreWhole
CHECK_DEADLOCK FALSE
