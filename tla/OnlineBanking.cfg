SPECIFICATION BrowserSpec
CONSTANTS
    shop = shop
    Tabs = {t1, t2}
    Customers = {alice, bob}
    Registered = {alice}
    NoOne = NoOne
    Gone = Gone
    Blank = Blank
    Payees = {shop}
    Forms <- TheForms
    Names = {"Ravi"}
    Destinations = {"payees", "profile", "transactions", "accounts"}
    Life = 2
    Renewal = 2
    MaxClock = 1
    MaxOps <- TheOps
    SignedIn = {t1}
    t1 = t1
    t2 = t2
    MaxFaults = 1
    MaxAll = 3
    MaxFlight <- TheFlights
    Faulty = {t1}
    ana = ana
    raj = raj
    People = {ana, raj}
    Mine = {ana}
    Found <- TheFound
    Short = ""
    Nothing = Nothing
    Static = Static
    MaxBatch = 1
    Period = 2
    CacheTime = 2
    Held <- TheHeld
    Links <- TheLinks
    MaxToday = 4
    MaxDeskActs <- TheActs
    MaxDeskFaults = 1
    MaxSent = 2
    asha = asha
    ravi = ravi
    admin = admin
    boss = boss
    Applicant = asha
    Admins = {admin, boss}
    Clients = {asha, ravi}
    Banked = {ravi}
    Waiting <- TheWaiting
    Nobody = Nobody
    Mishaps = Mishaps
    Budgets <- TheBudgets
    MaxForms = 2
INVARIANTS
    SessionIsTheLastSignIn
    NothingIsDoneTwice
    QuietScreenIsCurrent
    CustomersStayApart
PROPERTIES
    ScreensSettle
CHECK_DEADLOCK FALSE
