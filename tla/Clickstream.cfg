SPECIFICATION ClickstreamSpec
CONSTANTS
    Devices = {"desktop", "mobile"}
    NoCity = ""
    MaxJoin = 2
    KycAfter = 0
    LoanAfter = 1
    Cooldown = 1
    MaxLoans = 1
    Cities <- TheCities
    Overrides <- TheOverrides
    page_session = page_session
    sim1 = sim1
    sim2 = sim2
    india = india
    berlin = berlin
    tokyo = tokyo
    NoPlace = NoPlace
    Sessions = {page_session, sim1, sim2}
    Simulated = {sim1, sim2}
    PageSession = page_session
    Home <- TheHome
    Real = {india, tokyo}
    Invented = {berlin}
    MaxProfiles = 2
    MaxCalls = 3
    MaxBatch = 2
    MaxNow = 1
    MaxFaults = 1
SYMMETRY Alike
INVARIANTS
    PlantStaysInScope
    SessionKeepsItsPlace
    ForwardedIsStored
PROPERTIES
    GatedEventsAreEarned
CHECK_DEADLOCK FALSE
