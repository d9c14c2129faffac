SPECIFICATION Spec
CONSTANTS
    ann = ann
    bob = bob
    home = home
    away = away
    p1 = p1
    p2 = p2
    NoUnit = none
    NoSlug = none
    NoOne = none
    Units = {a, b, c, d}
    People = {ann, bob}
    GlobalAdmins = {bob}
    Slugs = {home, away}
    Requests = {p1, p2}
    Strategies = {"shared", "isolated"}
    SetupOrgs <- MCSetupOrgs
    SetupMembers <- MCSetupMembers
    MaxRows = 5
    MaxRequests = 2
    MaxCrashes = 1
INVARIANTS
    TypeOK
    NewestRowHoldsSlug
    OneSlugPerOrganisation
    ListedOrganisationsOpen
    UnitsStayInTheirOrganisation
PROPERTIES
    AdminsRemain
    SetupIsComplete
    ServerComesUp
    RequestsAnswered
CHECK_DEADLOCK FALSE
