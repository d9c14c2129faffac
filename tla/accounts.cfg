SPECIFICATION Spec
CONSTANTS
    bob = bob
    google = google
    nycu = nycu
    bobs = bobs
    bobs2 = bobs2
    ann1 = ann1
    bob1 = bob1
    bob2 = bob2
    m1 = m1
    m2 = m2
    p1 = p1
    p2 = p2
    NoUser = none
    NoEmail = none
    NoIdentity = none
    NoName = none
    Users = {bob, u1, u2, u3}
    Identities = {google, nycu, bobs, bobs2}
    Emails = {ann1, bob1, bob2}
    Names = {m1, m2}
    Requests = {p1, p2}
    Logins <- MCLogins
    Configured <- MCConfigured
    Allowed = {ann1}
    Before <- MCBefore
    MaxRequests = 3
INVARIANTS
    TypeOK
    SessionsAreTheOwners
    OneTokenPerLogin
PROPERTIES
    RegistrySpec
    OnboardingStays
    RequestsAnswered
CHECK_DEADLOCK FALSE
