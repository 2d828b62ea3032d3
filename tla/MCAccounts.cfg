SPECIFICATION Spec
CHECK_DEADLOCK FALSE
CONSTANTS
    u1 = u1
    u2 = u2
    e1 = e1
    e2 = e2
    e3 = e3
    Users = {u1, u2}
    Emails = {e1, e2, e3}
    NoEmail = NoEmail
    Home <- AtHome
    Requests = {1, 2}
    Plans <- Mixes
    Limit = 2
    Ids = {1, 2, 3, 4, 5, 6, 7, 8, 9, 10, 11, 12}
    Buckets <- AllBuckets
INVARIANTS
    VerifiedMeansProven
    SignedInWasProven
    AdmissionsBounded
PROPERTIES
    SpentOnlyWhenDone
