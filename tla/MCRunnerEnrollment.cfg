CONSTANTS
    a = a
    b = b
    k1 = k1
    k2 = k2
    t1 = t1
    t2 = t2
    t3 = t3
    t4 = t4
    Clients = {a, b}
    Codes = {k1}
    CodeOf <- SameCode
    Tokens = {t1, t2, t3, t4}
    NoCode = NoCode
    NoToken = NoToken
    MaxAttempts = 2
    MaxCrashes = 1
SPECIFICATION FairSpec
INVARIANTS
    EnrollmentSafety
PROPERTIES
    QueueDrains
CHECK_DEADLOCK FALSE
