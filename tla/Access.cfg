SPECIFICATION Spec
CONSTANTS
    u1 = u1
    u2 = u2
    k1 = k1
    k2 = k2
    k3 = k3
    c1 = c1
    User = {u1, u2}
    LoginToken = {k1, k2, k3}
    Channel = {c1}
    Forged = Forged
    Nobody = Nobody
    Damaged = Damaged
    Request = {q1, q2}
    Called = {"GET /user", "POST /user/ref", "GET /am/refstatistics/list", "GET /admin/users/list", "POST /admin/users/update"}
    Brought <- Pairs
    AccessGiven <- Lists
    FirstAccess <- Accounts
    FirstToken <- First
    MaxRotations = 1
    MaxRegistered = 1
SYMMETRY Symmetry
INVARIANTS
    
    RefusalsHaveReason
    OwnStatisticsOnly
    StatisticsConsistent
 
CHECK_DEADLOCK FALSE
