SPECIFICATION SessionSpec
CONSTANTS
    Purpose = {"register", "reset_password"}
    Requester = {q1, q2}
    Verifier = {v1, v2, v3}
    Visitor = {l1}
    Attempts = 2
    Missing = Missing
SYMMETRY Interchangeable
INVARIANTS
    OwnAttemptsBounded
    NoReplay
    ChangesAreProven
    
CHECK_DEADLOCK FALSE
