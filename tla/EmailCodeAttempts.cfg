SPECIFICATION Spec
CONSTANTS
    Purpose = {register}
    Requester = {q1, q2}
    Verifier = {v1, v2, v3, v4}
    Attempts = 3
    Missing = Missing
SYMMETRY Interchangeable
INVARIANT ThreeAttemptsPerCode
CHECK_DEADLOCK FALSE
