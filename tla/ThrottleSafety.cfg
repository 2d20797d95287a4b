CONSTANTS
    Nobody = Nobody
    a1 = a1
    a2 = a2
    a3 = a3
    u1 = u1
    u2 = u2
    login1 = login1
    login2 = login2
    IPs = {a1, a2, a3}
    Users = {u1}
    Logins = {login1, login2}
    Threshold <- MCThreshold
    BaseDelay <- MCBaseDelay
    MaxDelay = 3
    Idle = 2
    MaxTracked = 2
    Word = 3
    MaxTime = 4
    MaxAttempts = 5
SPECIFICATION Spec
CHECK_DEADLOCK FALSE
SYMMETRY Symmetry
INVARIANTS MapBounded LockoutIsExponential
PROPERTIES LockoutNotShortened FailuresRemembered
