CONSTANTS
    Nobody = Nobody
    a1 = a1
    a2 = a2
    a3 = a3
    u1 = u1
    u2 = u2
    login1 = login1
    login2 = login2
    IPs = {a1}
    Users = {u1}
    Logins = {login1}
    Threshold <- MCThreshold
    BaseDelay <- MCBaseDelay
    MaxDelay = 3
    Idle = 2
    MaxTracked = 4
    Word = 3
    MaxTime = 8
    MaxAttempts = 5
SPECIFICATION FairSpec
CHECK_DEADLOCK FALSE
PROPERTY IdleIsForgotten
