CONSTANTS
    Nothing = Nothing
    b1 = b1
    b2 = b2
    h1 = h1
    h2 = h2
    n1 = n1
    n2 = n2
    pw1 = pw1
    pw2 = pw2
    Browsers = {b1, b2}
    Handlers = {h1, h2}
    Names = {n1, n2}
    Passwords = {pw1, pw2}
    MaxOps = 3
    MaxFaults = 1
SPECIFICATION Spec
CHECK_DEADLOCK FALSE
SYMMETRY Symmetry
INVARIANTS SessionsAreEarned RevokedForGood ChangeStands
PROPERTIES KeepsPromise
