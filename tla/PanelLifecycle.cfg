CONSTANTS
    h1 = h1
    h2 = h2
    Handlers = {h1, h2}
    MaxOps = 3
    MaxFaults = 2
SPECIFICATION FairSpec
CHECK_DEADLOCK FALSE
INVARIANTS NothingLeft NothingDropped RecoveryArmed
PROPERTIES RestartTakesEffect TerminationHeeded XrayFollows
