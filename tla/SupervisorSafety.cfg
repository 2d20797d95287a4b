CONSTANTS
    Nil = Nil
    Main = Main
    h1 = h1
    h2 = h2
    j1 = j1
    j2 = j2
    s1 = s1
    s2 = s2
    s3 = s3
    t1 = t1
    t2 = t2
    l1 = l1
    l2 = l2
    Handlers = {h1, h2}
    ApplyJobs = {j1, j2}
    Templates = {t1, t2}
    InboundLists = {l1, l2}
    Slots = {s1, s2}
    LateFork = TRUE
    MaxOps = 2
    MaxFaults = 1
SPECIFICATION Spec
CHECK_DEADLOCK FALSE
SYMMETRY Symmetry
INVARIANTS TypeOK ApplyRespectsStop NoLostUpdate RunsItsConfig
PROPERTY NoNeedlessRestart
