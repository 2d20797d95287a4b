CONSTANTS
    Nil = Nil
    Main = Main
    h1 = h1
    h2 = h2
    j1 = j1
    j2 = j2
    s1 = s1
    s2 = s2
    s3 = s3
    t1 = t1
    t2 = t2
    l1 = l1
    l2 = l2
    Handlers = {h1, h2}
    ApplyJobs = {j1}
    Templates = {t1}
    InboundLists = {l1, l2}
    Slots = {s1, s2}
    LateFork = FALSE
    MaxOps = 2
    MaxFaults = 1
SPECIFICATION FairSpec
CHECK_DEADLOCK FALSE
INVARIANTS SingleInstance StopIsEffective
PROPERTIES Implements Converges
