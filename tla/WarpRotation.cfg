CONSTANTS
    h1 = h1
    Job = Job
    Handlers = {h1}
    MaxDevices = 5
    MaxOps = 2
    MaxFaults = 2
SPECIFICATION FairSpec
CHECK_DEADLOCK FALSE
PROPERTIES RotationHeals
