CONSTANTS
    Length = 3
    BufSize = 2
    HeaderEnd = 2
SPECIFICATION FairSpec
CHECK_DEADLOCK FALSE
PROPERTY ProbeIsBounded
