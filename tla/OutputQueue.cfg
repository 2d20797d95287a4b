CONSTANTS
    stdout = stdout
    stderr = stderr
    poll1 = poll1
    poll2 = poll2
    Readers = {stdout, stderr}
    Polls = {poll1}
    Capacity = 2
    MaxProcs = 2
    MaxLines = 4
    PipeSize = 1
SPECIFICATION FairSpec
CHECK_DEADLOCK FALSE
INVARIANTS QueueBounded ReadersNeverWait ResultIsCurrent
PROPERTIES ErrorIsShown
