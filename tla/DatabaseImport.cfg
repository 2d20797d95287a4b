CONSTANTS
    Original = Original
    Fresh = Fresh
    None = None
    upload1 = upload1
    upload2 = upload2
    upload3 = upload3
    Uploads = {upload1, upload2, upload3}
    MaxFaults = 3
    MaxRequests = 2
SPECIFICATION FairSpec
CHECK_DEADLOCK FALSE
INVARIANTS NothingDestroyed PanelServesInstalled StopIsTemporary
PROPERTY XrayReturns
