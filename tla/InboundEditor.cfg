CONSTANTS
    post1 = post1
    post2 = post2
    Ids = {1}
    Protocols = {"vmess", "vless", "trojan", "mixed", "hysteria"}
    Networks = {"tcp", "kcp", "ws"}
    Posts = {post1}
    Older <- MCOlder
    MaxKeys = 2
    MaxRequests = 1
    MaxMoves = 4
SPECIFICATION Spec
CHECK_DEADLOCK FALSE
INVARIANTS RefusedForValues SubmissionsReadBack KeysChangeOnRequest
PROPERTIES OnlyTrojanForces
