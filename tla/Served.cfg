SPECIFICATION FairSpec
CONSTANTS
    Peers = {p1, p2}
    Group = {p1}
    RequestLimit = 2
    Requests <- TwoRequests
    FailOps = {"read", "send", "connection"}
    MaxFailures = 1
    MaxRequests = 2
PROPERTIES EveryBlockServed TableReleased
