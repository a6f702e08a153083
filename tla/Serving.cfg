SPECIFICATION Spec
CONSTANTS
    Peers = {p1}
    Group = {p1}
    RequestLimit = 2
    Requests <- MCRequests
    FailOps = {"read", "send", "connection"}
    MaxFailures = 1
    MaxRequests = 3
INVARIANTS TypeOK
PROPERTIES KeepsPromise
