SPECIFICATION Spec
CONSTANTS
    Peers = {p1}
    Group = {p1}
    RequestLimit = 2
    Requests <- TwoRequests
    FailOps = {}
    MaxFailures = 0
    MaxRequests = 2
PROPERTIES GroupRequestQueued
