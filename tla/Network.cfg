SPECIFICATION NetSpec
CONSTANTS
    Server = Server
    Requester = Requester
    Peers = {Server}
    Group = {Server}
    FailOps = {}
    MaxFailures = 0
    EmptyBlocks = {}
    ConsensusActive = FALSE
    MaxBlock = 2
    StatusNumbers = {2}
    MaxCopies = 0
    MaxPipeline = 1
    QueueLimit = 3
    WaterMark = 2
    MaxRequestBlocks = 1
    MaxShardPerPeer = 2
    RequestLimit = 1
    Faults = {"read", "send", "connection", "request"}
    MaxFaults = 2
    MaxRequests = 20
INVARIANTS OnlyExistingBlocks
PROPERTIES EndToEnd
