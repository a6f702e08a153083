SPECIFICATION FairSpec
CONSTANTS
    Peers = {p1}
    Group = {}
    FailOps = {"response", "connection", "crash"}
    MaxFailures = 1
    EmptyBlocks = {}
    ConsensusActive = FALSE
    MaxBlock = 3
    StatusNumbers = {3}
    MaxCopies = 1
    MaxPipeline = 2
    QueueLimit = 4
    WaterMark = 2
    MaxRequestBlocks = 1
    MaxShardPerPeer = 2
PROPERTIES CatchUp
