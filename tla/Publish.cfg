SPECIFICATION PublishSpec
CONSTANTS
    Peers = {p1}
    Group = {p1}
    FailOps = {"execute", "commit", "crash"}
    MaxFailures = 1
    EmptyBlocks = {1}
    ConsensusActive = TRUE
    MaxBlock = 2
    StatusNumbers = {2}
    MaxCopies = 1
    MaxPipeline = 2
    QueueLimit = 2
    WaterMark = 2
    MaxRequestBlocks = 2
    MaxShardPerPeer = 2
PROPERTIES ChainSpec
