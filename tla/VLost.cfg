SPECIFICATION AnsweredSpec
CONSTANTS
    Peers = {p1}
    Group = {p1}
    FailOps = {"response", "timeout"}
    MaxFailures = 2
    EmptyBlocks = {}
    ConsensusActive = FALSE
    MaxBlock = 2
    StatusNumbers = {2}
    MaxCopies = 1
    MaxPipeline = 2
    QueueLimit = 4
    WaterMark = 2
    MaxRequestBlocks = 2
    MaxShardPerPeer = 2
PROPERTIES LostBlockRequested
