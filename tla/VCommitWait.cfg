SPECIFICATION AnsweredSpec
CONSTANTS
    Peers = {p1}
    Group = {p1}
    FailOps = {"check"}
    MaxFailures = 1
    EmptyBlocks = {}
    ConsensusActive = FALSE
    MaxBlock = 3
    StatusNumbers = {3}
    MaxCopies = 1
    MaxPipeline = 2
    QueueLimit = 4
    WaterMark = 2
    MaxRequestBlocks = 2
    MaxShardPerPeer = 2
PROPERTIES CommitWaitEnds
