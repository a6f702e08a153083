SPECIFICATION Spec
CONSTANTS
    Peers = {p1}
    Group = {p1}
    FailOps = {"execute", "check", "store", "commit", "response", "status", "connection", "crash", "timeout"}
    MaxFailures = 1
    EmptyBlocks = {1}
    ConsensusActive = TRUE
    MaxBlock = 2
    StatusNumbers = {1, 2}
    MaxCopies = 1
    MaxPipeline = 2
    QueueLimit = 2
    WaterMark = 2
    MaxRequestBlocks = 2
    MaxShardPerPeer = 2
INVARIANTS TypeOK CommitsInOrder LedgerPublished ExecutedInState
PROPERTIES ChainSafe
