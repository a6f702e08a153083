SPECIFICATION FairSpec
CONSTANTS
    Self = Self
    Peer = Peer
    Peers = {Peer}
    Strangers = {Stranger}
    Sealers <- SealersChange
    Observers <- ObserversChange
    MaxNumber = 2
    MaxPeer = 2
    Torn = Torn
    NoHash = NoHash
    MaxInFlight = 2
    Events = {"connection", "request", "torn", "loss", "restart", "stranger"}
    MaxEvents = 1
INVARIANTS TypeOK KnownIsPublished
PROPERTIES  Announced
