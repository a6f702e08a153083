SPECIFICATION FairSpec
CONSTANTS
    Self = Self
    Peer = Peer
    Peers = {Peer}
    Strangers = {}
    Sealers <- AllSeal
    Observers <- NoObservers
    MaxNumber = 1
    MaxPeer = 2
    Torn = Torn
    NoHash = NoHash
    MaxInFlight = 1
    Events = {}
    MaxEvents = 0
PROPERTIES KnownAgrees
