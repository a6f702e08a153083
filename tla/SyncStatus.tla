----------------------------- MODULE SyncStatus -----------------------------
(***************************************************************************)
(* How a node learns the heights of its peers and tells them its own:      *)
(* SyncPeerStatus, the broadcast of BlockSync, and what both read and      *)
(* write of BlockSyncConfig.                                               *)
(*                                                                         *)
(* Three threads meet.  The one that publishes a new block (onNewBlock)    *)
(* assigns the height, its hash, the known highest number and the lists of *)
(* members one after the other, and broadcasts.  The worker                *)
(* (maintainPeersConnection) deletes peers and sends the node's status to  *)
(* the members, over and over.  The front service delivers the statuses of *)
(* other nodes, late, in any order, or not at all.                         *)
(*                                                                         *)
(* The hash of a block is its height.  A hash that is copied while it is   *)
(* written is Torn: hash() returns a reference, which is read after the    *)
(* lock has been released.                                                 *)
(***************************************************************************)
EXTENDS Naturals, FiniteSets

CONSTANTS
    Self,         \* this node
    Peers,        \* the other nodes of the chain
    Strangers,    \* nodes of another chain, with another genesis block
    Sealers,      \* Sealers[h]: the consensus nodes as of block h
    Observers,    \* Observers[h]: the observers as of block h
    MaxNumber,    \* bound: the height that this node publishes
    MaxPeer,      \* bound: the height that the peers publish
    Torn,         \* a mixture of two hashes
    NoHash,       \* HashType(), all zeros
    MaxInFlight,  \* bound: statuses on their way to this node
    Events,       \* what may happen: "connection", "request", "torn", "loss",
                  \* "restart", "stranger"
    MaxEvents     \* bound: how many of them happen in one behaviour

Nodes == Peers \cup {Self}
Heights == 0 .. (IF MaxNumber < MaxPeer THEN MaxPeer ELSE MaxNumber)
Hashes == Heights \cup {Torn, NoHash}

ASSUME StatusAssumption ==
    /\ Self \notin Peers
    /\ Strangers \cap Nodes = {}
    /\ MaxNumber \in Nat /\ MaxPeer \in Nat
    /\ Sealers \in [Heights -> SUBSET Nodes]
    /\ Observers \in [Heights -> SUBSET Nodes]
    /\ Torn \notin Nat /\ NoHash \notin Nat /\ Torn # NoHash
    /\ MaxInFlight \in Nat \ {0}
    /\ MaxEvents \in Nat

VARIABLES
    number,       \* m_blockNumber
    hash,         \* m_hash
    known,        \* m_knownHighestNumber
    sealersOf,    \* the height whose consensus nodes are in m_consensusNodeList
    observersOf,  \* the height whose observers are in m_observerNodeList
    reset,        \* the position of resetConfig
    table,        \* m_peersStatus: the number and hash of each node with an entry
    raise,        \* the number updateKnownMaxBlockInfo will assign: at most one
    connected,    \* m_connectedNodeList, as far as it is about peers
    doomed,       \* peersToDelete of maintainPeersConnection
    todo,         \* the nodes that the worker and the broadcast will send to
    draft,        \* what each of them has read of the status it sends: at most one
    sent,         \* external: the status each node was last sent
    linked,       \* external: the peers that there is a connection to
    peerNumber,   \* external: the height of each peer
    statuses,     \* external: the statuses on their way to this node
    events        \* external: the events still to come

blockInfo == <<number, hash, sealersOf, observersOf, reset>>
peerTable == <<table, raise>>
senders == <<doomed, todo, draft, sent>>
network == <<connected, linked, peerNumber, statuses>>
vars == <<blockInfo, known, peerTable, senders, network, events>>

Threads == {"worker", "broadcast"}
Entry == [number : Heights, hash : Hashes]
Status == [from : Peers \cup Strangers, number : Heights, hash : Hashes,
           genesis : {"ours", "other"}]

(* Every number is the height of a block and every hash that of one, or a  *)
(* mixture of two; x_peersStatus is held for one status at a time.         *)
TypeOK ==
    /\ number \in Heights
    /\ hash \in Heights
    /\ known \in Heights
    /\ sealersOf \in Heights
    /\ observersOf \in Heights
    /\ reset \in {"done", "hash", "known", "sealers", "observers"}
    /\ DOMAIN table \subseteq Nodes \cup Strangers
    /\ \A p \in DOMAIN table : table[p] \in Entry
    /\ raise \subseteq Heights /\ Cardinality(raise) <= 1
    /\ connected \subseteq linked /\ linked \subseteq Peers
    /\ doomed \subseteq Peers \cup Strangers
    /\ todo \in [Threads -> SUBSET Peers]
    /\ \A t \in Threads : draft[t] \subseteq [to : Peers, number : Heights]
    /\ sent \in [Peers -> Entry]
    /\ peerNumber \in [Peers -> Heights]
    /\ statuses \subseteq Status
    /\ events \in Nat

(* groupNodeList and existsInGroup.                                        *)
GroupNodeList == Sealers[sealersOf] \cup Observers[observersOf]
ExistsInGroup(p) == p \in GroupNodeList

Init ==
    /\ number = 0 /\ hash = 0 /\ known = 0
    /\ sealersOf = 0 /\ observersOf = 0
    /\ reset = "done"
    /\ table = << >>
    /\ raise = {}
    /\ connected = Peers /\ linked = Peers
    /\ doomed = {}
    /\ todo = [t \in Threads |-> {}]
    /\ draft = [t \in Threads |-> {}]
    /\ sent = [p \in Peers |-> [number |-> 0, hash |-> NoHash]]
    /\ peerNumber = [p \in Peers |-> 0]
    /\ statuses = {}
    /\ events = MaxEvents

Happens(e) ==
    /\ e \in Events
    /\ events > 0
    /\ events' = events - 1

-----------------------------------------------------------------------------
(* onNewBlock: resetConfig, under m_mutex, and the broadcast *)

(* resetConfig for the next block, and resetBlockInfo's first assignment.  *)
ResetConfig ==
    /\ reset = "done"
    /\ number < MaxNumber
    /\ number' = number + 1
    /\ reset' = "hash"
    /\ UNCHANGED <<hash, sealersOf, observersOf, known, peerTable, senders, network, events>>

(* setHash, and the comparison with the known highest number, ...          *)
SetHash ==
    /\ reset = "hash"
    /\ hash' = number
    /\ reset' = IF known < number THEN "known" ELSE "sealers"
    /\ UNCHANGED <<number, sealersOf, observersOf, known, peerTable, senders, network, events>>

(* ... which is assigned without regard for what has been heard since.     *)
ResetKnownHighestNumber ==
    /\ reset = "known"
    /\ known' = number
    /\ reset' = "sealers"
    /\ UNCHANGED <<number, hash, sealersOf, observersOf, peerTable, senders, network, events>>

(* Between the two assignments a member that moves from one list to the    *)
(* other is in neither.                                                    *)
SetConsensusNodeList ==
    /\ reset = "sealers"
    /\ sealersOf' = number
    /\ reset' = "observers"
    /\ UNCHANGED <<number, hash, observersOf, known, peerTable, senders, network, events>>

(* setObserverList, and the list of broadcastSyncStatus.                   *)
SetObserverList ==
    /\ reset = "observers"
    /\ observersOf' = number
    /\ reset' = "done"
    /\ todo' = [todo EXCEPT !["broadcast"] =
                   @ \cup ((Sealers[number] \cup Observers[number]) \ {Self})]
    /\ UNCHANGED <<number, hash, sealersOf, known, peerTable, doomed, draft, sent, network, events>>

-----------------------------------------------------------------------------
(* SyncPeerStatus *)

(* x_peersStatus is held while updateKnownMaxBlockInfo runs.               *)
TableFree == raise = {}

(* Mutant: a status with another genesis hash is taken for one of ours.    *)
SameChainAlways(m) == m.genesis \in {"ours", "other"}

SameChain(m) == m.genesis = "ours"

(* Mutant: the height alone decides whether a status is news.              *)
IsNewsByNumber(p, m) == p \in DOMAIN table => m.number # table[p].number

(* PeerStatus::update: the same number and hash again are no news.  (The   *)
(* genesis hash of an entry is empty or ours, so its own check passes.)    *)
IsNews(p, m) == p \in DOMAIN table => m.number # table[p].number \/ m.hash # table[p].hash

Insert(p, e) == [q \in DOMAIN table \cup {p} |-> IF q = p THEN e ELSE table[q]]

(* updatePeerStatus, up to updateKnownMaxBlockInfo's assignments.          *)
UpdatePeerStatus(p, m) ==
    /\ TableFree
    /\ IF SameChain(m) /\ IsNews(p, m)
       THEN /\ table' = Insert(p, [number |-> m.number, hash |-> m.hash])
            /\ raise' = IF m.number > known THEN {m.number} ELSE {}
       ELSE UNCHANGED peerTable

(* updateKnownMaxBlockInfo, which has compared the two numbers.            *)
UpdateKnownMaxBlockInfo ==
    /\ \E n \in raise : known' = n
    /\ raise' = {}
    /\ UNCHANGED <<blockInfo, table, senders, network, events>>

(* insertEmptyPeer: a member asks for blocks before it was heard.          *)
InsertEmptyPeer(p) ==
    /\ Happens("request")
    /\ TableFree
    /\ ExistsInGroup(p) /\ p \in linked
    /\ p \notin DOMAIN table
    /\ table' = Insert(p, [number |-> 0, hash |-> NoHash])
    /\ UNCHANGED <<blockInfo, known, raise, senders, network>>

(* onPeerStatus: a node outside the group is heard only when it is ahead.  *)
OnPeerStatus(m) ==
    /\ m \in statuses
    /\ TableFree
    /\ statuses' = statuses \ {m}
    /\ IF ~ExistsInGroup(m.from) /\ m.number <= number
       THEN UNCHANGED peerTable
       ELSE UpdatePeerStatus(m.from, m)
    /\ UNCHANGED <<blockInfo, known, senders, connected, linked, peerNumber, events>>

-----------------------------------------------------------------------------
(* Sending: the worker and the broadcast read the number, then the hash *)

HashesRead == IF reset = "hash" THEN {hash, Torn} ELSE {hash}

(* The next node of the list; one that is not connected is skipped.        *)
ReadBlockNumber(t) ==
    /\ draft[t] = {}
    /\ \E p \in todo[t] :
          /\ todo' = [todo EXCEPT ![t] = @ \ {p}]
          /\ draft' = [draft EXCEPT ![t] =
                 IF p \in connected THEN {[to |-> p, number |-> number]} ELSE {}]
    /\ UNCHANGED <<blockInfo, known, peerTable, doomed, sent, network, events>>

(* The hash is copied and the status sent; the worker puts the status into *)
(* the node's own entry of the table first.                                *)
SendStatus(t) ==
    \E d \in draft[t], h \in HashesRead :
        LET m == [number |-> d.number, hash |-> h, genesis |-> "ours"]
        IN  /\ sent' = [sent EXCEPT ![d.to] = [number |-> d.number, hash |-> h]]
            /\ draft' = [draft EXCEPT ![t] = {}]
            /\ IF t = "worker" THEN UpdatePeerStatus(Self, m) ELSE UNCHANGED peerTable
            /\ UNCHANGED <<blockInfo, known, doomed, todo, network, events>>

(* Mutant: the node sends its status to itself, too.                       *)
MembersAndSelf(D) == IF D = {} THEN GroupNodeList ELSE {}

(* Mutant: only nodes not heard yet are sent the status.                   *)
MembersNotHeard(D) == IF D = {} THEN (GroupNodeList \ {Self}) \ DOMAIN table ELSE {}

(* The list of members to send to is made when the peers in D have been    *)
(* deleted.                                                                *)
Members(D) == IF D = {} THEN GroupNodeList \ {Self} ELSE {}


(* The peers to delete: not connected, or outside the group and not ahead. *)
PeersToDelete ==
    {p \in DOMAIN table \ {Self} :
        p \notin connected \/ (~ExistsInGroup(p) /\ number >= table[p].number)}

(* maintainPeersConnection: collect the peers to delete, ...               *)
CollectPeersToDelete ==
    /\ doomed = {} /\ todo["worker"] = {} /\ draft["worker"] = {}
    /\ ExistsInGroup(Self)
    /\ TableFree
    /\ doomed' = PeersToDelete
    /\ todo' = [todo EXCEPT !["worker"] = Members(PeersToDelete)]
    /\ UNCHANGED <<blockInfo, known, peerTable, draft, sent, network, events>>

(* ... and delete them one by one, whatever was heard of them meanwhile.   *)
DeletePeer ==
    /\ TableFree
    /\ \E p \in doomed :
          /\ doomed' = doomed \ {p}
          /\ table' = [q \in DOMAIN table \ {p} |-> table[q]]
          /\ todo' = [todo EXCEPT !["worker"] = Members(doomed \ {p})]
    /\ UNCHANGED <<blockInfo, known, raise, draft, sent, network, events>>

-----------------------------------------------------------------------------
(* The environment *)

(* A connection is lost or made, and the front service reports the list.   *)
NotifyConnectedNodes(p) ==
    /\ Happens("connection")
    /\ linked' = IF p \in linked THEN linked \ {p} ELSE linked \cup {p}
    /\ connected' = linked'
    /\ UNCHANGED <<blockInfo, known, peerTable, senders, peerNumber, statuses>>

PeerPublishes(p) ==
    /\ peerNumber[p] < MaxPeer
    /\ peerNumber' = [peerNumber EXCEPT ![p] = @ + 1]
    /\ UNCHANGED <<blockInfo, known, peerTable, senders, connected, linked, statuses, events>>

Arrives(m) ==
    /\ Cardinality(statuses) < MaxInFlight
    /\ m \notin statuses
    /\ statuses' = statuses \cup {m}
    /\ UNCHANGED <<blockInfo, known, peerTable, senders, connected, linked, peerNumber>>

Heard(p, k, h) == [from |-> p, number |-> k, hash |-> h, genesis |-> "ours"]

(* A peer, which runs the same code, sends its status.                     *)
PeerSends(p) ==
    /\ p \in linked
    /\ Arrives(Heard(p, peerNumber[p], peerNumber[p]))
    /\ UNCHANGED events

(* ... and while it publishes a block, the number and hash of different    *)
(* blocks, or a hash that is of neither.                                   *)
PeerSendsTorn(p) ==
    /\ Happens("torn")
    /\ p \in linked /\ peerNumber[p] > 0
    /\ \E k \in {peerNumber[p] - 1, peerNumber[p]}, h \in {peerNumber[p] - 1, peerNumber[p], Torn} :
          k # h /\ Arrives(Heard(p, k, h))

StrangerSends(s) ==
    /\ Happens("stranger")
    /\ \E k \in Heights :
          Arrives([from |-> s, number |-> k, hash |-> k, genesis |-> "other"])

LoseStatus(m) ==
    /\ Happens("loss")
    /\ statuses' = statuses \ {m}
    /\ UNCHANGED <<blockInfo, known, peerTable, senders, connected, linked, peerNumber>>

(* The process dies and a new one reads height, hash and members from the  *)
(* ledger (init); it may fail to get the list of connected nodes.          *)
Restart ==
    /\ Happens("restart")
    /\ hash' = number /\ known' = number
    /\ sealersOf' = number /\ observersOf' = number
    /\ reset' = "done"
    /\ table' = << >>
    /\ raise' = {}
    /\ connected' \in {linked, {}}
    /\ doomed' = {}
    /\ todo' = [t \in Threads |-> {}]
    /\ draft' = [t \in Threads |-> {}]
    /\ statuses' = {}
    /\ UNCHANGED <<number, sent, linked, peerNumber>>

OnNewBlock ==
    \/ SetHash \/ ResetKnownHighestNumber \/ SetConsensusNodeList \/ SetObserverList
    \/ ReadBlockNumber("broadcast") \/ SendStatus("broadcast")

MaintainPeersConnection ==
    \/ CollectPeersToDelete \/ DeletePeer
    \/ ReadBlockNumber("worker") \/ SendStatus("worker")

HandleStatus ==
    \/ \E m \in statuses : OnPeerStatus(m)
    \/ UpdateKnownMaxBlockInfo

Next ==
    \/ ResetConfig \/ OnNewBlock
    \/ MaintainPeersConnection
    \/ HandleStatus
    \/ \E p \in Peers :
          \/ InsertEmptyPeer(p) \/ NotifyConnectedNodes(p)
          \/ PeerPublishes(p) \/ PeerSends(p) \/ PeerSendsTorn(p)
    \/ \E s \in Strangers : StrangerSends(s)
    \/ \E m \in statuses : LoseStatus(m)
    \/ Restart

Spec == Init /\ [][Next]_vars

(***************************************************************************)
(* Each of the three threads runs: what has begun is finished, the worker  *)
(* loops for ever, and the front service delivers what it has.  A peer     *)
(* runs the same worker loop, so it sends its status over and over.  New   *)
(* blocks, connections and the other events come or do not.                *)
(***************************************************************************)
Fairness ==
    /\ WF_vars(OnNewBlock)
    /\ WF_vars(MaintainPeersConnection)
    /\ WF_vars(HandleStatus)
    /\ \A p \in Peers : SF_vars(PeerSends(p))

FairSpec == Spec /\ Fairness

-----------------------------------------------------------------------------
(* Properties *)

HeightOf(p) == IF p = Self THEN number ELSE peerNumber[p]

(* Whatever was lost, overtaken, torn or sent by strangers, the node never *)
(* waits for a block that no node of its chain has, never takes a stranger *)
(* for a node to ask (the genesis hash keeps the chains apart), and never  *)
(* has a peer ahead of what that peer published.                           *)
KnownIsPublished ==
    /\ known <= number \/ \E p \in Peers : known <= peerNumber[p]
    /\ \A p \in DOMAIN table : p \in Nodes /\ table[p].number <= HeightOf(p)

Current(n) == [number |-> n, hash |-> n]


(* In the end every connected member has been sent the height and hash of  *)
(* the node's last block, whichever of the two threads sent last.          *)
Announced ==
    <>[](ExistsInGroup(Self) =>
            \A p \in connected \cap GroupNodeList : sent[p] = Current(number))

(* In the end the known highest number is that of the highest connected    *)
(* member, as the tests of the module wait for.                            *)
KnownAgrees ==
    <>[](\A p \in connected \cap GroupNodeList : known >= peerNumber[p])

=============================================================================
