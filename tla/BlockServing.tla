---------------------------- MODULE BlockServing ----------------------------
(***************************************************************************)
(* The serving side of a node: the handler of block requests, which looks  *)
(* up or makes the sender's entry in the peer table (SyncPeerStatus), the  *)
(* queue of requests of every entry (DownloadRequestQueue), and the task   *)
(* of the one-thread "SyncSend" pool that merges the requests of a peer,   *)
(* reads the blocks from the ledger and sends them.                        *)
(*                                                                         *)
(* An entry of the table is an object that handlers and callbacks hold on  *)
(* to after it has left the table; it is known by the order in which the   *)
(* entries were made.                                                      *)
(***************************************************************************)
EXTENDS Naturals, Bags, FiniteSets

CONSTANTS
    Peers,         \* the other nodes
    Group,         \* those that belong to the group (existsInGroup)
    RequestLimit,  \* maxDownloadRequestQueueSize (1000 in the code)
    Requests,      \* the ranges [from, size] that peers ask for
    FailOps,       \* what may fail: "read", "send", "connection"
    MaxFailures,   \* bound: how many of them fail in one behaviour
    MaxRequests    \* bound: the requests received in one behaviour

Ranges == [from : Nat, size : Nat]

ASSUME ServingAssumption ==
    /\ Group \subseteq Peers
    /\ RequestLimit \in Nat \ {0}
    /\ Requests \subseteq Ranges
    /\ MaxFailures \in Nat
    /\ MaxRequests \in Nat

VARIABLES
    m_peersStatus,  \* the entry of each peer, 0 for none
    m_reqQueue,     \* the requests queued in the entry of each peer
    created,        \* the entries made so far
    handlers,       \* the calls of onPeerBlocksRequest under way
    received,       \* the requests received so far
    pc,             \* the position of the SyncSend task
    todo,           \* the peers that the task has still to visit
    peer,           \* the peer it visits: a set of at most one
    range,          \* the merged request: [from, size]
    number,         \* the next block to read for it
    reads,          \* bag of the reads of the ledger under way
    responses,      \* external: bag of the blocks on their way to the peers
    failures        \* external: the failures still to come

table == <<m_peersStatus, m_reqQueue, created>>
calls == <<handlers, received>>
task == <<pc, todo, peer, range, number>>
vars == <<table, calls, task, reads, responses, failures>>

Nothing == [from |-> 0, size |-> 0]

(* The requests in a queue, the copies of a request numbered; their number *)
(* is the queue's size.                                                    *)
Slots(q) == UNION {{r} \X (1 .. q[r]) : r \in DOMAIN q}
QueueSize(q) == Cardinality(Slots(q))

Handler == [id : Nat, at : {"insert", "push"}, peer : Peers, req : Ranges, entry : Nat]

(* Every queue holds ranges, no more of them than its limit.               *)
TypeOK ==
    /\ m_peersStatus \in [Peers -> Nat]
    /\ \A p \in Peers : QueueSize(m_reqQueue[p]) <= RequestLimit
    /\ \A p \in Peers : IsABag(m_reqQueue[p]) /\ DOMAIN m_reqQueue[p] \subseteq Ranges
    /\ created \in Nat
    /\ handlers \subseteq Handler
    /\ received \in Nat
    /\ pc \in {"idle", "peers", "serve", "merge", "fetch"}
    /\ todo \subseteq Peers
    /\ peer \in SUBSET Peers
    /\ range \in Ranges
    /\ number \in Nat
    /\ IsABag(reads) /\ DOMAIN reads \subseteq [peer : Peers, entry : Nat, num : Nat]
    /\ IsABag(responses) /\ DOMAIN responses \subseteq [peer : Peers, num : Nat]
    /\ failures \in Nat

Init ==
    /\ m_peersStatus = [p \in Peers |-> 0]
    /\ m_reqQueue = [p \in Peers |-> EmptyBag]
    /\ created = 0
    /\ handlers = {}
    /\ received = 0
    /\ pc = "idle"
    /\ todo = {}
    /\ peer = {}
    /\ range = Nothing
    /\ number = 0
    /\ reads = EmptyBag
    /\ responses = EmptyBag
    /\ failures = MaxFailures

With(b, e) == b (+) SetToBag({e})
Without(b, e) == b (-) SetToBag({e})

Fails(op) ==
    /\ op \in FailOps
    /\ failures > 0
    /\ failures' = failures - 1

-----------------------------------------------------------------------------
(* DownloadRequestQueue *)

(* DownloadRequestCmp: r is on top of q, the least height first, and among *)
(* requests from the same height the longest.                              *)
IsTop(q, r) ==
    /\ r \in DOMAIN q
    /\ \A s \in DOMAIN q : r.from < s.from \/ (r.from = s.from /\ r.size >= s.size)

(* topAndPop holds x_reqQueue for all of its loop.                         *)
QueueFree(p) == ~(pc = "merge" /\ p \in peer)

(* Mutant: one request more than the limit is let in.                      *)
QueueFullOffByOne(p) == QueueSize(m_reqQueue[p]) > RequestLimit

QueueFull(p) == QueueSize(m_reqQueue[p]) >= RequestLimit

(* push, to the queue of entry e of peer p; nobody reads the queue of an   *)
(* entry that is not in the table.                                         *)
Push(p, e, r) ==
    IF e = m_peersStatus[p]
    THEN /\ QueueFree(p)
         /\ m_reqQueue' = IF QueueFull(p)
                          THEN m_reqQueue
                          ELSE [m_reqQueue EXCEPT ![p] = With(@, r)]
    ELSE UNCHANGED m_reqQueue

-----------------------------------------------------------------------------
(* SyncPeerStatus and the handlers *)

(* insertEmptyPeer, updatePeerStatus and deletePeer wait for               *)
(* x_peersStatus, which foreachPeerRandom holds for all of its loop.       *)
TableFree == pc = "idle"

Insert(p) ==
    /\ created' = created + 1
    /\ m_peersStatus' = [m_peersStatus EXCEPT ![p] = created + 1]
    /\ m_reqQueue' = [m_reqQueue EXCEPT ![p] = EmptyBag]

(* onPeerBlocksRequest, up to the lookup of the sender's entry.            *)
OnPeerBlocksRequest(p, r) ==
    LET Call(at) == [id |-> received, at |-> at, peer |-> p, req |-> r,
                     entry |-> m_peersStatus[p]]
    IN  /\ received < MaxRequests
        /\ received' = received + 1
        /\ \/ /\ m_peersStatus[p] # 0
              /\ handlers' = handlers \cup {Call("push")}
           \/ /\ m_peersStatus[p] = 0 /\ p \in Group
              /\ handlers' = handlers \cup {Call("insert")}
           \/ /\ m_peersStatus[p] = 0 /\ p \notin Group
              /\ UNCHANGED handlers
        /\ UNCHANGED <<table, task, reads, responses, failures>>

(* insertEmptyPeer: an entry made since the lookup stays in the table, and *)
(* the handler goes on with a new one that is not (0: in no table).        *)
InsertEmptyPeer(h) ==
    /\ h.at = "insert"
    /\ TableFree
    /\ \/ /\ m_peersStatus[h.peer] = 0
          /\ Insert(h.peer)
          /\ handlers' = (handlers \ {h}) \cup {[h EXCEPT !.at = "push", !.entry = created + 1]}
       \/ /\ m_peersStatus[h.peer] # 0
          /\ handlers' = (handlers \ {h}) \cup {[h EXCEPT !.at = "push"]}
          /\ UNCHANGED table
    /\ UNCHANGED <<received, task, reads, responses, failures>>

(* The end of onPeerBlocksRequest.                                         *)
PushRequest(h) ==
    /\ h.at = "push"
    /\ IF h.entry = 0 THEN UNCHANGED m_reqQueue ELSE Push(h.peer, h.entry, h.req)
    /\ handlers' = handlers \ {h}
    /\ UNCHANGED <<m_peersStatus, created, received, task, reads, responses, failures>>

(* updatePeerStatus, for a peer without an entry.                          *)
UpdatePeerStatus(p) ==
    /\ TableFree
    /\ m_peersStatus[p] = 0
    /\ Insert(p)
    /\ UNCHANGED <<calls, task, reads, responses, failures>>

(* deletePeer, called by maintainPeersConnection for a peer that is        *)
(* disconnected, or outside the group and not ahead; its queue goes too.   *)
DeletePeer(p) ==
    /\ TableFree
    /\ m_peersStatus[p] # 0
    /\ Fails("connection")
    /\ m_peersStatus' = [m_peersStatus EXCEPT ![p] = 0]
    /\ m_reqQueue' = [m_reqQueue EXCEPT ![p] = EmptyBag]
    /\ UNCHANGED <<created, calls, task, reads, responses>>

-----------------------------------------------------------------------------
(* The SyncSend task *)

(* maintainBlockRequest: foreachPeerRandom takes x_peersStatus.            *)
MaintainBlockRequest ==
    /\ pc = "idle"
    /\ pc' = "peers"
    /\ todo' = {p \in Peers : m_peersStatus[p] # 0}
    /\ UNCHANGED <<table, calls, peer, range, number, reads, responses, failures>>

(* The next peer, in random order.                                         *)
NextPeer ==
    /\ pc = "peers"
    /\ \/ /\ todo = {}
          /\ pc' = "idle" /\ peer' = {}
          /\ UNCHANGED todo
       \/ \E p \in todo : pc' = "serve" /\ peer' = {p} /\ todo' = todo \ {p}
    /\ UNCHANGED <<table, calls, range, number, reads, responses, failures>>

(* "while (!reqQueue->empty())", up to the loop of topAndPop.              *)
ServePeer ==
    /\ pc = "serve"
    /\ \E p \in peer :
          \/ /\ DOMAIN m_reqQueue[p] = {}
             /\ pc' = "peers"
             /\ UNCHANGED range
          \/ \E r \in DOMAIN m_reqQueue[p] :
                /\ IsTop(m_reqQueue[p], r)
                /\ pc' = "merge"
                /\ range' = [from |-> r.from, size |-> 0]
    /\ UNCHANGED <<table, calls, todo, peer, number, reads, responses, failures>>

(* Mutant: the range merged so far must reach beyond the next request.     *)
MergeableStrict(q, r) == IsTop(q, r) /\ range.from + range.size > r.from

Mergeable(q, r) == IsTop(q, r) /\ range.from + range.size >= r.from

(* Mutant: the last request merged decides where the range ends.           *)
MergedLast(r) == [range EXCEPT !.size = r.from + r.size - range.from]

(* "size = std::max(...)": the range reaches as far as either of the two.  *)
Merged(r) ==
    LET size == r.from + r.size - range.from
    IN  [range EXCEPT !.size = IF size > @ THEN size ELSE @]

(* One turn of topAndPop's loop, and its end.                              *)
TopAndPop ==
    /\ pc = "merge"
    /\ \E p \in peer :
          \/ \E r \in DOMAIN m_reqQueue[p] :
                /\ Mergeable(m_reqQueue[p], r)
                /\ range' = Merged(r)
                /\ m_reqQueue' = [m_reqQueue EXCEPT ![p] = Without(@, r)]
                /\ UNCHANGED <<pc, number>>
          \/ /\ \A r \in DOMAIN m_reqQueue[p] : ~Mergeable(m_reqQueue[p], r)
             /\ pc' = "fetch"
             /\ number' = range.from
             /\ UNCHANGED <<range, m_reqQueue>>
    /\ UNCHANGED <<m_peersStatus, created, calls, todo, peer, reads, responses, failures>>

(* The loop over the merged range: fetchAndSendBlock starts a read.        *)
FetchAndSendBlock ==
    /\ pc = "fetch"
    /\ \/ /\ number < range.from + range.size
          /\ \E p \in peer :
                reads' = With(reads, [peer |-> p, entry |-> m_peersStatus[p], num |-> number])
          /\ number' = number + 1
          /\ UNCHANGED <<pc, range>>
       \/ /\ number >= range.from + range.size
          /\ pc' = "serve" /\ range' = Nothing /\ number' = 0
          /\ UNCHANGED reads
    /\ UNCHANGED <<table, calls, todo, peer, responses, failures>>

SyncSendTask ==
    MaintainBlockRequest \/ NextPeer \/ ServePeer \/ TopAndPop \/ FetchAndSendBlock

(* The callback of asyncGetBlockDataByNumber: the block is sent, ...       *)
BlockRead(k) ==
    /\ k \in DOMAIN reads
    /\ reads' = Without(reads, k)
    /\ responses' = With(responses, [peer |-> k.peer, num |-> k.num])
    /\ UNCHANGED <<table, calls, task, failures>>

(* ... or cannot be read, and the request for it goes back to the queue,   *)
BlockNotRead(k) ==
    /\ k \in DOMAIN reads
    /\ Fails("read")
    /\ reads' = Without(reads, k)
    /\ Push(k.peer, k.entry, [from |-> k.num, size |-> 1])
    /\ UNCHANGED <<m_peersStatus, created, calls, task, responses>>

(* ... or an exception while it is encoded or sent ends the matter.        *)
BlockNotSent(k) ==
    /\ k \in DOMAIN reads
    /\ Fails("send")
    /\ reads' = Without(reads, k)
    /\ UNCHANGED <<table, calls, task, responses>>

(* External: the front service takes the block to the peer.                *)
Deliver(m) ==
    /\ m \in DOMAIN responses
    /\ responses' = Without(responses, m)
    /\ UNCHANGED <<table, calls, task, reads, failures>>

Next ==
    \/ SyncSendTask
    \/ \E p \in Peers, r \in Requests : OnPeerBlocksRequest(p, r)
    \/ \E h \in handlers : InsertEmptyPeer(h) \/ PushRequest(h)
    \/ \E p \in Peers : UpdatePeerStatus(p) \/ DeletePeer(p)
    \/ \E k \in DOMAIN reads : BlockRead(k) \/ BlockNotRead(k) \/ BlockNotSent(k)
    \/ \E m \in DOMAIN responses : Deliver(m)

Spec == Init /\ [][Next]_vars

(* The worker loop reposts the task for ever, and the ledger answers every *)
(* read.                                                                   *)
Fairness ==
    /\ WF_vars(SyncSendTask)
    /\ WF_vars(\E k \in DOMAIN reads : BlockRead(k))

FairSpec == Spec /\ Fairness

-----------------------------------------------------------------------------
(* Properties *)

Heights(r) == r.from .. (r.from + r.size - 1)

(* What the node has still to send to peer p: requests queued, the merged  *)
(* range, the rest of it, and the reads under way.                         *)
Queued(p) == UNION {Heights(r) : r \in DOMAIN m_reqQueue[p]}
Merging(p) == IF pc = "merge" /\ p \in peer THEN Heights(range) ELSE {}
Fetching(p) ==
    IF pc = "fetch" /\ p \in peer THEN number .. (range.from + range.size - 1) ELSE {}
Reading(p) == {k.num : k \in {k \in DOMAIN reads : k.peer = p}}

Owed(p) == Queued(p) \cup Merging(p) \cup Fetching(p) \cup Reading(p)

(* A peer is sent the blocks it asked for and no others, and none that was *)
(* accepted is forgotten: merging overlapping requests, serving them next  *)
(* to new ones and pushing failed reads back neither adds nor loses one.   *)
Promise == INSTANCE BlocksOwed WITH
    asked <- {[id |-> h.id, peer |-> h.peer, req |-> h.req] : h \in handlers},
    owed <- [p \in Peers |-> Owed(p)],
    sent <- responses,
    faults <- failures

KeepsPromise == Promise!Spec

(* Every block owed is sent in the end, or lost to a fault: neither other  *)
(* peers' requests nor failed reads keep the task from it.                 *)
EveryBlockServed ==
    \A p \in Peers, n \in UNION {Heights(r) : r \in Requests} :
        (n \in Owed(p)) ~> (n \notin Owed(p))

(* The task, which holds x_peersStatus while it empties every queue, lets  *)
(* go of it in the end: what a failed read pushes back behind it, or a     *)
(* request that is received meanwhile, does not keep it in its loop, and   *)
(* the statuses and deletions that wait for the table get their turn.      *)
TableReleased == []<>TableFree

(* The request of a peer that belongs to the group is queued where it will *)
(* be served, unless the queue is full: its entry is made when it has none *)
(* yet, as the comment in onPeerBlocksRequest says.                        *)
GroupRequestQueued ==
    [][\A h \in handlers :
          PushRequest(h) /\ ~QueueFull(h.peer)
            => h.req \in DOMAIN m_reqQueue'[h.peer]]_vars

=============================================================================
