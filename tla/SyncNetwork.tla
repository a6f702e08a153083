----------------------------- MODULE SyncNetwork -----------------------------
(***************************************************************************)
(* Two nodes: one that is behind and downloads (BlockSync) and the one it  *)
(* downloads from (BlockServing), with the block requests and the blocks   *)
(* on their way between them.  What BlockSync alone leaves to chance, which *)
(* of the blocks asked for arrive, is here the work of the other node's    *)
(* peer table, request queue and SyncSend task.                            *)
(*                                                                         *)
(* The serving node's variables begin with s.                              *)
(***************************************************************************)
EXTENDS BlockSync

CONSTANTS
    Server,             \* the node that has all the blocks
    Requester,          \* the name of this node to the server
    RequestLimit,       \* the server's maxDownloadRequestQueueSize
    Faults,             \* "read", "send", "connection": failures at the server;
                        \* "request": a request is lost
    MaxFaults,          \* bound: how many of them happen in one behaviour
    MaxRequests         \* bound: the requests the server receives

ASSUME NetworkAssumption ==
    /\ Peers = {Server}
    /\ RequestLimit \in Nat \ {0}
    /\ MaxFaults \in Nat
    /\ MaxRequests \in Nat

VARIABLES
    requests,    \* external: bag of the block requests on their way to the server
    sTable,      \* the server's m_peersStatus
    sQueue,      \* ... m_reqQueue of each entry
    sCreated,    \* ... entries made so far
    sHandlers,   \* ... calls of onPeerBlocksRequest
    sReceived,   \* ... requests received
    sPc, sTodo, sPeer, sRange, sNumber,  \* ... SyncSend task
    sReads,      \* ... reads of its ledger
    sResponses,  \* external: bag of the blocks on their way to the requester
    sFailures    \* external: the faults still to come

Serving == INSTANCE BlockServing WITH
    Peers <- {Requester}, Group <- {Requester}, Requests <- {},
    FailOps <- Faults, MaxFailures <- MaxFaults,
    m_peersStatus <- sTable, m_reqQueue <- sQueue, created <- sCreated,
    handlers <- sHandlers, received <- sReceived,
    pc <- sPc, todo <- sTodo, peer <- sPeer, range <- sRange, number <- sNumber,
    reads <- sReads, responses <- sResponses, failures <- sFailures

server == <<sTable, sQueue, sCreated, sHandlers, sReceived, sPc, sTodo, sPeer, sRange,
            sNumber, sReads, sResponses, sFailures>>
netVars == <<vars, server, requests>>

NetInit == Init /\ Serving!Init /\ requests = EmptyBag

-----------------------------------------------------------------------------
(* The two nodes meet *)

(* Mutant: the loop over the shards ends one too late.                     *)
OneShardTooMany(from, to) ==
    LET last == LastRequested(from, to)
        firsts == {f \in (from + 1) .. (last + 1) : (f - from - 1) % MaxRequestBlocks = 0}
    IN  {[from |-> f, size |-> Lesser(MaxRequestBlocks, last + 1 - f + 1)] : f \in firsts}

(* The shards of requestBlocks(from, to), with the server the only peer.   *)
Shards(from, to) ==
    LET last == LastRequested(from, to)
        firsts == {f \in (from + 1) .. last : (f - from - 1) % MaxRequestBlocks = 0}
    IN  {[from |-> f, size |-> Lesser(MaxRequestBlocks, to - f + 1)] : f \in firsts}

(* tryToRequestBlocks, when it requests.                                   *)
SendRequests ==
    /\ pc = "request"
    /\ CommitQueueFree
    /\ ~WaitForCommit /\ MayRequest
    /\ RequestBlocks(blockNumber, RequestToNumber)
    /\ requests' = requests (+) SetToBag(Shards(blockNumber, RequestToNumber))
    /\ Goto("idle")
    /\ UNCHANGED <<config, queues, m_commitQueue, jobs, services, failures, network, server>>

(* The front service takes a request to the server, or loses it, ...       *)
ReceiveRequest(r) ==
    /\ r \in DOMAIN requests
    /\ Serving!OnPeerBlocksRequest(Requester, r)
    /\ requests' = Without(requests, r)
    /\ UNCHANGED vars

LoseRequest(r) ==
    /\ r \in DOMAIN requests
    /\ Serving!Fails("request")
    /\ requests' = Without(requests, r)
    /\ UNCHANGED <<vars, sTable, sQueue, sCreated, sHandlers, sReceived, sPc, sTodo, sPeer,
                   sRange, sNumber, sReads, sResponses>>

(* ... and a block to the requester, whose onPeerBlocks waits for          *)
(* x_blockBuffer; while its process is down the block is lost.             *)
ReceiveBlock(m) ==
    /\ pc # "flush"
    /\ Serving!Deliver(m)
    /\ IF Running THEN Push(m.num) ELSE UNCHANGED m_blockBuffer
    /\ UNCHANGED <<config, m_blocks, m_commitQueue, jobs, services, failures, download,
                   network, task, requests>>

-----------------------------------------------------------------------------
(* What each node does by itself *)

Download ==
    /\ UNCHANGED <<server, requests>>
    /\ DownloadTask \/ NullDereference \/ Restart
    /\ ~(pc = "request" /\ ~WaitForCommit /\ MayRequest)

Callbacks == UNCHANGED <<server, requests>> /\ \E j \in DOMAIN jobs : Callback(j.num)

HearServer == UNCHANGED <<server, requests>> /\ OnPeerStatus(Server, MaxBlock)

(* The timer runs out when nothing is under way any more.                  *)
Timeout ==
    /\ UNCHANGED <<server, requests>>
    /\ requests = EmptyBag /\ sHandlers = {} /\ Serving!Owed(Requester) = {}
    /\ sResponses = EmptyBag
    /\ AllProcessed
    /\ OnDownloadTimeout

(* A round of the SyncSend task over empty queues changes nothing and is   *)
(* left out.                                                               *)
Serve ==
    /\ UNCHANGED <<vars, requests>>
    /\ Serving!SyncSendTask
    /\ sPc = "idle" => DOMAIN sQueue[Requester] # {}

HandleRequest ==
    /\ UNCHANGED <<vars, requests>>
    /\ \E h \in sHandlers : Serving!InsertEmptyPeer(h) \/ Serving!PushRequest(h)

(* The server hears the requester's status, or loses it.                   *)
MaintainEntry ==
    /\ UNCHANGED <<vars, requests>>
    /\ Serving!UpdatePeerStatus(Requester) \/ Serving!DeletePeer(Requester)

ReadBlock ==
    /\ UNCHANGED <<vars, requests>>
    /\ \E k \in DOMAIN sReads : Serving!BlockRead(k)

FailBlock ==
    /\ UNCHANGED <<vars, requests>>
    /\ \E k \in DOMAIN sReads : Serving!BlockNotRead(k) \/ Serving!BlockNotSent(k)

NetNext ==
    \/ SendRequests
    \/ \E r \in DOMAIN requests : ReceiveRequest(r) \/ LoseRequest(r)
    \/ \E m \in DOMAIN sResponses : ReceiveBlock(m)
    \/ Download \/ Callbacks \/ HearServer \/ Timeout
    \/ Serve \/ HandleRequest \/ MaintainEntry \/ ReadBlock \/ FailBlock

(***************************************************************************)
(* Every thread of both nodes runs, and what is in flight and not lost     *)
(* arrives.  A thread that waits for a lock gets it when the lock is free  *)
(* again and again.                                                        *)
(***************************************************************************)
NetFairness ==
    /\ WF_netVars(SendRequests \/ Download)
    /\ WF_netVars(Callbacks)
    /\ WF_netVars(HearServer)
    /\ WF_netVars(Timeout)
    /\ WF_netVars(Serve)
    /\ SF_netVars(HandleRequest)
    /\ WF_netVars(ReadBlock)
    /\ WF_netVars(\E r \in DOMAIN requests : ReceiveRequest(r))
    /\ SF_netVars(\E m \in DOMAIN sResponses : ReceiveBlock(m))

NetSpec == NetInit /\ [][NetNext]_netVars /\ NetFairness

-----------------------------------------------------------------------------
(* Properties *)

Existing == 1 .. MaxBlock

(* Nothing goes round between the two nodes but blocks that the server     *)
(* has: the requester asks for no other, the server owes and sends no      *)
(* other whatever it merges, drops, pushes back and is asked again, and so *)
(* the requester hears of and commits no other, from which it asks on.     *)
OnlyExistingBlocks ==
    /\ \A r \in DOMAIN requests : Serving!Heights(r) \subseteq Existing
    /\ \A h \in sHandlers : Serving!Heights(h.req) \subseteq Existing
    /\ Serving!Owed(Requester) \subseteq Existing
    /\ \A m \in DOMAIN sResponses : m.num \in Existing
    /\ knownHighestNumber <= MaxBlock /\ ledger <= MaxBlock

(* The requester catches up with the server through a request lost, an     *)
(* entry deleted with its queue, a request pushed to an entry that is in   *)
(* no table, a block that cannot be read or sent: once nothing is under    *)
(* way any more it asks again.                                             *)
EndToEnd == <>[](blockNumber = MaxBlock)

=============================================================================
