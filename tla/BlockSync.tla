------------------------------ MODULE BlockSync ------------------------------
(***************************************************************************)
(* The downloading side of bcos-sync/BlockSync.cpp for one node: the task  *)
(* that the worker thread posts to the one-thread "Download" pool over and *)
(* over, running against the handlers of the front service, the download   *)
(* timer, the consensus module and the callback chains of                  *)
(* DownloadingQueue.                                                       *)
(*                                                                         *)
(* The task holds a queue's lock only inside one call, so everything that  *)
(* it looks at twice may have changed in between: pc is its position.      *)
(***************************************************************************)
EXTENDS DownloadingQueue

CONSTANTS
    Peers,             \* the other nodes
    Group,             \* those that belong to the group (existsInGroup)
    WaterMark,         \* m_waterMark (10 in the code)
    MaxRequestBlocks,  \* blocks asked for in one request (8 in the code)
    MaxShardPerPeer,   \* requests sent to one peer at a time (2 in the code)
    ConsensusActive,   \* TRUE for a consensus node, FALSE for an observer
    MaxBlock,          \* bound: the height the peers' chain reaches
    StatusNumbers,     \* the heights peers report on the way there
    MaxCopies          \* bound: answers in flight that carry the same block

ASSUME SyncAssumption ==
    /\ Group \subseteq Peers
    /\ IsFiniteSet(Peers)
    /\ WaterMark \in Nat \ {0}
    /\ MaxRequestBlocks \in Nat \ {0}
    /\ MaxShardPerPeer \in Nat \ {0}
    /\ ConsensusActive \in BOOLEAN
    /\ MaxBlock \in Nat
    /\ StatusNumbers \subseteq 0 .. MaxBlock
    /\ MaxCopies \in Nat

VARIABLES
    m_state,             \* SyncState: "Idle" or "Downloading"
    m_downloadingTimer,  \* whether the download timer is running
    m_maxRequestNumber,  \* the greatest height requested so far
    peerNumber,          \* SyncPeerStatus: the height of each peer, 0 when unknown
    responses,           \* external: bag of blocks on their way from the peers
    pc,                  \* the position of the Download task
    executed,            \* maintainDownloadingQueue's local executedBlock
    block                \* ... and its local block, which it is about to apply, or
                         \* the height read to reset executedBlock to

task == <<pc, executed, block>>
download == <<m_state, m_downloadingTimer, m_maxRequestNumber>>
network == <<peerNumber, responses>>
vars == <<config, queues, m_commitQueue, jobs, services, failures, download, network, task>>

Positions == {"idle", "flush", "maintain", "expire", "expireTop", "expirePop",
              "limit", "continuous", "take", "takeTop", "grab", "apply", "ignore", "assign",
              "request", "crashed"}

SyncTypeOK ==
    /\ m_state \in {"Idle", "Downloading"}
    /\ m_downloadingTimer \in BOOLEAN
    /\ m_maxRequestNumber \in Nat
    /\ peerNumber \in [Peers -> Nat]
    /\ IsABag(responses) /\ DOMAIN responses \subseteq Nat
    /\ pc \in Positions
    /\ executed \in Nat
    /\ block \in Nat

(* Every counter is a height and every queue holds heights.                *)
TypeOK == ConfigTypeOK /\ QueueTypeOK /\ SyncTypeOK

Init ==
    /\ QueueInit
    /\ ConfigInit(ledger)
    /\ m_state = "Idle"
    /\ m_downloadingTimer = FALSE
    /\ m_maxRequestNumber = 0
    /\ peerNumber = [p \in Peers |-> 0]
    /\ responses = EmptyBag
    /\ pc = "idle"
    /\ executed = 0
    /\ block = 0

Lesser(m, n) == IF m < n THEN m ELSE n
Greater(m, n) == IF m < n THEN n ELSE m

isSyncing == m_state = "Downloading"

(* Mutant: the timer is stopped and the state stays.                       *)
DownloadFinishStateKept ==
    /\ m_downloadingTimer' = FALSE
    /\ UNCHANGED <<m_state, m_maxRequestNumber>>

(* downloadFinish, and onDownloadTimeout, which does the same.             *)
DownloadFinish ==
    /\ m_state' = "Idle"
    /\ m_downloadingTimer' = FALSE
    /\ UNCHANGED m_maxRequestNumber

(* The task moves to position l; its local variables are dead from         *)
(* "request" on.                                                           *)
Goto(l) ==
    /\ pc' = l
    /\ executed' = IF l = "request" THEN 0 ELSE executed
    /\ block' = IF l = "request" THEN 0 ELSE block

-----------------------------------------------------------------------------
(* The Download task *)

(* maintainDownloadingBuffer, up to the loop of flushBufferToQueue.        *)
MaintainDownloadingBuffer ==
    /\ pc = "idle"
    /\ \/ /\ m_blockBuffer = <<>> /\ m_blocks = EmptyBag
          /\ Goto("maintain")
          /\ UNCHANGED queues
       \/ /\ ~(m_blockBuffer = <<>> /\ m_blocks = EmptyBag)
          /\ ~ShouldSyncing
          /\ Clear
          /\ Goto("maintain")
       \/ /\ ~(m_blockBuffer = <<>> /\ m_blocks = EmptyBag)
          /\ ShouldSyncing
          /\ ClearFullQueueIfNotHas(nextBlock)
          /\ Goto("flush")
          /\ UNCHANGED m_blockBuffer
    /\ UNCHANGED <<config, m_commitQueue, jobs, services, failures, download, network>>

(* One turn of flushBufferToQueue's loop, which holds x_blockBuffer.       *)
FlushBufferToQueue ==
    /\ pc = "flush"
    /\ IF m_blockBuffer = <<>>
       THEN Goto("maintain") /\ UNCHANGED queues
       ELSE /\ m_blockBuffer' = Tail(m_blockBuffer)
            /\ FlushOneShard(Head(m_blockBuffer))
            /\ Goto(IF QueueFull THEN "maintain" ELSE "flush")
    /\ UNCHANGED <<config, m_commitQueue, jobs, services, failures, download, network>>

(* maintainDownloadingQueue, up to the read of executedBlock.              *)
MaintainDownloadingQueue ==
    /\ pc = "maintain"
    /\ \/ /\ ~ShouldSyncing
          /\ Clear
          /\ DownloadFinish
          /\ Goto("request")
          /\ UNCHANGED <<m_commitQueue, jobs>>
       \/ /\ ShouldSyncing
          /\ TryToCommitBlockToLedger(m_commitQueue, jobs)
          /\ executed' = executedBlock
          /\ pc' = "expire"
          /\ UNCHANGED <<queues, download, block>>
    /\ UNCHANGED <<config, services, failures, network>>

TaskOnly == UNCHANGED <<config, queues, m_commitQueue, jobs, services, failures, download, network>>

(* "remove the expired block": the loop calls top(), top() and pop(), and  *)
(* a callback may run clearExpiredQueueCache between any two of them.      *)
ExpireLoop ==
    /\ pc = "expire"
    /\ Goto(IF DOMAIN m_blocks = {} THEN "limit" ELSE "expireTop")
    /\ TaskOnly

(* The second top() is dereferenced unchecked.                             *)
ExpireTop ==
    /\ pc = "expireTop"
    /\ \E n \in DOMAIN m_blocks :
          /\ IsTop(m_blocks, n)
          /\ Goto(IF n <= executed THEN "expirePop" ELSE "limit")
    /\ TaskOnly

ExpirePop ==
    /\ pc = "expirePop"
    /\ Pop
    /\ Goto("expire")
    /\ UNCHANGED <<config, m_blockBuffer, m_commitQueue, jobs, services, failures, download, network>>

(* "limit the executed blockNumber".                                       *)
LimitExecuted ==
    /\ pc = "limit"
    /\ Goto(IF DOMAIN m_blocks = {} \/ executed >= blockNumber + WaterMark
            THEN "request"
            ELSE "continuous")
    /\ TaskOnly

(* The check for a missing block, on a top() that is not checked.          *)
CheckContinuous ==
    /\ pc = "continuous"
    /\ \E n \in DOMAIN m_blocks :
          /\ IsTop(m_blocks, n)
          /\ Goto(IF n > executed + 1 THEN "request" ELSE "take")
    /\ TaskOnly

(* "execute the expected block": three more calls of top() and a pop().    *)
TakeExpectedBlock ==
    /\ pc = "take"
    /\ Goto(IF DOMAIN m_blocks = {} THEN "request" ELSE "takeTop")
    /\ TaskOnly

TakeTop ==
    /\ pc = "takeTop"
    /\ \E n \in DOMAIN m_blocks :
          /\ IsTop(m_blocks, n)
          /\ Goto(IF n = executed + 1 THEN "grab" ELSE "request")
    /\ TaskOnly

GrabBlock ==
    /\ pc = "grab"
    /\ \E n \in DOMAIN m_blocks : IsTop(m_blocks, n) /\ block' = n
    /\ pc' = "apply"
    /\ executed' = 0
    /\ TaskOnly

(* The block popped may not be the block grabbed.  When the block grabbed  *)
(* has been published meanwhile, applyBlock calls setExecutedBlock with    *)
(* the published height ...                                                *)
ApplyGrabbedBlock ==
    /\ pc = "apply"
    /\ Pipeline < MaxPipeline
    /\ Pop
    /\ m_state' = "Downloading"
    /\ IF block > blockNumber
       THEN ApplyBlock(block) /\ Goto("request")
       ELSE pc' = "ignore" /\ block' = blockNumber /\ UNCHANGED <<jobs, executed>>
    /\ UNCHANGED <<config, m_blockBuffer, m_commitQueue, services, failures,
                   m_downloadingTimer, m_maxRequestNumber, network>>

(* ... which checks it against the published height and then assigns it,   *)
(* while resetConfig may publish another block.                            *)
IgnoreBlock ==
    /\ pc = "ignore"
    /\ Goto(IF MayAssignExecuted(block) THEN "assign" ELSE "request")
    /\ TaskOnly

AssignPublished ==
    /\ pc = "assign"
    /\ AssignExecuted(block)
    /\ Goto("request")
    /\ UNCHANGED <<queues, m_commitQueue, jobs, services, failures, download, network>>

(***************************************************************************)
(* tryToRequestBlocks.  A top block beyond the next one means that some    *)
(* blocks are missing: only those are requested.                           *)
(***************************************************************************)
RequestToNumber ==
    IF \E n \in DOMAIN m_blocks : IsTop(m_blocks, n) /\ n > nextBlock
    THEN Lesser(knownHighestNumber, (CHOOSE n \in DOMAIN m_blocks : IsTop(m_blocks, n)) - 1)
    ELSE knownHighestNumber

WaitForCommit == blockNumber < executedBlock /\ DOMAIN m_commitQueue # {}

Finished == m_maxRequestNumber <= blockNumber \/ m_maxRequestNumber <= executedBlock

MayRequest ==
    /\ ShouldSyncing
    /\ isSyncing => Finished
    /\ blockNumber < RequestToNumber

(* requestBlocks(from, to): in each of MaxShardPerPeer rounds every peer   *)
(* that has the known highest block is asked for the next shard.           *)
Qualified == {p \in Peers : peerNumber[p] >= knownHighestNumber}

LastRequested(from, to) ==
    LET shardNumber == (to - from + MaxRequestBlocks - 1) \div MaxRequestBlocks
        shards == Lesser(shardNumber, MaxShardPerPeer * Cardinality(Qualified))
    IN  Lesser(from + shards * MaxRequestBlocks, to)

RequestBlocks(from, to) ==
    LET last == LastRequested(from, to)
    IN  /\ m_state' = "Downloading"
        /\ m_downloadingTimer' = TRUE
        /\ m_maxRequestNumber' = IF last > from THEN Greater(m_maxRequestNumber, last)
                                                ELSE m_maxRequestNumber

(* External: the peers answer each request block by block.                 *)
PeersAnswer(from, to) ==
    LET asked == {n \in (from + 1) .. LastRequested(from, to) : Copies(n, responses) < MaxCopies}
    IN  responses' = responses (+) SetToBag(asked)

TryToRequestBlocks ==
    /\ pc = "request"
    /\ CommitQueueFree
    /\ \/ WaitForCommit /\ UNCHANGED <<download, responses>>
       \/ ~WaitForCommit /\ ~MayRequest /\ Finished /\ DownloadFinish /\ UNCHANGED responses
       \/ ~WaitForCommit /\ ~MayRequest /\ ~Finished /\ UNCHANGED <<download, responses>>
       \/ /\ ~WaitForCommit /\ MayRequest
          /\ RequestBlocks(blockNumber, RequestToNumber)
          /\ PeersAnswer(blockNumber, RequestToNumber)
    /\ Goto("idle")
    /\ UNCHANGED <<config, queues, m_commitQueue, jobs, services, failures, peerNumber>>

DownloadTask ==
    \/ MaintainDownloadingBuffer \/ FlushBufferToQueue
    \/ MaintainDownloadingQueue
    \/ ExpireLoop \/ ExpireTop \/ ExpirePop
    \/ LimitExecuted \/ CheckContinuous
    \/ TakeExpectedBlock \/ TakeTop \/ GrabBlock
    \/ ApplyGrabbedBlock \/ IgnoreBlock \/ AssignPublished
    \/ TryToRequestBlocks

-----------------------------------------------------------------------------
(* The handlers and the environment *)

Running == pc # "crashed"

(* A callback of the scheduler, ledger or consensus module for height n.   *)
Callback(n) == JobStep(n) /\ UNCHANGED <<download, network, task>>

(* onPeerStatus: a node outside the group is heard only when it is ahead.  *)
(* A status older than the last one heard is one that was overtaken.       *)
OnPeerStatus(p, n) ==
    /\ Running
    /\ n # peerNumber[p]
    /\ p \in Group \/ n > blockNumber
    /\ IF n < peerNumber[p] THEN Fails("status") ELSE UNCHANGED failures
    /\ peerNumber' = [peerNumber EXCEPT ![p] = n]
    /\ UpdateKnownMaxBlockInfo(n)
    /\ UNCHANGED <<queues, m_commitQueue, jobs, services, download, responses, task>>

(* maintainPeersConnection deletes a peer: disconnected, or outside the    *)
(* group and not ahead.                                                    *)
DeletePeer(p) ==
    /\ Running
    /\ peerNumber[p] # 0
    /\ \/ p \notin Group /\ blockNumber >= peerNumber[p] /\ UNCHANGED failures
       \/ Fails("connection")
    /\ peerNumber' = [peerNumber EXCEPT ![p] = 0]
    /\ UNCHANGED <<config, queues, m_commitQueue, jobs, services, download, responses, task>>

(* onPeerBlocks; push waits for x_blockBuffer.                             *)
OnPeerBlocks(n) ==
    /\ Running /\ pc # "flush"
    /\ n \in DOMAIN responses
    /\ responses' = Without(responses, n)
    /\ Push(n)
    /\ UNCHANGED <<config, m_blocks, m_commitQueue, jobs, services, failures, download,
                   peerNumber, task>>

(* A request, its answer or the decoding of it fails.                      *)
LoseResponse(n) ==
    /\ n \in DOMAIN responses
    /\ Fails("response")
    /\ responses' = Without(responses, n)
    /\ UNCHANGED <<config, queues, m_commitQueue, jobs, services, download, peerNumber, task>>

AllProcessed ==
    /\ pc \notin {"take", "takeTop", "grab", "apply", "ignore", "assign"}
    /\ responses = EmptyBag
    /\ jobs = EmptyBag
    /\ m_blockBuffer = <<>>
    /\ \A n \in DOMAIN m_blocks : n > executedBlock + 1

(* The timer takes 51.2 s: to fire earlier than AllProcessed is a failure  *)
(* (of the peers or of this node to keep up with it).                      *)
OnDownloadTimeout ==
    /\ Running
    /\ m_downloadingTimer
    /\ IF AllProcessed THEN UNCHANGED failures ELSE Fails("timeout")
    /\ DownloadFinish
    /\ UNCHANGED <<config, queues, m_commitQueue, jobs, services, network, task>>

(* The consensus module has agreed on the block after the ledger's last.   *)
AsyncNotifyCommittedIndex ==
    /\ Running /\ ConsensusActive
    /\ ledger < MaxBlock
    /\ committedProposalNumber <= ledger
    /\ SetCommittedProposalNumber(ledger + 1)
    /\ UNCHANGED <<queues, m_commitQueue, jobs, services, failures, download, network, task>>

(* ... and has committed it, racing with the blocks this module commits.   *)
ConsensusCommit ==
    /\ Running /\ ConsensusActive
    /\ committedProposalNumber > ledger
    /\ Pipeline < MaxPipeline
    /\ ledger' = ledger + 1
    /\ stateHeight' = Greater(stateHeight, ledger + 1)
    /\ jobs' = With(jobs, Job("notify", ledger + 1))
    /\ UNCHANGED <<config, queues, m_commitQueue, failures, download, network, task>>

(* The process dies, its memory and its connections with it; blockNumber   *)
(* stays as the last height this module published.                         *)
Die ==
    /\ pc' = "crashed" /\ executed' = 0 /\ block' = 0
    /\ m_blockBuffer' = <<>>
    /\ m_blocks' = EmptyBag
    /\ m_commitQueue' = EmptyBag
    /\ jobs' = EmptyBag
    /\ m_state' = "Idle" /\ m_downloadingTimer' = FALSE /\ m_maxRequestNumber' = 0
    /\ peerNumber' = [p \in Peers |-> 0]
    /\ responses' = EmptyBag
    /\ UNCHANGED <<config, services>>

(* A null block is dereferenced: the queue was emptied between two top().  *)
NullDereference ==
    /\ pc \in {"expireTop", "continuous", "takeTop", "grab"}
    /\ DOMAIN m_blocks = {}
    /\ Die
    /\ UNCHANGED failures

Crash ==
    /\ Running
    /\ Fails("crash")
    /\ Die

(* A new process: init reads the ledger's height.                          *)
Restart ==
    /\ pc = "crashed"
    /\ blockNumber' = ledger
    /\ nextBlock' = ledger + 1
    /\ executedBlock' = ledger
    /\ knownHighestNumber' = ledger
    /\ committedProposalNumber' = 0
    /\ stateHeight' = ledger
    /\ Goto("idle")
    /\ UNCHANGED <<queues, m_commitQueue, jobs, ledger, failures, download, network>>

Next ==
    \/ DownloadTask
    \/ \E j \in DOMAIN jobs : Callback(j.num)
    \/ \E p \in Peers, n \in StatusNumbers : OnPeerStatus(p, n)
    \/ \E p \in Peers : DeletePeer(p)
    \/ \E n \in DOMAIN responses : OnPeerBlocks(n) \/ LoseResponse(n)
    \/ OnDownloadTimeout
    \/ AsyncNotifyCommittedIndex \/ ConsensusCommit
    \/ NullDereference \/ Crash \/ Restart

Spec == Init /\ [][Next]_vars

(***************************************************************************)
(* The worker loop reposts the Download task for ever, and the pool, the   *)
(* timer, the front service and the other modules' threads all run.  The   *)
(* modules called answer, with success or with an error; a response is     *)
(* delivered unless it is lost, and the peers, which broadcast their       *)
(* status in every turn of their own loop, report their height.            *)
(***************************************************************************)
Fairness ==
    /\ WF_vars(DownloadTask \/ NullDereference)
    /\ \A n \in 0 .. MaxBlock : WF_vars(Callback(n))
    /\ \A n \in 1 .. MaxBlock : SF_vars(OnPeerBlocks(n))
    /\ \A p \in Peers : WF_vars(MaxBlock \in StatusNumbers /\ OnPeerStatus(p, MaxBlock))
    /\ WF_vars(OnDownloadTimeout)
    /\ WF_vars(ConsensusCommit)
    /\ WF_vars(Restart)

FairSpec == Spec /\ Fairness

(* ... and every single call is answered, whatever other chains for the    *)
(* same height do: what fails even so is not for want of an answer.        *)
AnswerFairness ==
    \A s \in Stages, n \in 0 .. MaxBlock : WF_vars(Callback(n) /\ Takes(s, n))

AnsweredSpec == FairSpec /\ AnswerFairness

(* All that publishing a committed block needs: the thread that brings the *)
(* news of it runs, and a crashed process is started again.                *)
PublishFairness ==
    /\ \A s \in {"notify", "committed", "published", "level"}, n \in 1 .. MaxBlock :
           WF_vars(Callback(n) /\ Takes(s, n))
    /\ WF_vars(Restart)

PublishSpec == Spec /\ PublishFairness

-----------------------------------------------------------------------------
(* Properties *)

(* No block is checked, stored or committed before its predecessor is      *)
(* published: tryToCommitBlockToLedger and checkAndCommitBlock let only    *)
(* the next block through, whatever was queued twice or arrived early.     *)
CommitsInOrder ==
    \A j \in DOMAIN jobs :
        j.stage \in {"select", "check", "store", "commit"} => j.num <= blockNumber + 1

(* A block in the ledger is published, or the callback that will publish   *)
(* it (finalizeBlock's, or asyncNotifyNewBlock's) is on its way: no error  *)
(* path and no race between this module and consensus loses it.            *)
LedgerPublished ==
    \/ blockNumber = ledger
    \/ pc = "crashed"
    \/ blockNumber < ledger /\ \E s \in {"notify", "committed"} : InFlight(s, ledger)

(* No error path and no race makes the executed height claim a block that  *)
(* the scheduler has not executed: whatever maintainDownloadingQueue skips *)
(* as executed really is.                                                  *)
ExecutedInState == executedBlock <= stateHeight

(* The node's chain is an append-only ledger whose every block is          *)
(* eventually published, in order and never ahead of the ledger.           *)
Chain == INSTANCE PublishedLedger WITH committed <- ledger, published <- blockNumber

ChainSafe == Chain!Safe

ChainSpec == Chain!Spec

(* A node that is behind the peers' chain catches up with it: whatever     *)
(* was lost on the way is requested again.                                 *)
CatchUp == <>[](blockNumber = MaxBlock)

(* tryToRequestBlocks' wait for the downloaded blocks to be committed ends *)
(* and lets the next batch be requested, as its comment says.              *)
CommitWaitEnds == WaitForCommit ~> ~WaitForCommit

(* A block that was requested and lost is requested again: the requester   *)
(* has the retry logic that DownloadRequestQueue::push counts on.          *)
LostBlockRequested ==
    (ShouldSyncing /\ AllProcessed) ~> (responses # EmptyBag \/ ~ShouldSyncing)

=============================================================================
