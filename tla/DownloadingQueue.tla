-------------------------- MODULE DownloadingQueue --------------------------
(***************************************************************************)
(* bcos-sync/state/DownloadingQueue: the buffer of received block messages, *)
(* the queue of downloaded blocks, the queue of executed blocks, and the    *)
(* chain of asynchronous callbacks that executes, checks, stores and        *)
(* commits a block.                                                         *)
(*                                                                          *)
(* A block is its height.  Both priority queues are bags of heights, their  *)
(* top a least height (BlockCmp): a height may be queued more than once     *)
(* when it was requested more than once.  A block message holds one block,  *)
(* as BlockSync::fetchAndSendBlock makes them.                              *)
(*                                                                          *)
(* A callback chain in flight is a job [stage, num]; every stage is one     *)
(* step taken by a thread of the scheduler, ledger or consensus module:     *)
(*   execute    executeBlock has been called                                *)
(*   raise      executed; setExecutedBlock(num) has passed its guard        *)
(*   queue      about to call updateCommitQueue                             *)
(*   select     taken off the commit queue; holds x_commitQueue             *)
(*   check      asyncCheckBlock has been called                             *)
(*   store      asyncStoreTransactions has been called                      *)
(*   commit     scheduler commitBlock has been called                       *)
(*   notify     asyncNotifyNewBlock has been called by the consensus module *)
(*   committed  about to call resetConfig(num)                              *)
(*   published  resetConfig has assigned m_blockNumber; holds m_mutex       *)
(*   level      ... and found m_executedBlock below num; holds m_mutex      *)
(*   finalize   about to clear the expired blocks                           *)
(*   proceed    about to commit the next block                              *)
(*   reset      setExecutedBlock(num) has been called                       *)
(*   assign     setExecutedBlock(num) has passed its guard                  *)
(***************************************************************************)
EXTENDS BlockSyncConfig, Bags, Sequences, FiniteSets

CONSTANTS
    QueueLimit,   \* maxDownloadingBlockQueueSize (256 in the code)
    EmptyBlocks,  \* the heights of the blocks that carry no transaction
    FailOps,      \* the external operations that may fail
    MaxFailures,  \* bound: how many of them fail in one behaviour
    MaxPipeline   \* bound: callback chains in flight and blocks waiting to be
                  \* committed when a new chain is started

ASSUME QueueAssumption ==
    /\ QueueLimit \in Nat \ {0}
    /\ EmptyBlocks \subseteq Nat
    /\ MaxFailures \in Nat
    /\ MaxPipeline \in Nat

VARIABLES
    m_blockBuffer,  \* block messages received and not yet decoded, oldest first
    m_blocks,       \* downloaded blocks waiting to be executed
    m_commitQueue,  \* executed blocks waiting to be committed
    jobs,           \* bag of callback chains in flight
    ledger,         \* external: the height of the ledger's last committed block
    stateHeight,    \* external: the height the scheduler's state has been executed to
    failures        \* external: the failures still to come

queues == <<m_blockBuffer, m_blocks>>
services == <<ledger, stateHeight>>

Stages == {"execute", "raise", "queue", "select", "check", "store", "commit",
           "notify", "committed", "published", "level", "finalize", "proceed",
           "reset", "assign"}

Job(s, n) == [stage |-> s, num |-> n]

QueueTypeOK ==
    /\ m_blockBuffer \in Seq(Nat)
    /\ IsABag(m_blocks) /\ DOMAIN m_blocks \subseteq Nat
    /\ IsABag(m_commitQueue) /\ DOMAIN m_commitQueue \subseteq Nat
    /\ IsABag(jobs) /\ DOMAIN jobs \subseteq [stage : Stages, num : Nat]
    /\ ledger \in Nat
    /\ stateHeight \in Nat
    /\ failures \in Nat

QueueInit ==
    /\ m_blockBuffer = <<>>
    /\ m_blocks = EmptyBag
    /\ m_commitQueue = EmptyBag
    /\ jobs = EmptyBag
    /\ ledger = 0
    /\ stateHeight = 0
    /\ failures = MaxFailures

-----------------------------------------------------------------------------
(* Bags of heights and of jobs *)

With(b, e) == b (+) SetToBag({e})
Without(b, e) == b (-) SetToBag({e})
Copies(e, b) == IF e \in DOMAIN b THEN b[e] ELSE 0

(* DownloadingQueue::top: n is the height of the block on top of q.        *)
IsTop(q, n) == n \in DOMAIN q /\ \A k \in DOMAIN q : n <= k

(* clearExpiredCache: q without the blocks that are already published.     *)
ClearExpired(q) == [k \in {n \in DOMAIN q : n > blockNumber} |-> q[k]]

(* commitQueueSize, clearExpiredCache and tryToCommitBlockToLedger wait    *)
(* for x_commitQueue, held from the choice of a block until                *)
(* asyncCheckBlock has been called for it.                                 *)
CommitQueueFree == \A j \in DOMAIN jobs : j.stage # "select"

(* m_mutex is held while resetConfig assigns the counters.                 *)
ConfigFree == \A j \in DOMAIN jobs : j.stage \notin {"published", "level"}

(* Mutant: any executed block may be taken, not only the next one.         *)
TryToCommitAnyBlock(q, js) ==
    LET live == ClearExpired(q)
    IN  /\ CommitQueueFree
        /\ IF DOMAIN live # {}
           THEN \E n \in DOMAIN live :
                   /\ IsTop(live, n)
                   /\ m_commitQueue' = Without(live, n)
                   /\ jobs' = With(js, Job("select", n))
           ELSE /\ m_commitQueue' = live
                /\ jobs' = js

(***************************************************************************)
(* tryToCommitBlockToLedger on commit queue q, with the callback chains js *)
(* in flight: drop the expired blocks, and take the next block to commit   *)
(* if it is there.                                                         *)
(***************************************************************************)
TryToCommitBlockToLedger(q, js) ==
    LET live == ClearExpired(q)
    IN  /\ CommitQueueFree
        /\ IF IsTop(live, nextBlock)
           THEN /\ m_commitQueue' = Without(live, nextBlock)
                /\ jobs' = With(js, Job("select", nextBlock))
           ELSE /\ m_commitQueue' = live
                /\ jobs' = js

(***************************************************************************)
(* The steps of a callback chain for height n.  Becomes(s, t) moves it to  *)
(* its next stage; a failure, the environment's choice, abandons it and    *)
(* calls setExecutedBlock(v) so that the block is fetched again.           *)
(***************************************************************************)
Pipeline == BagCardinality(jobs) + BagCardinality(m_commitQueue)

InFlight(s, n) == Job(s, n) \in DOMAIN jobs

Becomes(s, t, n) == jobs' = With(Without(jobs, Job(s, n)), Job(t, n))

Abandon(s, n, v) == jobs' = With(Without(jobs, Job(s, n)), Job("reset", v))

Fails(op) ==
    /\ op \in FailOps
    /\ failures > 0
    /\ failures' = failures - 1

(* The block's header has the hash that execution gave, which takes the    *)
(* state its predecessor left.                                             *)
VerifyExecutedBlock(n) == n <= stateHeight + 1

(* applyBlock's callback: executed and verified.                           *)
BlockExecuted(n) ==
    /\ InFlight("execute", n)
    /\ VerifyExecutedBlock(n)
    /\ stateHeight' = IF n > stateHeight THEN n ELSE stateHeight
    /\ Becomes("execute", IF MayAssignExecuted(n) THEN "raise" ELSE "queue", n)
    /\ UNCHANGED <<config, queues, m_commitQueue, ledger, failures>>

(* Mutant: the failed block counts as executed.                            *)
BlockNotExecutedIgnored(n) ==
    /\ InFlight("execute", n)
    /\ \/ ~VerifyExecutedBlock(n) /\ UNCHANGED failures
       \/ Fails("execute")
    /\ Abandon("execute", n, n)
    /\ UNCHANGED <<config, queues, m_commitQueue, services>>

(* applyBlock's callback: an error, or the hash is not the header's.       *)
BlockNotExecuted(n) ==
    /\ InFlight("execute", n)
    /\ \/ ~VerifyExecutedBlock(n) /\ UNCHANGED failures
       \/ Fails("execute")
    /\ Abandon("execute", n, blockNumber)
    /\ UNCHANGED <<config, queues, m_commitQueue, services>>

RaiseExecutedBlock(n) ==
    /\ InFlight("raise", n)
    /\ AssignExecuted(n)
    /\ Becomes("raise", "queue", n)
    /\ UNCHANGED <<queues, m_commitQueue, services, failures>>

UpdateCommitQueue(n) ==
    /\ InFlight("queue", n)
    /\ TryToCommitBlockToLedger(With(m_commitQueue, n), Without(jobs, Job("queue", n)))
    /\ UNCHANGED <<config, queues, services, failures>>

(* checkAndCommitBlock, up to the call of asyncCheckBlock.                 *)
CheckAndCommitBlock(n) ==
    /\ InFlight("select", n)
    /\ IF n # nextBlock
       THEN Abandon("select", n, blockNumber)
       ELSE Becomes("select", "check", n)
    /\ UNCHANGED <<config, queues, m_commitQueue, services, failures>>

(* The callback of asyncCheckBlock, valid signatures: commitBlock.  For an *)
(* empty block commitBlockState is called before asyncStoreTransactions,   *)
(* and, as there is no return, again once the store has succeeded.         *)
CommitBlock(n) ==
    /\ InFlight("check", n)
    /\ LET js == With(Without(jobs, Job("check", n)), Job("store", n))
       IN  jobs' = IF n \in EmptyBlocks THEN With(js, Job("commit", n)) ELSE js
    /\ UNCHANGED <<config, queues, m_commitQueue, services, failures>>

(* Mutant: one block too many is fetched again.                            *)
BlockNotCheckedOffByOne(n) ==
    /\ InFlight("check", n)
    /\ Fails("check")
    /\ Abandon("check", n, n - 2)
    /\ UNCHANGED <<config, queues, m_commitQueue, services>>

(* The callback of asyncCheckBlock: an error, or invalid signatures.       *)
BlockNotChecked(n) ==
    /\ InFlight("check", n)
    /\ Fails("check")
    /\ Abandon("check", n, n - 1)
    /\ UNCHANGED <<config, queues, m_commitQueue, services>>

(* The callback of asyncStoreTransactions.                                 *)
TransactionsStored(n) ==
    /\ InFlight("store", n)
    /\ Becomes("store", "commit", n)
    /\ UNCHANGED <<config, queues, m_commitQueue, services, failures>>

TransactionsNotStored(n) ==
    /\ InFlight("store", n)
    /\ Fails("store")
    /\ Abandon("store", n, n - 1)
    /\ UNCHANGED <<config, queues, m_commitQueue, services>>

(* The scheduler commits a block only on top of the ledger's last one.     *)
BlockCommitted(n) ==
    /\ InFlight("commit", n)
    /\ n = ledger + 1
    /\ ledger' = n
    /\ Becomes("commit", "committed", n)
    /\ UNCHANGED <<stateHeight, config, queues, m_commitQueue, failures>>

BlockNotCommitted(n) ==
    /\ InFlight("commit", n)
    /\ \/ n # ledger + 1 /\ UNCHANGED failures
       \/ Fails("commit")
    /\ Abandon("commit", n, n - 1)
    /\ UNCHANGED <<config, queues, m_commitQueue, services>>

(* Mutant: the block right after the published one counts as old news.     *)
AsyncNotifyNewBlockOffByOne(n) ==
    /\ InFlight("notify", n)
    /\ IF n > blockNumber + 1
       THEN Becomes("notify", "committed", n)
       ELSE jobs' = Without(jobs, Job("notify", n))
    /\ UNCHANGED <<config, queues, m_commitQueue, services, failures>>

(* BlockSync::asyncNotifyNewBlock: old news is dropped.                    *)
AsyncNotifyNewBlock(n) ==
    /\ InFlight("notify", n)
    /\ IF n > blockNumber
       THEN Becomes("notify", "committed", n)
       ELSE jobs' = Without(jobs, Job("notify", n))
    /\ UNCHANGED <<config, queues, m_commitQueue, services, failures>>

(* onNewBlock: resetConfig publishes the new height, ...                   *)
OnNewBlock(n) ==
    /\ InFlight("committed", n)
    /\ IF IsNewHeight(n)
       THEN ConfigFree /\ PublishNumber(n) /\ Becomes("committed", "published", n)
       ELSE UNCHANGED config /\ Becomes("committed", "finalize", n)
    /\ UNCHANGED <<queues, m_commitQueue, services, failures>>

(* ... raises the other counters, and compares the executed height, ...    *)
ResetBlockInfo(n) ==
    /\ InFlight("published", n)
    /\ PublishNextBlock(n)
    /\ Becomes("published", IF n > executedBlock THEN "level" ELSE "finalize", n)
    /\ UNCHANGED <<queues, m_commitQueue, services, failures>>

(* ... which somebody else may have assigned meanwhile.                    *)
LevelExecutedBlock(n) ==
    /\ InFlight("level", n)
    /\ AssignExecuted(n)
    /\ Becomes("level", "finalize", n)
    /\ UNCHANGED <<queues, m_commitQueue, services, failures>>

(* The rest of onNewBlock, clearExpiredQueueCache: it has no need of       *)
(* x_commitQueue until the downloaded blocks are cleared.                  *)
FinalizeBlock(n) ==
    /\ InFlight("finalize", n)
    /\ m_blocks' = ClearExpired(m_blocks)
    /\ Becomes("finalize", "proceed", n)
    /\ UNCHANGED <<config, m_blockBuffer, m_commitQueue, services, failures>>

(* The executed blocks are cleared by clearExpiredQueueCache and again by  *)
(* the tryToCommitBlockToLedger that ends finalizeBlock and                *)
(* asyncNotifyNewBlock.                                                    *)
CommitNextBlock(n) ==
    /\ InFlight("proceed", n)
    /\ TryToCommitBlockToLedger(m_commitQueue, Without(jobs, Job("proceed", n)))
    /\ UNCHANGED <<config, queues, services, failures>>

(* setExecutedBlock(v), its guard and its assignment.                      *)
SetExecutedBlock(v) ==
    /\ InFlight("reset", v)
    /\ IF MayAssignExecuted(v)
       THEN Becomes("reset", "assign", v)
       ELSE jobs' = Without(jobs, Job("reset", v))
    /\ UNCHANGED <<config, queues, m_commitQueue, services, failures>>

AssignExecutedBlock(v) ==
    /\ InFlight("assign", v)
    /\ AssignExecuted(v)
    /\ jobs' = Without(jobs, Job("assign", v))
    /\ UNCHANGED <<queues, m_commitQueue, services, failures>>

(* One step of a callback chain for height n.                              *)
JobStep(n) ==
    \/ BlockExecuted(n)      \/ BlockNotExecuted(n)
    \/ RaiseExecutedBlock(n) \/ UpdateCommitQueue(n)
    \/ CheckAndCommitBlock(n)
    \/ CommitBlock(n)        \/ BlockNotChecked(n)
    \/ TransactionsStored(n) \/ TransactionsNotStored(n)
    \/ BlockCommitted(n)     \/ BlockNotCommitted(n)
    \/ AsyncNotifyNewBlock(n)
    \/ OnNewBlock(n)         \/ ResetBlockInfo(n) \/ LevelExecutedBlock(n)
    \/ FinalizeBlock(n)      \/ CommitNextBlock(n)
    \/ SetExecutedBlock(n)   \/ AssignExecutedBlock(n)

(* The step takes a chain out of stage s.                                  *)
Takes(s, n) == Copies(Job(s, n), jobs') < Copies(Job(s, n), jobs)

-----------------------------------------------------------------------------
(* What the threads of BlockSync do to the two queues *)

(* push: a message received when the buffer is full is dropped.            *)
Push(n) ==
    m_blockBuffer' = IF Len(m_blockBuffer) >= QueueLimit
                     THEN m_blockBuffer
                     ELSE Append(m_blockBuffer, n)

Clear ==
    /\ m_blockBuffer' = <<>>
    /\ m_blocks' = EmptyBag

(* clearFullQueueIfNotHas: a full queue whose top is beyond height n is no *)
(* use, and is emptied.                                                    *)
ClearFullQueueIfNotHas(n) ==
    m_blocks' = IF /\ BagCardinality(m_blocks) = QueueLimit
                   /\ \A k \in DOMAIN m_blocks : k > n
                THEN EmptyBag
                ELSE m_blocks

(* flushOneShard, for the block message taken off the buffer's front: lost *)
(* when the queue is full.                                                 *)
IsNewerBlock(n) == n > blockNumber

QueueFull == BagCardinality(m_blocks) >= QueueLimit

FlushOneShard(n) ==
    m_blocks' = IF ~QueueFull /\ IsNewerBlock(n) THEN With(m_blocks, n) ELSE m_blocks

(* pop: drop whatever block is now on top.                                 *)
Pop ==
    IF DOMAIN m_blocks = {}
    THEN UNCHANGED m_blocks
    ELSE \E n \in DOMAIN m_blocks : IsTop(m_blocks, n) /\ m_blocks' = Without(m_blocks, n)

(* applyBlock(n), when it calls executeBlock.                              *)
ApplyBlock(n) == jobs' = With(jobs, Job("execute", n))

=============================================================================
