-------------------------- MODULE SyncNetworkProofs --------------------------
(***************************************************************************)
(* For all values of the constants, of the two nodes together: each keeps  *)
(* what was proved of it alone, and nothing goes round between them but    *)
(* blocks that the server has.                                             *)
(***************************************************************************)
EXTENDS SyncNetwork, BlockSyncProofs

(* The server of SyncNetwork, with what was proved of it.                  *)
Proved == INSTANCE BlockServingProofs WITH
    Peers <- {Requester}, Group <- {Requester}, Requests <- {},
    FailOps <- Faults, MaxFailures <- MaxFaults,
    m_peersStatus <- sTable, m_reqQueue <- sQueue, created <- sCreated,
    handlers <- sHandlers, received <- sReceived,
    pc <- sPc, todo <- sTodo, peer <- sPeer, range <- sRange, number <- sNumber,
    reads <- sReads, responses <- sResponses, failures <- sFailures

(* Its constants are as its module assumes.                                *)
LEMMA ServerAssumption ==
    /\ {Requester} \subseteq {Requester}
    /\ RequestLimit \in Nat \ {0}
    /\ {} \subseteq Proved!Ranges
    /\ MaxFaults \in Nat
    /\ MaxRequests \in Nat
  BY NetworkAssumption

(* The definitions of the two instances are the same.                      *)
LEMMA SameOwed ==
    /\ \A p : Serving!Owed(p) = Proved!Owed(p)
    /\ \A r : Serving!Heights(r) = Proved!Heights(r)
  BY DEF Serving!Owed, Serving!Queued, Serving!Merging, Serving!Fetching, Serving!Reading,
     Serving!Heights, Proved!Owed, Proved!Queued, Proved!Merging, Proved!Fetching, Proved!Reading,
     Proved!Heights

(* So are the initial states ...                                           *)
LEMMA SameInit == Serving!Init <=> Proved!Init
  BY DEF Serving!Init, Serving!Nothing, Serving!EmptyBag, Serving!SetToBag,
     Proved!Init, Proved!Nothing, Proved!EmptyBag, Proved!SetToBag

(* ... the size of a queue ...                                             *)
LEMMA SameSize == \A q : Serving!QueueSize(q) = Proved!QueueSize(q)
  BY DEF Serving!QueueSize, Serving!Slots, Serving!Cardinality,
     Proved!QueueSize, Proved!Slots, Proved!Cardinality

(* ... the handlers ...                                                    *)
LEMMA SameHandlers ==
    /\ \A p, r : Serving!OnPeerBlocksRequest(p, r) => Proved!OnPeerBlocksRequest(p, r)
    /\ \A h : Serving!InsertEmptyPeer(h) => Proved!InsertEmptyPeer(h)
    /\ \A h : Serving!PushRequest(h) => Proved!PushRequest(h)
    /\ \A p : Serving!UpdatePeerStatus(p) => Proved!UpdatePeerStatus(p)
    /\ \A p : Serving!DeletePeer(p) => Proved!DeletePeer(p)
  <1>1. \A p, r : Serving!OnPeerBlocksRequest(p, r) => Proved!OnPeerBlocksRequest(p, r)
    BY DEF Serving!OnPeerBlocksRequest, Serving!table, Serving!task, Proved!OnPeerBlocksRequest,
       Proved!table, Proved!task
  <1>2. \A h : Serving!InsertEmptyPeer(h) => Proved!InsertEmptyPeer(h)
    BY DEF Serving!InsertEmptyPeer, Serving!TableFree, Serving!Insert, Serving!table, Serving!task,
       Serving!EmptyBag, Serving!SetToBag, Proved!InsertEmptyPeer, Proved!TableFree, Proved!Insert,
       Proved!table, Proved!task, Proved!EmptyBag, Proved!SetToBag
  <1>3. \A h : Serving!PushRequest(h) => Proved!PushRequest(h)
    BY SameSize DEF Serving!PushRequest, Serving!Push, Serving!QueueFree, Serving!QueueFull,
       Serving!task, Serving!With, Serving!(+), Serving!SetToBag,
       Proved!PushRequest, Proved!Push, Proved!QueueFree, Proved!QueueFull, Proved!task, Proved!With, Proved!(+), Proved!SetToBag
  <1>4. \A p : Serving!UpdatePeerStatus(p) => Proved!UpdatePeerStatus(p)
    BY DEF Serving!UpdatePeerStatus, Serving!TableFree, Serving!Insert, Serving!calls,
       Serving!task, Serving!EmptyBag, Serving!SetToBag, Proved!UpdatePeerStatus, Proved!TableFree,
       Proved!Insert, Proved!calls, Proved!task, Proved!EmptyBag, Proved!SetToBag
  <1>5. \A p : Serving!DeletePeer(p) => Proved!DeletePeer(p)
    BY DEF Serving!DeletePeer, Serving!TableFree, Serving!Fails, Serving!calls, Serving!task,
       Serving!EmptyBag, Serving!SetToBag, Proved!DeletePeer, Proved!TableFree, Proved!Fails,
       Proved!calls, Proved!task, Proved!EmptyBag, Proved!SetToBag
  <1> QED
    BY <1>1, <1>2, <1>3, <1>4, <1>5

(* ... the SyncSend task ...                                               *)
LEMMA SameTask ==
    /\ Serving!MaintainBlockRequest => Proved!MaintainBlockRequest
    /\ Serving!NextPeer => Proved!NextPeer
    /\ Serving!ServePeer => Proved!ServePeer
    /\ Serving!TopAndPop => Proved!TopAndPop
    /\ Serving!FetchAndSendBlock => Proved!FetchAndSendBlock
  <1>1. Serving!MaintainBlockRequest => Proved!MaintainBlockRequest
    BY DEF Serving!MaintainBlockRequest, Serving!table, Serving!calls, Proved!MaintainBlockRequest,
       Proved!table, Proved!calls
  <1>2. Serving!NextPeer => Proved!NextPeer
    BY DEF Serving!NextPeer, Serving!table, Serving!calls, Proved!NextPeer, Proved!table,
       Proved!calls
  <1>3. Serving!ServePeer => Proved!ServePeer
    BY DEF Serving!ServePeer, Serving!IsTop, Serving!table, Serving!calls, Proved!ServePeer,
       Proved!IsTop, Proved!table, Proved!calls
  <1>4. Serving!TopAndPop => Proved!TopAndPop
    BY DEF Serving!TopAndPop, Serving!Mergeable, Serving!IsTop, Serving!Merged, Serving!calls,
       Serving!Without, Serving!(-), Serving!SetToBag, Proved!TopAndPop, Proved!Mergeable,
       Proved!IsTop, Proved!Merged, Proved!calls, Proved!Without, Proved!(-), Proved!SetToBag
  <1>5. Serving!FetchAndSendBlock => Proved!FetchAndSendBlock
    BY DEF Serving!FetchAndSendBlock, Serving!Nothing, Serving!table, Serving!calls, Serving!With,
       Serving!(+), Serving!SetToBag, Proved!FetchAndSendBlock, Proved!Nothing, Proved!table,
       Proved!calls, Proved!With, Proved!(+), Proved!SetToBag
  <1> QED
    BY <1>1, <1>2, <1>3, <1>4, <1>5

(* ... and the callbacks and the network.                                  *)
LEMMA SameReads ==
    /\ \A k : Serving!BlockRead(k) => Proved!BlockRead(k)
    /\ \A k : Serving!BlockNotRead(k) => Proved!BlockNotRead(k)
    /\ \A k : Serving!BlockNotSent(k) => Proved!BlockNotSent(k)
    /\ \A m : Serving!Deliver(m) => Proved!Deliver(m)
    /\ \A op : Serving!Fails(op) => Proved!Fails(op)
  <1>1. \A k : Serving!BlockRead(k) => Proved!BlockRead(k)
    BY DEF Serving!BlockRead, Serving!table, Serving!calls, Serving!task, Serving!With,
       Serving!(+), Serving!Without, Serving!(-), Serving!SetToBag, Proved!BlockRead, Proved!table,
       Proved!calls, Proved!task, Proved!With, Proved!(+), Proved!Without, Proved!(-),
       Proved!SetToBag
  <1>2. \A k : Serving!BlockNotRead(k) => Proved!BlockNotRead(k)
    BY SameSize DEF Serving!BlockNotRead, Serving!Fails, Serving!Push, Serving!QueueFree, Serving!QueueFull,
       Serving!calls, Serving!task, Serving!With, Serving!(+),
       Serving!Without, Serving!(-), Serving!SetToBag, Proved!BlockNotRead, Proved!Fails,
       Proved!Push, Proved!QueueFree, Proved!QueueFull, Proved!calls, Proved!task, Proved!With, Proved!(+), Proved!Without, Proved!(-),
       Proved!SetToBag
  <1>3. \A k : Serving!BlockNotSent(k) => Proved!BlockNotSent(k)
    BY DEF Serving!BlockNotSent, Serving!Fails, Serving!table, Serving!calls, Serving!task,
       Serving!Without, Serving!(-), Serving!SetToBag, Proved!BlockNotSent, Proved!Fails,
       Proved!table, Proved!calls, Proved!task, Proved!Without, Proved!(-), Proved!SetToBag
  <1>4. \A m : Serving!Deliver(m) => Proved!Deliver(m)
    BY DEF Serving!Deliver, Serving!table, Serving!calls, Serving!task, Serving!Without,
       Serving!(-), Serving!SetToBag, Proved!Deliver, Proved!table, Proved!calls, Proved!task,
       Proved!Without, Proved!(-), Proved!SetToBag
  <1>5. \A op : Serving!Fails(op) => Proved!Fails(op)
    BY DEF Serving!Fails, Proved!Fails
  <1> QED
    BY <1>1, <1>2, <1>3, <1>4, <1>5

-----------------------------------------------------------------------------
(* The inductive invariant *)

(* The requester has heard of, has been sent and works on no height that   *)
(* the server does not have.                                               *)
JobsWithin == \A j \in DOMAIN jobs : j.num <= MaxBlock
QueuesWithin ==
    /\ m_blockBuffer \in Seq(0 .. MaxBlock)
    /\ \A n \in DOMAIN m_blocks : n <= MaxBlock
    /\ \A n \in DOMAIN m_commitQueue : n <= MaxBlock
    /\ block <= MaxBlock
HeightsWithin == knownHighestNumber <= MaxBlock /\ ledger <= MaxBlock

RequesterWithin == JobsWithin /\ QueuesWithin /\ HeightsWithin

(* The requests on their way are for blocks that the server has.           *)
RequestsWithin ==
    /\ IsABag(requests) /\ DOMAIN requests \subseteq Proved!Ranges
    /\ \A r \in DOMAIN requests : Proved!Heights(r) \subseteq Existing

NetInv ==
    /\ Inv
    /\ RequesterWithin
    /\ RequestsWithin
    /\ Proved!Inv
    /\ Proved!Within(Existing)

-----------------------------------------------------------------------------
(* The requester by itself *)

(* The bounds, as numbers.                                                 *)
LEMMA WithinTypes ==
    ASSUME Inv
    PROVE  /\ MaxBlock \in Nat
           /\ blockNumber \in Nat /\ ledger \in Nat /\ knownHighestNumber \in Nat
           /\ blockNumber <= ledger
           /\ IsABag(jobs) /\ IsABag(m_blocks) /\ IsABag(m_commitQueue)
           /\ DOMAIN jobs \subseteq [stage : Stages, num : Nat]
           /\ DOMAIN m_blocks \subseteq Nat /\ DOMAIN m_commitQueue \subseteq Nat
           /\ block \in Nat
  BY SyncAssumption DEF Inv, TypeOK, ConfigTypeOK, QueueTypeOK, SyncTypeOK, Heights

(* A chain goes on with height v.                                          *)
LEMMA GoesOnWithin ==
    ASSUME Inv, JobsWithin, NEW j, NEW t, NEW v, v <= MaxBlock,
           jobs' = With(Without(jobs, j), Job(t, v))
    PROVE  JobsWithin'
  <1>1. DOMAIN jobs' \subseteq DOMAIN jobs \cup {Job(t, v)}
    BY WithinTypes, WithoutWith DEF Replaced
  <1>2. Job(t, v).num <= MaxBlock
    BY DEF Job
  <1> QED
    BY <1>1, <1>2 DEF JobsWithin

(* tryToCommitBlockToLedger starts a chain for a block that was queued.    *)
LEMMA TryToCommitWithin ==
    ASSUME Inv, NEW q, IsABag(q), DOMAIN q \subseteq Nat, \A n \in DOMAIN q : n <= MaxBlock,
           NEW js, IsABag(js), \A j \in DOMAIN js : j.num <= MaxBlock,
           TryToCommitBlockToLedger(q, js)
    PROVE  JobsWithin' /\ \A n \in DOMAIN m_commitQueue' : n <= MaxBlock
  <1>1. /\ DOMAIN m_commitQueue' \subseteq DOMAIN q
        /\ \/ DOMAIN jobs' = DOMAIN js
           \/ /\ DOMAIN jobs' = DOMAIN js \cup {Job("select", nextBlock)}
              /\ nextBlock \in DOMAIN q
    BY TryToCommitStep DEF Inv, TypeOK
  <1>2. Job("select", nextBlock).num = nextBlock
    BY DEF Job
  <1> QED
    BY <1>1, <1>2 DEF JobsWithin

(* The callback chains: an error fetches again what was fetched before.    *)
LEMMA CallbackWithin ==
    ASSUME Inv, RequesterWithin, NEW n, Callback(n)
    PROVE  RequesterWithin'
  <1> USE DEF Callback, config, queues, services, task
  <1>1. ASSUME NEW s, InFlight(s, n) PROVE n \in Nat /\ n <= MaxBlock
    BY <1>1, InFlightFacts DEF InFlight, Job, RequesterWithin, JobsWithin
  <1>2. blockNumber <= MaxBlock /\ \A k \in Nat : k <= MaxBlock => k - 1 <= MaxBlock
    BY WithinTypes DEF RequesterWithin, HeightsWithin
  <1>3. CASE \/ BlockExecuted(n) \/ BlockNotExecuted(n) \/ RaiseExecutedBlock(n)
             \/ CheckAndCommitBlock(n) \/ BlockNotChecked(n) \/ TransactionsStored(n)
             \/ TransactionsNotStored(n) \/ BlockCommitted(n) \/ BlockNotCommitted(n)
    <2>1. PICK s, t, v : /\ InFlight(s, n) /\ v \in {n, n - 1, blockNumber}
                         /\ jobs' = With(Without(jobs, Job(s, n)), Job(t, v))
      BY <1>3 DEF BlockExecuted, BlockNotExecuted, RaiseExecutedBlock, CheckAndCommitBlock,
         BlockNotChecked, TransactionsStored, TransactionsNotStored, BlockCommitted,
         BlockNotCommitted, Becomes, Abandon
    <2>2. v <= MaxBlock
      BY <1>1, <1>2, <2>1
    <2>3. JobsWithin'
      BY <2>1, <2>2, GoesOnWithin DEF RequesterWithin
    <2>4. UNCHANGED <<queues, m_commitQueue, task, knownHighestNumber>> /\ ledger' \in {ledger, n}
      BY <1>3 DEF BlockExecuted, BlockNotExecuted, RaiseExecutedBlock, CheckAndCommitBlock,
         BlockNotChecked, TransactionsStored, TransactionsNotStored, BlockCommitted,
         BlockNotCommitted, AssignExecuted
    <2> QED
      BY <1>1, <2>1, <2>3, <2>4 DEF RequesterWithin, QueuesWithin, HeightsWithin
  <1>4. CASE CommitBlock(n)
    <2> DEFINE js == With(Without(jobs, Job("check", n)), Job("store", n))
    <2>1. IsABag(js) /\ DOMAIN js \subseteq DOMAIN jobs \cup {Job("store", n)}
      <3>1. /\ IsABag(Without(jobs, Job("check", n)))
            /\ DOMAIN Without(jobs, Job("check", n)) \subseteq DOMAIN jobs
        BY WithinTypes, WithoutBag
      <3>2. /\ IsABag(js)
            /\ DOMAIN js = DOMAIN Without(jobs, Job("check", n)) \cup {Job("store", n)}
        BY <3>1, WithBag
      <3> QED
        BY <3>1, <3>2
    <2>2. jobs' = js \/ jobs' = With(js, Job("commit", n))
      BY <1>4 DEF CommitBlock
    <2> HIDE DEF js
    <2>3. DOMAIN jobs' \subseteq DOMAIN jobs \cup {Job("store", n), Job("commit", n)}
      <3>1. DOMAIN With(js, Job("commit", n)) = DOMAIN js \cup {Job("commit", n)}
        BY <2>1, WithBag
      <3> QED
        BY <2>1, <2>2, <3>1
    <2>4. n <= MaxBlock /\ Job("store", n).num = n /\ Job("commit", n).num = n
      BY <1>1, <1>4 DEF CommitBlock, Job
    <2>5. JobsWithin'
      BY <2>3, <2>4 DEF RequesterWithin, JobsWithin
    <2> QED
      BY <1>4, <2>5 DEF CommitBlock, RequesterWithin, QueuesWithin, HeightsWithin
  <1>5. CASE AsyncNotifyNewBlock(n) \/ SetExecutedBlock(n) \/ AssignExecutedBlock(n)
    <2>1. PICK s, t : /\ InFlight(s, n)
                      /\ \/ jobs' = With(Without(jobs, Job(s, n)), Job(t, n))
                         \/ jobs' = Without(jobs, Job(s, n))
      BY <1>5 DEF AsyncNotifyNewBlock, SetExecutedBlock, AssignExecutedBlock, Becomes
    <2>2. JobsWithin'
      <3>1. CASE jobs' = With(Without(jobs, Job(s, n)), Job(t, n))
        BY <1>1, <2>1, <3>1, GoesOnWithin DEF RequesterWithin
      <3>2. CASE jobs' = Without(jobs, Job(s, n))
        BY <3>2, WithinTypes, WithoutBag DEF RequesterWithin, JobsWithin
      <3> QED
        BY <2>1, <3>1, <3>2
    <2>3. UNCHANGED <<queues, m_commitQueue, task, knownHighestNumber, ledger>>
      BY <1>5 DEF AsyncNotifyNewBlock, SetExecutedBlock, AssignExecutedBlock, AssignExecuted
    <2> QED
      BY <2>2, <2>3 DEF RequesterWithin, QueuesWithin, HeightsWithin
  <1>6. CASE OnNewBlock(n) \/ ResetBlockInfo(n) \/ LevelExecutedBlock(n) \/ FinalizeBlock(n)
    <2>1. PICK s, t : InFlight(s, n) /\ jobs' = With(Without(jobs, Job(s, n)), Job(t, n))
      BY <1>6 DEF OnNewBlock, ResetBlockInfo, LevelExecutedBlock, FinalizeBlock, Becomes
    <2>2. n <= MaxBlock /\ JobsWithin'
      BY <1>1, <2>1, GoesOnWithin DEF RequesterWithin
    <2>3. /\ knownHighestNumber' \in {knownHighestNumber, n}
          /\ DOMAIN m_blocks' \subseteq DOMAIN m_blocks
          /\ UNCHANGED <<m_blockBuffer, m_commitQueue, ledger, task>>
      BY <1>6 DEF OnNewBlock, PublishNumber, ResetBlockInfo, PublishNextBlock, LevelExecutedBlock,
         AssignExecuted, FinalizeBlock, ClearExpired
    <2> QED
      BY <2>2, <2>3 DEF RequesterWithin, QueuesWithin, HeightsWithin
  <1>7. CASE UpdateCommitQueue(n)
    <2> DEFINE q == With(m_commitQueue, n)
               js == Without(jobs, Job("queue", n))
    <2>1. n \in Nat /\ n <= MaxBlock /\ TryToCommitBlockToLedger(q, js)
      BY <1>1, <1>7 DEF UpdateCommitQueue
    <2>2. IsABag(q) /\ DOMAIN q = DOMAIN m_commitQueue \cup {n}
      BY WithinTypes, WithBag
    <2>3. IsABag(js) /\ DOMAIN js \subseteq DOMAIN jobs
      BY WithinTypes, WithoutBag
    <2> HIDE DEF q, js
    <2>4. JobsWithin' /\ \A k \in DOMAIN m_commitQueue' : k <= MaxBlock
      BY <2>1, <2>2, <2>3, WithinTypes, TryToCommitWithin
         DEF RequesterWithin, JobsWithin, QueuesWithin
    <2> QED
      BY <1>7, <2>4 DEF UpdateCommitQueue, RequesterWithin, QueuesWithin, HeightsWithin
  <1>8. CASE CommitNextBlock(n)
    <2> DEFINE js == Without(jobs, Job("proceed", n))
    <2>1. TryToCommitBlockToLedger(m_commitQueue, js)
      BY <1>8 DEF CommitNextBlock
    <2>2. IsABag(js) /\ DOMAIN js \subseteq DOMAIN jobs
      BY WithinTypes, WithoutBag
    <2> HIDE DEF js
    <2>3. JobsWithin' /\ \A k \in DOMAIN m_commitQueue' : k <= MaxBlock
      BY <2>1, <2>2, WithinTypes, TryToCommitWithin DEF RequesterWithin, JobsWithin, QueuesWithin
    <2> QED
      BY <1>8, <2>3 DEF CommitNextBlock, RequesterWithin, QueuesWithin, HeightsWithin
  <1> QED
    BY <1>3, <1>4, <1>5, <1>6, <1>7, <1>8 DEF JobStep

(* The oldest message is taken off the buffer.                             *)
LEMMA HeadTail ==
    ASSUME NEW S, NEW b \in Seq(S), b # <<>>
    PROVE  Head(b) \in S /\ Tail(b) \in Seq(S)
  OBVIOUS

(* A message is put at the end of the buffer.                              *)
LEMMA AppendType ==
    ASSUME NEW S, NEW b \in Seq(S), NEW e \in S
    PROVE  Append(b, e) \in Seq(S)
  OBVIOUS

(* The blocks that wait: of the messages in the buffer, none new.          *)
LEMMA BufferWithin ==
    ASSUME Inv, RequesterWithin, MaintainDownloadingBuffer \/ FlushBufferToQueue
    PROVE  RequesterWithin'
  <1> USE DEF config, queues, services
  <1>1. m_blockBuffer \in Seq(0 .. MaxBlock) /\ IsABag(m_blocks)
    BY WithinTypes DEF RequesterWithin, QueuesWithin
  <1>2. PICK l \in {"maintain", "flush"} : Goto(l)
    BY DEF MaintainDownloadingBuffer, FlushBufferToQueue
  <1>3. block' = block /\ UNCHANGED <<config, m_commitQueue, jobs, services>>
    BY <1>2 DEF Goto, MaintainDownloadingBuffer, FlushBufferToQueue
  <1>4. m_blockBuffer' \in Seq(0 .. MaxBlock) /\ \A n \in DOMAIN m_blocks' : n <= MaxBlock
    <2>1. CASE MaintainDownloadingBuffer
      <3>1. m_blockBuffer' = m_blockBuffer \/ m_blockBuffer' = <<>>
        BY <2>1 DEF MaintainDownloadingBuffer, Clear
      <3>2. m_blocks' = m_blocks \/ m_blocks' = EmptyBag
        BY <2>1 DEF MaintainDownloadingBuffer, Clear, ClearFullQueueIfNotHas
      <3>3. <<>> \in Seq(0 .. MaxBlock)
        OBVIOUS
      <3>4. m_blockBuffer' \in Seq(0 .. MaxBlock)
        BY <1>1, <3>1, <3>3, Zenon
      <3> QED
        BY <3>2, <3>4, EmptyBagBag DEF RequesterWithin, QueuesWithin
    <2>2. CASE FlushBufferToQueue
      <3>1. CASE m_blockBuffer = <<>>
        BY <1>1, <2>2, <3>1 DEF FlushBufferToQueue, RequesterWithin, QueuesWithin
      <3>2. CASE m_blockBuffer # <<>>
        <4> DEFINE n == Head(m_blockBuffer)
        <4>1. n \in 0 .. MaxBlock /\ Tail(m_blockBuffer) \in Seq(0 .. MaxBlock)
          BY <1>1, <3>2, HeadTail
        <4>2. m_blockBuffer' = Tail(m_blockBuffer) /\ m_blocks' \in {m_blocks, With(m_blocks, n)}
          BY <2>2, <3>2 DEF FlushBufferToQueue, FlushOneShard
        <4> HIDE DEF n
        <4>3. DOMAIN With(m_blocks, n) = DOMAIN m_blocks \cup {n}
          BY <1>1, WithBag
        <4>4. \A k \in DOMAIN m_blocks' : k <= MaxBlock
          BY <4>1, <4>2, <4>3 DEF RequesterWithin, QueuesWithin
        <4> QED
          BY <4>1, <4>2, <4>4
      <3> QED
        BY <3>1, <3>2
    <2> QED
      BY <2>1, <2>2
  <1> QED
    BY <1>3, <1>4 DEF RequesterWithin, JobsWithin, QueuesWithin, HeightsWithin

(* A pop adds nothing.                                                     *)
LEMMA PopWithin ==
    ASSUME Inv, Pop
    PROVE  DOMAIN m_blocks' \subseteq DOMAIN m_blocks
  BY WithinTypes, WithoutBag DEF Pop

(* The rest of the task: the block it executes was in the queue.           *)
LEMMA TaskWithin ==
    ASSUME Inv, RequesterWithin, DownloadTask
    PROVE  RequesterWithin'
  <1> USE DEF config, queues, services
  <1>0. 0 <= MaxBlock
    BY WithinTypes
  <1>1. CASE MaintainDownloadingBuffer \/ FlushBufferToQueue
    BY <1>1, BufferWithin
  <1>2. CASE MaintainDownloadingQueue
    <2>1. CASE ~ShouldSyncing
      <3>1. /\ m_blockBuffer' = <<>> /\ m_blocks' = EmptyBag /\ block' = 0
            /\ UNCHANGED <<config, m_commitQueue, jobs, services>>
        BY <1>2, <2>1 DEF MaintainDownloadingQueue, Clear, Goto
      <3>2. m_blockBuffer' \in Seq(0 .. MaxBlock)
        BY <3>1
      <3> QED
        BY <1>0, <3>1, <3>2, EmptyBagBag DEF RequesterWithin, JobsWithin, QueuesWithin, HeightsWithin
    <2>2. CASE ShouldSyncing
      <3>1. /\ TryToCommitBlockToLedger(m_commitQueue, jobs)
            /\ UNCHANGED <<config, queues, services, block>>
        BY <1>2, <2>2 DEF MaintainDownloadingQueue
      <3>2. JobsWithin' /\ \A n \in DOMAIN m_commitQueue' : n <= MaxBlock
        BY <3>1, WithinTypes, TryToCommitWithin DEF RequesterWithin, JobsWithin, QueuesWithin
      <3> QED
        BY <3>1, <3>2 DEF RequesterWithin, QueuesWithin, HeightsWithin
    <2> QED
      BY <2>1, <2>2
  <1>3. CASE ExpireLoop \/ ExpireTop \/ LimitExecuted \/ CheckContinuous
             \/ TakeExpectedBlock \/ TakeTop \/ IgnoreBlock
    <2>1. TaskOnly /\ block' \in {block, 0}
      BY <1>3 DEF ExpireLoop, ExpireTop, LimitExecuted, CheckContinuous, TakeExpectedBlock, TakeTop,
         IgnoreBlock, Goto
    <2> QED
      BY <1>0, <2>1 DEF TaskOnly, RequesterWithin, JobsWithin, QueuesWithin, HeightsWithin
  <1>4. CASE ExpirePop
    <2>1. /\ DOMAIN m_blocks' \subseteq DOMAIN m_blocks /\ block' = block
          /\ UNCHANGED <<config, m_blockBuffer, m_commitQueue, jobs, services>>
      BY <1>4, PopWithin DEF ExpirePop, Goto
    <2> QED
      BY <2>1 DEF RequesterWithin, JobsWithin, QueuesWithin, HeightsWithin
  <1>5. CASE GrabBlock
    BY <1>5 DEF GrabBlock, TaskOnly, RequesterWithin, JobsWithin, QueuesWithin, HeightsWithin
  <1>6. CASE ApplyGrabbedBlock
    <2>1. /\ DOMAIN m_blocks' \subseteq DOMAIN m_blocks /\ block' \in {0, blockNumber}
          /\ UNCHANGED <<m_blockBuffer, m_commitQueue, services, knownHighestNumber>>
      BY <1>6, PopWithin DEF ApplyGrabbedBlock, Goto
    <2>0. blockNumber <= MaxBlock
      BY WithinTypes DEF RequesterWithin, HeightsWithin
    <2>2. jobs' \in {jobs, With(jobs, Job("execute", block))}
      BY <1>6 DEF ApplyGrabbedBlock, ApplyBlock
    <2>3. DOMAIN jobs' \subseteq DOMAIN jobs \cup {Job("execute", block)}
      BY <2>2, WithinTypes, WithBag
    <2>4. Job("execute", block).num <= MaxBlock
      BY DEF Job, RequesterWithin, QueuesWithin
    <2>5. JobsWithin'
      BY <2>3, <2>4 DEF RequesterWithin, JobsWithin
    <2> QED
      BY <1>0, <2>0, <2>1, <2>5 DEF RequesterWithin, QueuesWithin, HeightsWithin
  <1>7. CASE AssignPublished
    <2>1. block' = 0 /\ UNCHANGED <<queues, m_commitQueue, jobs, services, knownHighestNumber>>
      BY <1>7 DEF AssignPublished, AssignExecuted, Goto
    <2> QED
      BY <1>0, <2>1 DEF RequesterWithin, JobsWithin, QueuesWithin, HeightsWithin
  <1>8. CASE TryToRequestBlocks
    <2>1. UNCHANGED <<config, queues, m_commitQueue, jobs, services, block>>
      BY <1>8 DEF TryToRequestBlocks, Goto
    <2> QED
      BY <2>1 DEF RequesterWithin, JobsWithin, QueuesWithin, HeightsWithin
  <1> QED
    BY <1>1, <1>2, <1>3, <1>4, <1>5, <1>6, <1>7, <1>8 DEF DownloadTask

(* A crash forgets; a new process hears of the ledger's height.            *)
LEMMA DieWithin ==
    ASSUME Inv, RequesterWithin, NullDereference \/ Restart
    PROVE  RequesterWithin'
  <1> USE DEF config, queues, services
  <1>1. 0 <= MaxBlock /\ <<>> \in Seq(0 .. MaxBlock)
    BY WithinTypes
  <1>2. CASE NullDereference
    <2>1. /\ m_blockBuffer' = <<>> /\ m_blocks' = EmptyBag /\ m_commitQueue' = EmptyBag
          /\ jobs' = EmptyBag /\ block' = 0 /\ UNCHANGED <<config, services>>
      BY <1>2 DEF NullDereference, Die
    <2> QED
      BY <1>1, <2>1, EmptyBagBag DEF RequesterWithin, JobsWithin, QueuesWithin, HeightsWithin
  <1>3. CASE Restart
    <2>1. /\ knownHighestNumber' = ledger /\ ledger' = ledger /\ block' = block
          /\ UNCHANGED <<queues, m_commitQueue, jobs>>
      BY <1>3 DEF Restart, Goto
    <2> QED
      BY <2>1 DEF RequesterWithin, JobsWithin, QueuesWithin, HeightsWithin
  <1> QED
    BY <1>2, <1>3

-----------------------------------------------------------------------------
(* The two nodes together *)

(* The requester asks for no height beyond the known highest.              *)
LEMMA RequestToKnown ==
    ASSUME Inv
    PROVE  RequestToNumber \in Nat /\ RequestToNumber <= knownHighestNumber
  <1>1. RequestToNumber \in Nat /\ knownHighestNumber \in Nat
    BY RequestToNumberType, WithinTypes
  <1>2. PICK k : RequestToNumber \in {Lesser(knownHighestNumber, k), knownHighestNumber}
    BY DEF RequestToNumber
  <1> QED
    BY <1>1, <1>2 DEF Lesser

(* ... in as many requests as it may send, of which the last may be short. *)
LEMMA LastRequestedBound ==
    ASSUME NEW from \in Nat, NEW to \in Nat
    PROVE  LastRequested(from, to) \in Int /\ LastRequested(from, to) <= to
  <1>1. LastRequested(from, to) \in Int
    BY LastRequestedType
  <1>2. PICK k : LastRequested(from, to) = Lesser(k, to)
    BY DEF LastRequested
  <1> QED
    BY <1>1, <1>2 DEF Lesser

(* A shard is a range of blocks above the published one, up to the last.   *)
LEMMA ShardsWithin ==
    ASSUME NEW from \in Nat, NEW to \in Nat, to <= MaxBlock, NEW r \in Shards(from, to)
    PROVE  r \in Proved!Ranges /\ Proved!Heights(r) \subseteq Existing
  <1>1. PICK last \in Int : last = LastRequested(from, to) /\ last <= to
    BY LastRequestedBound
  <1>2. PICK f \in (from + 1) .. last : r = [from |-> f, size |-> Lesser(MaxRequestBlocks, to - f + 1)]
    BY <1>1 DEF Shards
  <1> DEFINE size == Lesser(MaxRequestBlocks, to - f + 1)
  <1>3. f \in Nat /\ f >= 1 /\ f <= to
    BY <1>1
  <1>4. size \in Nat /\ f + size - 1 <= to
    BY <1>3, SyncAssumption DEF Lesser
  <1>5. r.from = f /\ r.size = size /\ r \in Proved!Ranges
    BY <1>2, <1>3, <1>4 DEF Proved!Ranges
  <1> HIDE DEF size
  <1>6. f .. (f + size - 1) \subseteq 1 .. MaxBlock
    BY <1>3, <1>4, SyncAssumption
  <1> QED
    BY <1>5, <1>6 DEF Proved!Heights, Existing

(* What the server keeps while it does not move.                           *)
LEMMA ServerKept ==
    ASSUME Proved!Inv, Proved!Within(Existing), UNCHANGED server
    PROVE  Proved!Inv' /\ Proved!Within(Existing)'
  <1> USE DEF server
  <1>1. Proved!Inv'
    BY DEF Proved!Inv, Proved!TypeOK, Proved!QueuesFinite, Proved!NoEntryNoQueue,
       Proved!TaskVisits, Proved!MergeInOrder, Proved!ReadsHaveEntry, Proved!CallsDiffer
  <1>2. Proved!Owed(Requester)' = Proved!Owed(Requester)
    BY DEF Proved!Owed, Proved!Queued, Proved!Merging, Proved!Fetching, Proved!Reading
  <1> QED
    BY <1>1, <1>2 DEF Proved!Within, Proved!Heights

(* What the requester keeps while it does not move.                        *)
LEMMA RequesterKept ==
    ASSUME Inv, RequesterWithin, UNCHANGED vars
    PROVE  Inv' /\ RequesterWithin'
  <1>1. Inv'
    BY NextInv
  <1> QED
    BY <1>1 DEF vars, config, queues, services, task, RequesterWithin, JobsWithin, QueuesWithin,
       HeightsWithin

(* And the requests on their way.                                          *)
LEMMA RequestsKept ==
    ASSUME RequestsWithin, UNCHANGED requests
    PROVE  RequestsWithin'
  BY DEF RequestsWithin, Proved!Heights

(* A step of the requester alone: one of BlockSync.                        *)
LEMMA RequesterStep ==
    ASSUME NetInv, Download \/ Callbacks \/ HearServer \/ Timeout
    PROVE  NetInv'
  <1>1. UNCHANGED <<server, requests>>
    BY DEF Download, Callbacks, HearServer, Timeout
  <1>2. Proved!Inv' /\ Proved!Within(Existing)' /\ RequestsWithin'
    BY <1>1, ServerKept, RequestsKept DEF NetInv
  <1>3. Inv /\ RequesterWithin /\ MaxBlock \in Nat /\ Server \in Peers
    BY SyncAssumption, NetworkAssumption DEF NetInv
  <1>4. Inv' /\ RequesterWithin'
    <2>1. CASE Download
      BY <1>3, <2>1, NextInv, TaskWithin, DieWithin DEF Download, Next
    <2>2. CASE Callbacks
      BY <1>3, <2>2, NextInv, CallbackWithin DEF Callbacks, Next
    <2>3. CASE HearServer
      <3>1. Inv'
        BY <1>3, <2>3, PeerInv DEF HearServer
      <3>2. /\ knownHighestNumber' \in {knownHighestNumber, MaxBlock}
            /\ UNCHANGED <<queues, m_commitQueue, jobs, services, task>>
        BY <2>3 DEF HearServer, OnPeerStatus, UpdateKnownMaxBlockInfo
      <3> QED
        BY <1>3, <3>1, <3>2 DEF queues, services, task, RequesterWithin, JobsWithin, QueuesWithin,
           HeightsWithin
    <2>4. CASE Timeout
      <3>1. Inv'
        BY <1>3, <2>4, NextInv DEF Timeout, Next
      <3>2. UNCHANGED <<config, queues, m_commitQueue, jobs, services, task>>
        BY <2>4 DEF Timeout, OnDownloadTimeout
      <3> QED
        BY <1>3, <3>1, <3>2 DEF config, queues, services, task, RequesterWithin, JobsWithin,
           QueuesWithin, HeightsWithin
    <2> QED
      BY <2>1, <2>2, <2>3, <2>4
  <1> QED
    BY <1>2, <1>4 DEF NetInv

(* A step of the server alone: one of BlockServing, which keeps its        *)
(* promise.                                                                *)
LEMMA ServerNext ==
    ASSUME Serve \/ HandleRequest \/ MaintainEntry \/ ReadBlock \/ FailBlock
    PROVE  Proved!Next
  <1>1. CASE Serve
    BY <1>1, SameTask DEF Serve, Serving!SyncSendTask, Proved!SyncSendTask, Proved!Next
  <1>2. CASE HandleRequest
    BY <1>2, SameHandlers DEF HandleRequest, Proved!Next
  <1>3. CASE MaintainEntry
    BY <1>3, SameHandlers DEF MaintainEntry, Proved!Next
  <1>4. CASE ReadBlock
    BY <1>4, SameReads DEF ReadBlock, Proved!Next
  <1>5. CASE FailBlock
    BY <1>5, SameReads DEF FailBlock, Proved!Next
  <1> QED
    BY <1>1, <1>2, <1>3, <1>4, <1>5

(* Such a step takes up no request that it had not.                        *)
LEMMA ServerHandlers ==
    ASSUME Proved!Inv, Proved!Within(Existing),
           Serve \/ HandleRequest \/ MaintainEntry \/ ReadBlock \/ FailBlock
    PROVE  \A h \in sHandlers' : Proved!Heights(h.req) \subseteq Existing
  <1>1. \A h \in sHandlers : Proved!Heights(h.req) \subseteq Existing
    BY DEF Proved!Within
  <1>2. CASE HandleRequest
    <2>1. PICK h \in sHandlers : Proved!InsertEmptyPeer(h) \/ Proved!PushRequest(h)
      BY <1>2, SameHandlers DEF HandleRequest
    <2>2. CASE Proved!InsertEmptyPeer(h)
      <3>1. PICK g \in Proved!Handler : g.req = h.req /\ sHandlers' = (sHandlers \ {h}) \cup {g}
        BY <2>2, Proved!CallGoesOn, ServerAssumption
      <3> QED
        BY <1>1, <3>1
    <2>3. CASE Proved!PushRequest(h)
      BY <1>1, <2>3 DEF Proved!PushRequest
    <2> QED
      BY <2>1, <2>2, <2>3
  <1>3. CASE Serve \/ MaintainEntry \/ ReadBlock \/ FailBlock
    <2>1. sHandlers' = sHandlers
      BY <1>3 DEF Serve, MaintainEntry, ReadBlock, FailBlock, Serving!SyncSendTask,
         Serving!MaintainBlockRequest, Serving!NextPeer, Serving!ServePeer, Serving!TopAndPop,
         Serving!FetchAndSendBlock, Serving!UpdatePeerStatus, Serving!DeletePeer,
         Serving!BlockRead, Serving!BlockNotRead, Serving!BlockNotSent, Serving!calls
    <2> QED
      BY <1>1, <2>1
  <1> QED
    BY <1>2, <1>3

(* So it keeps the invariant.                                              *)
LEMMA ServerStep ==
    ASSUME NetInv, Serve \/ HandleRequest \/ MaintainEntry \/ ReadBlock \/ FailBlock
    PROVE  NetInv'
  <1>1. Proved!Inv /\ Proved!Within(Existing) /\ Proved!Next
    BY ServerNext DEF NetInv
  <1>2. Proved!Inv'
    BY <1>1, Proved!NextInv, ServerAssumption
  <1>3. [Proved!Promise!Next]_(Proved!Promise!promise)
    BY <1>1, Proved!StepRefines, ServerAssumption
  <1>4. Proved!Within(Existing)'
    BY <1>1, <1>3, ServerHandlers, Proved!StaysWithin, ServerAssumption
  <1>5. UNCHANGED <<vars, requests>>
    BY DEF Serve, HandleRequest, MaintainEntry, ReadBlock, FailBlock
  <1>6. Inv' /\ RequesterWithin' /\ RequestsWithin'
    BY <1>5, RequesterKept, RequestsKept DEF NetInv
  <1> QED
    BY <1>2, <1>4, <1>6 DEF NetInv

(* The requests of tryToRequestBlocks are put on their way.                *)
LEMMA SendRequestsStep ==
    ASSUME NetInv, SendRequests
    PROVE  NetInv'
  <1> USE DEF SendRequests
  <1>1. Inv /\ RequesterWithin /\ blockNumber \in Nat /\ MaxBlock \in Nat
    BY WithinTypes DEF NetInv
  <1>2. RequestToNumber \in Nat /\ RequestToNumber <= MaxBlock
    BY <1>1, RequestToKnown, WithinTypes DEF RequesterWithin, HeightsWithin
  <1>3. LastRequested(blockNumber, RequestToNumber) \in Int
    BY <1>1, <1>2, LastRequestedBound
  <1>4. /\ UNCHANGED <<config, queues, m_commitQueue, jobs, services, failures, network>>
        /\ Goto("idle") /\ pc # "crashed"
    OBVIOUS
  <1>5. /\ pc' \in Positions /\ pc' # "crashed" /\ executed' \in Nat /\ block' \in Nat
        /\ block' = block /\ HeldExecuted'
    BY <1>1, <1>4, GotoType DEF Positions, Goto, Inv, TypeOK
  <1>6. /\ m_state' \in {"Idle", "Downloading"} /\ m_downloadingTimer' \in BOOLEAN
        /\ m_maxRequestNumber' \in Nat
    <2>1. m_maxRequestNumber \in Nat
      BY <1>1 DEF Inv, TypeOK, SyncTypeOK
    <2>2. /\ m_state' = "Downloading" /\ m_downloadingTimer' = TRUE
          /\ \/ m_maxRequestNumber' = m_maxRequestNumber
             \/ /\ LastRequested(blockNumber, RequestToNumber) > blockNumber
                /\ m_maxRequestNumber' = Greater(m_maxRequestNumber,
                                                 LastRequested(blockNumber, RequestToNumber))
      BY DEF RequestBlocks
    <2> QED
      BY <1>1, <1>3, <2>1, <2>2 DEF Greater
  <1>7. Inv'
    <2>1. TypeOK'
      BY <1>1, <1>4, <1>5, <1>6 DEF config, queues, services, network, Inv, TypeOK, ConfigTypeOK,
         QueueTypeOK, SyncTypeOK
    <2> QED
      BY <1>1, <1>4, <1>5, <2>1, FrameStep DEF config
  <1>8. RequesterWithin'
    BY <1>1, <1>4, <1>5 DEF config, queues, services, RequesterWithin, JobsWithin, QueuesWithin,
       HeightsWithin
  <1>9. RequestsWithin'
    <2>1. \A r \in Shards(blockNumber, RequestToNumber) :
             r \in Proved!Ranges /\ Proved!Heights(r) \subseteq Existing
      BY <1>1, <1>2, ShardsWithin
    <2>2. /\ IsABag(requests')
          /\ DOMAIN requests' = DOMAIN requests \cup Shards(blockNumber, RequestToNumber)
      BY PlusSetBag DEF NetInv, RequestsWithin
    <2> QED
      BY <2>1, <2>2 DEF NetInv, RequestsWithin, Proved!Heights
  <1> QED
    BY <1>7, <1>8, <1>9, ServerKept DEF NetInv

(* A request has gone from the network.                                    *)
LEMMA RequestTaken ==
    ASSUME RequestsWithin, NEW r \in DOMAIN requests, requests' = Without(requests, r)
    PROVE  RequestsWithin'
  <1>1. IsABag(requests') /\ DOMAIN requests' \subseteq DOMAIN requests
    BY WithoutBag DEF RequestsWithin
  <1> QED
    BY <1>1 DEF RequestsWithin, Proved!Heights

(* A request reaches the server.                                           *)
LEMMA ReceiveRequestStep ==
    ASSUME NetInv, NEW r \in DOMAIN requests, ReceiveRequest(r)
    PROVE  NetInv'
  <1>1. Inv' /\ RequesterWithin' /\ RequestsWithin'
    BY RequesterKept, RequestTaken DEF NetInv, ReceiveRequest
  <1>2. /\ Proved!OnPeerBlocksRequest(Requester, r)
        /\ r \in Proved!Ranges /\ Proved!Heights(r) \subseteq Existing
    BY SameHandlers DEF ReceiveRequest, NetInv, RequestsWithin
  <1>3. Proved!Inv'
    BY <1>2, Proved!OnPeerBlocksRequestInv, ServerAssumption DEF NetInv
  <1>4. Proved!Promise!Next
    BY <1>2, Proved!RequestRefines, ServerAssumption DEF NetInv
  <1>5. \A h \in sHandlers' : h \in sHandlers \/ h.req = r
    BY <1>2 DEF Proved!OnPeerBlocksRequest
  <1>6. \A h \in sHandlers' : Proved!Heights(h.req) \subseteq Existing
    BY <1>2, <1>5 DEF NetInv, Proved!Within
  <1>7. Proved!Within(Existing)'
    BY <1>4, <1>6, Proved!StaysWithin, ServerAssumption DEF NetInv
  <1> QED
    BY <1>1, <1>3, <1>7 DEF NetInv

(* A request is lost on its way.                                           *)
LEMMA LoseRequestStep ==
    ASSUME NetInv, NEW r \in DOMAIN requests, LoseRequest(r)
    PROVE  NetInv' /\ Proved!Promise!Next
  <1>1. Inv' /\ RequesterWithin' /\ RequestsWithin'
    BY RequesterKept, RequestTaken DEF NetInv, LoseRequest
  <1>2. Proved!Fails("request") /\ UNCHANGED <<Proved!table, Proved!calls, Proved!task, sReads, sResponses>>
    BY SameReads DEF LoseRequest, Proved!table, Proved!calls, Proved!task
  <1>3. Proved!Inv' /\ Proved!Promise!Next
    BY <1>2, Proved!FaultElsewhere, ServerAssumption DEF NetInv
  <1>4. \A h \in sHandlers' : Proved!Heights(h.req) \subseteq Existing
    BY DEF LoseRequest, NetInv, Proved!Within
  <1>5. Proved!Within(Existing)'
    BY <1>3, <1>4, Proved!StaysWithin, ServerAssumption DEF NetInv
  <1> QED
    BY <1>1, <1>3, <1>5 DEF NetInv

(* A block reaches the requester, and its buffer if there is room.         *)
LEMMA ReceiveBlockStep ==
    ASSUME NetInv, NEW m \in DOMAIN sResponses, ReceiveBlock(m)
    PROVE  NetInv'
  <1>1. Inv /\ RequesterWithin /\ Proved!Inv /\ Proved!Within(Existing)
    BY DEF NetInv
  <1>2. Proved!Deliver(m) /\ Proved!Next
    BY SameReads DEF ReceiveBlock, Proved!Next
  <1>3. Proved!Inv' /\ [Proved!Promise!Next]_(Proved!Promise!promise)
    BY <1>1, <1>2, Proved!NextInv, Proved!StepRefines, ServerAssumption
  <1>4. \A h \in sHandlers' : Proved!Heights(h.req) \subseteq Existing
    BY <1>1, <1>2 DEF Proved!Deliver, Proved!calls, Proved!Within
  <1>5. Proved!Within(Existing)'
    BY <1>1, <1>3, <1>4, Proved!StaysWithin, ServerAssumption
  <1>6. m.num \in 0 .. MaxBlock /\ m.num \in Nat
    BY <1>1, SyncAssumption DEF Proved!Within, Existing
  <1>7. m_blockBuffer' \in {m_blockBuffer, Append(m_blockBuffer, m.num)}
    BY DEF ReceiveBlock, Push
  <1>8. m_blockBuffer \in Seq(Nat) /\ m_blockBuffer \in Seq(0 .. MaxBlock)
    BY <1>1 DEF Inv, TypeOK, QueueTypeOK, RequesterWithin, QueuesWithin
  <1>9. m_blockBuffer' \in Seq(Nat) /\ m_blockBuffer' \in Seq(0 .. MaxBlock)
    <2>1. /\ Append(m_blockBuffer, m.num) \in Seq(Nat)
          /\ Append(m_blockBuffer, m.num) \in Seq(0 .. MaxBlock)
      BY <1>6, <1>8, AppendType
    <2> QED
      BY <1>7, <1>8, <2>1, Zenon
  <1>10. UNCHANGED <<config, m_blocks, m_commitQueue, jobs, services, failures, download,
                     network, task, requests>>
    BY DEF ReceiveBlock
  <1>11. Inv'
    <2>1. TypeOK'
      BY <1>1, <1>9, <1>10 DEF config, services, download, network, task, Inv, TypeOK, ConfigTypeOK,
         QueueTypeOK, SyncTypeOK
    <2> QED
      BY <1>1, <1>10, <2>1, FrameStep DEF config, services, task, Inv, HeldExecuted
  <1>12. RequesterWithin' /\ RequestsWithin'
    BY <1>1, <1>9, <1>10, RequestsKept DEF config, services, task, RequesterWithin, JobsWithin,
       QueuesWithin, HeightsWithin, NetInv
  <1> QED
    BY <1>3, <1>5, <1>11, <1>12 DEF NetInv

(* At first nothing is asked for, owed or known.                           *)
LEMMA NetInitInv == NetInit => NetInv
  <1> SUFFICES ASSUME NetInit PROVE NetInv
    OBVIOUS
  <1>1. Inv /\ MaxBlock \in Nat
    BY InitInv, SyncAssumption DEF NetInit
  <1>2. RequesterWithin
    <2>1. <<>> \in Seq(0 .. MaxBlock)
      OBVIOUS
    <2> QED
      BY <1>1, <2>1, EmptyBagBag DEF NetInit, Init, QueueInit, ConfigInit, RequesterWithin,
         JobsWithin, QueuesWithin, HeightsWithin
  <1>3. RequestsWithin
    BY EmptyBagBag DEF NetInit, RequestsWithin
  <1>4. Proved!Init
    BY SameInit DEF NetInit
  <1>5. Proved!Inv
    BY <1>4, Proved!InitInv, ServerAssumption
  <1>6. Proved!Within(Existing)
    <2>1. sHandlers = {} /\ DOMAIN sResponses = {} /\ DOMAIN sReads = {} /\ sPc = "idle"
          /\ DOMAIN sQueue[Requester] = {}
      BY <1>4 DEF Proved!Init, Proved!EmptyBag, Proved!SetToBag
    <2>2. Proved!Owed(Requester) = {}
      BY <2>1 DEF Proved!Owed, Proved!Queued, Proved!Merging, Proved!Fetching, Proved!Reading
    <2> QED
      BY <2>1, <2>2 DEF Proved!Within
  <1> QED
    BY <1>1, <1>2, <1>3, <1>5, <1>6 DEF NetInv

(* Every step of the two nodes and of the network between them.            *)
LEMMA NetNextInv == NetInv /\ [NetNext]_netVars => NetInv'
  <1> SUFFICES ASSUME NetInv, [NetNext]_netVars PROVE NetInv'
    OBVIOUS
  <1>1. CASE SendRequests
    BY <1>1, SendRequestsStep
  <1>2. ASSUME NEW r \in DOMAIN requests, ReceiveRequest(r) \/ LoseRequest(r) PROVE NetInv'
    BY <1>2, ReceiveRequestStep, LoseRequestStep
  <1>3. ASSUME NEW m \in DOMAIN sResponses, ReceiveBlock(m) PROVE NetInv'
    BY <1>3, ReceiveBlockStep
  <1>4. CASE Download \/ Callbacks \/ HearServer \/ Timeout
    BY <1>4, RequesterStep
  <1>5. CASE Serve \/ HandleRequest \/ MaintainEntry \/ ReadBlock \/ FailBlock
    BY <1>5, ServerStep
  <1>6. CASE UNCHANGED netVars
    BY <1>6, ServerKept, RequesterKept, RequestsKept DEF netVars, NetInv
  <1> QED
    BY <1>1, <1>2, <1>3, <1>4, <1>5, <1>6 DEF NetNext

-----------------------------------------------------------------------------
(* The theorems *)

(* The inductive invariant of the two nodes.                               *)
THEOREM NetInvariance == NetSpec => []NetInv
  <1> QED
    BY NetInitInv, NetNextInv, PTL DEF NetSpec

(* Nothing goes round between the two nodes but blocks that the server     *)
(* has.                                                                    *)
THEOREM NetExisting == NetSpec => []OnlyExistingBlocks
  <1>1. NetInv => OnlyExistingBlocks
    BY SameOwed DEF NetInv, OnlyExistingBlocks, RequestsWithin, RequesterWithin, HeightsWithin,
       Proved!Within
  <1> QED
    BY <1>1, NetInvariance, PTL

(* The requester keeps its invariants when its blocks come from a server   *)
(* that merges, drops and repeats requests.                                *)
THEOREM NetRequester ==
    NetSpec => [](CommitsInOrder /\ LedgerPublished /\ ExecutedInState)
  <1>1. NetInv => CommitsInOrder /\ LedgerPublished /\ ExecutedInState
    BY DEF NetInv, Inv, JobsOK, JobOK, CommitsInOrder, Heights, ExecutedInState
  <1> QED
    BY <1>1, NetInvariance, PTL

(* Every step is one that PublishedLedger allows the requester, and that   *)
(* BlocksOwed allows the server.                                           *)
LEMMA NetStepRefines ==
    ASSUME NetInv, [NetNext]_netVars
    PROVE  /\ [Chain!Next]_(Chain!chain)
           /\ [Proved!Promise!Next]_(Proved!Promise!promise)
  <1>1. Inv /\ Proved!Inv
    BY DEF NetInv
  <1>2. ASSUME [Next]_vars PROVE [Chain!Next]_(Chain!chain)
    BY <1>1, <1>2, StepRefines
  <1>3. ASSUME [Proved!Next]_(Proved!vars) PROVE [Proved!Promise!Next]_(Proved!Promise!promise)
    BY <1>1, <1>3, Proved!StepRefines, ServerAssumption
  <1>4. ASSUME UNCHANGED server PROVE UNCHANGED Proved!vars
    BY <1>4 DEF server, Proved!vars, Proved!table, Proved!calls, Proved!task
  <1>5. CASE SendRequests
    <2>1. UNCHANGED <<ledger, blockNumber, server>>
      BY <1>5 DEF SendRequests, config, services
    <2> QED
      BY <1>3, <1>4, <2>1 DEF Chain!chain
  <1>6. ASSUME NEW r \in DOMAIN requests, ReceiveRequest(r) \/ LoseRequest(r)
        PROVE  UNCHANGED vars /\ Proved!Promise!Next
    <2>1. CASE ReceiveRequest(r)
      <3>1. Proved!OnPeerBlocksRequest(Requester, r) /\ r \in Proved!Ranges
        BY <2>1, SameHandlers DEF ReceiveRequest, NetInv, RequestsWithin
      <3> QED
        BY <1>1, <2>1, <3>1, Proved!RequestRefines, ServerAssumption DEF ReceiveRequest
    <2>2. CASE LoseRequest(r)
      BY <2>2, LoseRequestStep DEF LoseRequest
    <2> QED
      BY <1>6, <2>1, <2>2
  <1>7. ASSUME NEW m \in DOMAIN sResponses, ReceiveBlock(m)
        PROVE  UNCHANGED Chain!chain /\ Proved!Next
    BY <1>7, SameReads DEF ReceiveBlock, config, services, Chain!chain, Proved!Next
  <1>8. CASE Download \/ Callbacks \/ HearServer \/ Timeout
    <2>1. UNCHANGED server
      BY <1>8 DEF Download, Callbacks, HearServer, Timeout
    <2>2. [Chain!Next]_(Chain!chain)
      <3>1. CASE HearServer
        BY <3>1 DEF HearServer, OnPeerStatus, UpdateKnownMaxBlockInfo, services, Chain!chain
      <3>2. CASE Download \/ Callbacks \/ Timeout
        BY <1>2, <3>2 DEF Download, Callbacks, Timeout, Next
      <3> QED
        BY <1>8, <3>1, <3>2
    <2> QED
      BY <1>3, <1>4, <2>1, <2>2
  <1>9. CASE Serve \/ HandleRequest \/ MaintainEntry \/ ReadBlock \/ FailBlock
    <2>1. UNCHANGED vars
      BY <1>9 DEF Serve, HandleRequest, MaintainEntry, ReadBlock, FailBlock
    <2> QED
      BY <1>2, <1>3, <1>9, <2>1, ServerNext
  <1>10. CASE UNCHANGED netVars
    BY <1>2, <1>3, <1>4, <1>10 DEF netVars
  <1> QED
    BY <1>2, <1>3, <1>5, <1>6, <1>7, <1>8, <1>9, <1>10 DEF NetNext

(* In the composition the requester still implements the safety part of    *)
(* PublishedLedger: its ledger is append-only, and it publishes no block   *)
(* that is not in it.                                                      *)
THEOREM NetChain == NetSpec => ChainSafe
  <1>1. NetInit => Chain!Init
    BY DEF NetInit, Init, QueueInit, ConfigInit, Chain!Init
  <1>2. NetInv /\ [NetNext]_netVars => [Chain!Next]_(Chain!chain)
    BY NetStepRefines
  <1> QED
    BY <1>1, <1>2, NetInvariance, PTL DEF NetSpec, ChainSafe, Chain!Safe

(* The promise of the two instances is the same.                           *)
LEMMA SamePromise ==
    /\ Proved!Promise!Init => Serving!Promise!Init
    /\ [Proved!Promise!Next]_(Proved!Promise!promise)
         => [Serving!Promise!Next]_(Serving!Promise!promise)
  <1>1. /\ \A p \in {Requester} : Serving!Owed(p) = Proved!Owed(p)
        /\ \A p \in {Requester} : Serving!Owed(p)' = Proved!Owed(p)'
    BY DEF Serving!Owed, Serving!Queued, Serving!Merging, Serving!Fetching, Serving!Reading,
       Serving!Heights, Proved!Owed, Proved!Queued, Proved!Merging, Proved!Fetching,
       Proved!Reading, Proved!Heights
  <1>2. /\ [p \in {Requester} |-> Serving!Owed(p)] = [p \in {Requester} |-> Proved!Owed(p)]
        /\ [p \in {Requester} |-> Serving!Owed(p)]' = [p \in {Requester} |-> Proved!Owed(p)]'
    BY <1>1
  <1>3. Proved!Promise!Init => Serving!Promise!Init
    BY <1>2 DEF Serving!Promise!Init, Serving!Promise!EmptyBag, Serving!Promise!SetToBag,
       Proved!Promise!Init, Proved!Promise!EmptyBag, Proved!Promise!SetToBag
  <1> QED
    BY <1>2, <1>3 DEF Serving!Promise!Next, Serving!Promise!promise, Serving!Promise!Ask,
       Serving!Promise!Refuse, Serving!Promise!Accept, Serving!Promise!Send,
       Serving!Promise!Deliver, Serving!Promise!Fault, Serving!Promise!Heights,
       Serving!Promise!(+), Serving!Promise!(-), Serving!Promise!SetToBag,
       Proved!Promise!Next, Proved!Promise!promise, Proved!Promise!Ask,
       Proved!Promise!Refuse, Proved!Promise!Accept, Proved!Promise!Send,
       Proved!Promise!Deliver, Proved!Promise!Fault, Proved!Promise!Heights,
       Proved!Promise!(+), Proved!Promise!(-), Proved!Promise!SetToBag

(* And the server still implements BlocksOwed towards the requester, whose *)
(* requests are repeated, overtaken by others and lost.                    *)
THEOREM NetPromise == NetSpec => Serving!KeepsPromise
  <1>1. NetInit => Serving!Promise!Init
    BY SameInit, SamePromise, Proved!InitRefines, ServerAssumption DEF NetInit
  <1>2. NetInv /\ [NetNext]_netVars => [Serving!Promise!Next]_(Serving!Promise!promise)
    BY NetStepRefines, SamePromise
  <1> QED
    BY <1>1, <1>2, NetInvariance, PTL DEF NetSpec, Serving!KeepsPromise, Serving!Promise!Spec

=============================================================================
