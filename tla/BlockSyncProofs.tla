--------------------------- MODULE BlockSyncProofs ---------------------------
(***************************************************************************)
(* For every value of the constants: the types, the order of commits, the  *)
(* publication of every committed block, and that BlockSync implements the *)
(* safety part of PublishedLedger.                                         *)
(***************************************************************************)
EXTENDS BlockSync, FiniteSetTheorems, TLAPS

-----------------------------------------------------------------------------
(* Bags *)

(* Adding an element to a bag: a priority queue's push.                    *)
LEMMA WithBag ==
    ASSUME NEW b, NEW e, IsABag(b)
    PROVE  IsABag(With(b, e)) /\ DOMAIN With(b, e) = DOMAIN b \cup {e}
  BY DEF With, IsABag, SetToBag, (+)

(* Taking an element out of a bag: a priority queue's pop.                 *)
LEMMA WithoutBag ==
    ASSUME NEW b, NEW e, IsABag(b)
    PROVE  /\ IsABag(Without(b, e))
           /\ DOMAIN Without(b, e) \subseteq DOMAIN b
           /\ DOMAIN b \ {e} \subseteq DOMAIN Without(b, e)
  BY DEF Without, IsABag, SetToBag, (-)

(* clearExpiredCache leaves a queue.                                       *)
LEMMA ClearExpiredBag ==
    ASSUME NEW q, IsABag(q)
    PROVE  IsABag(ClearExpired(q)) /\ DOMAIN ClearExpired(q) \subseteq DOMAIN q
  BY DEF ClearExpired, IsABag

(* The queues of a new process, and after clear().                         *)
LEMMA EmptyBuffer == <<>> \in Seq(Nat)
  OBVIOUS

(* The empty queue is a queue.                                             *)
LEMMA EmptyBagBag == IsABag(EmptyBag) /\ DOMAIN EmptyBag = {}
  BY DEF EmptyBag, SetToBag, IsABag

-----------------------------------------------------------------------------
(* The inductive invariant *)

(* The published height trails the ledger, which trails the state; the     *)
(* next block is announced after the block before it.                      *)
Heights ==
    /\ 1 <= nextBlock /\ nextBlock <= blockNumber + 1
    /\ blockNumber <= ledger
    /\ ledger <= stateHeight
    /\ executedBlock <= stateHeight

(* What the stage of a callback chain says of its height.                  *)
JobOK(j) ==
    /\ j.stage \in {"select", "check", "store", "commit"} =>
          1 <= j.num /\ j.num <= blockNumber + 1
    /\ j.stage \in {"notify", "committed"} => j.num <= ledger
    /\ j.stage \in {"published", "level"} => j.num <= blockNumber
    /\ j.stage \notin {"execute", "finalize", "proceed"} => j.num <= stateHeight

JobsOK == \A j \in DOMAIN jobs : JobOK(j)

(* Only executed blocks wait to be committed.                              *)
QueuedExecuted == \A n \in DOMAIN m_commitQueue : n <= stateHeight

(* A process that has died has no callback chain and no block left.        *)
CrashedQuiet == pc = "crashed" => jobs = EmptyBag /\ m_commitQueue = EmptyBag

(* applyBlock resets the executed height to one that was published.        *)
HeldExecuted == pc \in {"ignore", "assign"} => block <= stateHeight

Inv ==
    /\ TypeOK /\ Heights /\ JobsOK /\ QueuedExecuted
    /\ LedgerPublished /\ CrashedQuiet /\ HeldExecuted

(***************************************************************************)
(* The callback chains after a step that ends chain j and starts those of  *)
(* the set K.                                                              *)
(***************************************************************************)
Replaced(j, K) ==
    /\ IsABag(jobs')
    /\ DOMAIN jobs' \subseteq DOMAIN jobs \cup K
    /\ (DOMAIN jobs \ {j}) \cup K \subseteq DOMAIN jobs'

(* A chain's next stage replaces it.                                       *)
LEMMA WithoutWith ==
    ASSUME NEW j, NEW k, IsABag(jobs), jobs' = With(Without(jobs, j), k)
    PROVE  Replaced(j, {k})
  <1>1. /\ IsABag(Without(jobs, j))
        /\ DOMAIN Without(jobs, j) \subseteq DOMAIN jobs
        /\ DOMAIN jobs \ {j} \subseteq DOMAIN Without(jobs, j)
    BY WithoutBag
  <1>2. IsABag(jobs') /\ DOMAIN jobs' = DOMAIN Without(jobs, j) \cup {k}
    BY <1>1, WithBag
  <1> QED
    BY <1>1, <1>2 DEF Replaced

(* A chain ends.                                                           *)
LEMMA JustWithout ==
    ASSUME NEW j, IsABag(jobs), jobs' = Without(jobs, j)
    PROVE  Replaced(j, {})
  BY WithoutBag DEF Replaced

(***************************************************************************)
(* The invariant after a step of a callback chain: what has to be shown of *)
(* the chains is only that the new ones are in order and that the news of  *)
(* the ledger's last block is not dropped.                                 *)
(***************************************************************************)
LEMMA ChainStep ==
    ASSUME Inv, ConfigTypeOK', ledger' \in Nat, stateHeight' \in Nat, failures' \in Nat,
           IsABag(m_blocks'), DOMAIN m_blocks' \subseteq Nat,
           IsABag(m_commitQueue'), DOMAIN m_commitQueue' \subseteq Nat,
           UNCHANGED <<m_blockBuffer, download, network, task>>,
           NEW j \in DOMAIN jobs, NEW K \in SUBSET [stage : Stages, num : Nat],
           Replaced(j, K),
           Heights', QueuedExecuted',
           blockNumber <= blockNumber', ledger <= ledger', stateHeight <= stateHeight',
           \A k \in K : JobOK(k)',
           LedgerPublished'
    PROVE  Inv'
  <1>1. pc # "crashed"
    BY EmptyBagBag DEF Inv, CrashedQuiet
  <1>2. TypeOK'
    BY DEF Inv, TypeOK, QueueTypeOK, SyncTypeOK, Replaced, download, network, task
  <1>3. JobsOK'
    <2> SUFFICES ASSUME NEW i \in DOMAIN jobs' PROVE JobOK(i)'
      BY DEF JobsOK
    <2>1. CASE i \in K
      BY <2>1
    <2>2. CASE i \in DOMAIN jobs
      <3>1. JobOK(i) /\ i \in [stage : Stages, num : Nat]
        BY <2>2 DEF Inv, JobsOK, TypeOK, QueueTypeOK
      <3> QED
        BY <3>1 DEF JobOK, Inv, TypeOK, ConfigTypeOK, QueueTypeOK
    <2> QED
      BY <2>1, <2>2 DEF Replaced
  <1>4. HeldExecuted'
    BY DEF Inv, TypeOK, QueueTypeOK, SyncTypeOK, HeldExecuted, task
  <1> QED
    BY <1>1, <1>2, <1>3, <1>4 DEF Inv, CrashedQuiet, task

(* tryToCommitBlockToLedger leaves a queue, and takes at most the next     *)
(* block from it.                                                          *)
LEMMA TryToCommitStep ==
    ASSUME ConfigTypeOK,
           NEW q, IsABag(q), DOMAIN q \subseteq Nat,
           NEW js, IsABag(js),
           TryToCommitBlockToLedger(q, js)
    PROVE  /\ IsABag(m_commitQueue') /\ DOMAIN m_commitQueue' \subseteq Nat
           /\ DOMAIN m_commitQueue' \subseteq DOMAIN q
           /\ IsABag(jobs')
           /\ \/ DOMAIN jobs' = DOMAIN js
              \/ /\ DOMAIN jobs' = DOMAIN js \cup {Job("select", nextBlock)}
                 /\ nextBlock \in DOMAIN q
  <1>1. IsABag(ClearExpired(q)) /\ DOMAIN ClearExpired(q) \subseteq DOMAIN q
    BY ClearExpiredBag
  <1>2. /\ IsABag(Without(ClearExpired(q), nextBlock))
        /\ DOMAIN Without(ClearExpired(q), nextBlock) \subseteq DOMAIN q
    BY <1>1, WithoutBag
  <1>3. /\ IsABag(With(js, Job("select", nextBlock)))
        /\ DOMAIN With(js, Job("select", nextBlock)) = DOMAIN js \cup {Job("select", nextBlock)}
    BY WithBag
  <1> QED
    BY <1>1, <1>2, <1>3 DEF TryToCommitBlockToLedger, IsTop

(* The common case: nothing changes but the callback chains.               *)
LEMMA QuietStep ==
    ASSUME Inv, NEW s, NEW n, InFlight(s, n), s \notin {"notify", "committed"},
           NEW K \in SUBSET [stage : Stages, num : Nat],
           Replaced(Job(s, n), K),
           UNCHANGED <<config, queues, m_commitQueue, services, download, network, task>>,
           failures' \in Nat,
           \A k \in K : JobOK(k)
    PROVE  Inv'
  <1> USE DEF services, queues, config
  <1>1. /\ ConfigTypeOK' /\ ledger' \in Nat /\ stateHeight' \in Nat
        /\ IsABag(m_blocks') /\ DOMAIN m_blocks' \subseteq Nat
        /\ IsABag(m_commitQueue') /\ DOMAIN m_commitQueue' \subseteq Nat
        /\ Heights' /\ QueuedExecuted'
        /\ blockNumber <= blockNumber' /\ ledger <= ledger' /\ stateHeight <= stateHeight'
    BY DEF Inv, TypeOK, ConfigTypeOK, QueueTypeOK, Heights, QueuedExecuted
  <1>2. \A k \in K : JobOK(k)'
    BY DEF JobOK
  <1>3. LedgerPublished'
    BY DEF Inv, LedgerPublished, InFlight, Replaced, Job, task
  <1> QED
    BY <1>1, <1>2, <1>3, ChainStep DEF InFlight

(* A chain is abandoned, and setExecutedBlock(v) called instead.           *)
LEMMA AbandonStep ==
    ASSUME Inv, NEW s, NEW n, NEW v \in Nat, v <= stateHeight,
           InFlight(s, n), s \notin {"notify", "committed"},
           Abandon(s, n, v),
           UNCHANGED <<config, queues, m_commitQueue, services, download, network, task>>,
           failures' \in Nat
    PROVE  Inv'
  <1>1. Replaced(Job(s, n), {Job("reset", v)})
    BY WithoutWith DEF Abandon, Inv, TypeOK, QueueTypeOK
  <1>2. {Job("reset", v)} \in SUBSET [stage : Stages, num : Nat]
    BY DEF Job, Stages
  <1>3. JobOK(Job("reset", v))
    BY DEF JobOK, Job
  <1>4. \A k \in {Job("reset", v)} : JobOK(k)
    BY <1>3
  <1> QED
    BY <1>1, <1>2, <1>4, QuietStep

(* A chain moves to its next stage and nothing else changes.               *)
LEMMA BecomesStep ==
    ASSUME Inv, NEW s, NEW t \in Stages, NEW n \in Nat,
           InFlight(s, n), s \notin {"notify", "committed"},
           Becomes(s, t, n), JobOK(Job(t, n)),
           UNCHANGED <<config, queues, m_commitQueue, services, download, network, task>>,
           failures' \in Nat
    PROVE  Inv'
  <1>1. Replaced(Job(s, n), {Job(t, n)})
    BY WithoutWith DEF Becomes, Inv, TypeOK, QueueTypeOK
  <1>2. {Job(t, n)} \in SUBSET [stage : Stages, num : Nat]
    BY DEF Job
  <1>4. \A k \in {Job(t, n)} : JobOK(k)
    OBVIOUS
  <1> QED
    BY <1>1, <1>2, <1>4, QuietStep

(* A chain in flight has a height, and its height is what its stage says.  *)
LEMMA InFlightFacts ==
    ASSUME Inv, NEW s, NEW n, InFlight(s, n)
    PROVE  /\ n \in Nat
           /\ s \in Stages
           /\ JobOK(Job(s, n))
           /\ s \in {"select", "check", "store", "commit"} => 1 <= n /\ n <= blockNumber + 1
           /\ s \in {"notify", "committed"} => n <= ledger
           /\ s \in {"published", "level"} => n <= blockNumber
           /\ s \notin {"execute", "finalize", "proceed"} => n <= stateHeight
  <1>1. Job(s, n) \in [stage : Stages, num : Nat] /\ JobOK(Job(s, n))
    BY DEF Inv, TypeOK, QueueTypeOK, JobsOK, InFlight
  <1> QED
    BY <1>1 DEF Job, JobOK

(* A failure uses up one of those still to come.                           *)
LEMMA FailsType ==
    ASSUME Inv, NEW op, Fails(op)
    PROVE  failures' \in Nat
  BY DEF Fails, Inv, TypeOK, QueueTypeOK

-----------------------------------------------------------------------------
(* The callbacks, one lemma each *)

Others == UNCHANGED <<download, network, task>>

(* applyBlock's callback: the executed height may be raised to it.         *)
LEMMA BlockExecutedInv ==
    ASSUME Inv, NEW n, BlockExecuted(n), Others
    PROVE  Inv'
  <1> USE DEF services, queues, config, Others
  <1>1. Job("execute", n) \in DOMAIN jobs /\ n \in Nat
    BY InFlightFacts DEF BlockExecuted, InFlight
  <1>2. PICK t \in {"raise", "queue"} : Becomes("execute", t, n)
    BY DEF BlockExecuted
  <1>3. Replaced(Job("execute", n), {Job(t, n)})
    BY <1>2, WithoutWith DEF Becomes, Inv, TypeOK, QueueTypeOK
  <1>4. /\ ConfigTypeOK' /\ ledger' \in Nat /\ stateHeight' \in Nat /\ failures' \in Nat
        /\ IsABag(m_blocks') /\ DOMAIN m_blocks' \subseteq Nat
        /\ IsABag(m_commitQueue') /\ DOMAIN m_commitQueue' \subseteq Nat
        /\ UNCHANGED <<m_blockBuffer, download, network, task>>
        /\ Heights' /\ QueuedExecuted'
        /\ blockNumber <= blockNumber' /\ ledger <= ledger' /\ stateHeight <= stateHeight'
        /\ n <= stateHeight'
    BY <1>1 DEF Inv, TypeOK, ConfigTypeOK, QueueTypeOK, Heights, QueuedExecuted, BlockExecuted
  <1>5. JobOK(Job(t, n))'
    BY <1>1, <1>2, <1>4 DEF Job, JobOK
  <1>6. \A k \in {Job(t, n)} : JobOK(k)'
    BY <1>5
  <1>7. {Job(t, n)} \in SUBSET [stage : Stages, num : Nat]
    BY <1>1 DEF Job, Stages
  <1>8. LedgerPublished'
    BY <1>3 DEF BlockExecuted, Inv, LedgerPublished, InFlight, Replaced, Job, task
  <1> QED
    BY <1>1, <1>3, <1>4, <1>6, <1>7, <1>8, ChainStep

(* setExecutedBlock of an executed block.                                  *)
LEMMA RaiseExecutedBlockInv ==
    ASSUME Inv, NEW n, RaiseExecutedBlock(n), Others
    PROVE  Inv'
  <1> USE DEF services, queues, config, Others
  <1>1. Job("raise", n) \in DOMAIN jobs /\ n \in Nat /\ n <= stateHeight
    BY InFlightFacts DEF RaiseExecutedBlock, InFlight
  <1>3. Replaced(Job("raise", n), {Job("queue", n)})
    BY WithoutWith DEF RaiseExecutedBlock, Becomes, Inv, TypeOK, QueueTypeOK
  <1>4. /\ ConfigTypeOK' /\ ledger' \in Nat /\ stateHeight' \in Nat /\ failures' \in Nat
        /\ IsABag(m_blocks') /\ DOMAIN m_blocks' \subseteq Nat
        /\ IsABag(m_commitQueue') /\ DOMAIN m_commitQueue' \subseteq Nat
        /\ UNCHANGED <<m_blockBuffer, download, network, task>>
        /\ Heights' /\ QueuedExecuted'
        /\ blockNumber <= blockNumber' /\ ledger <= ledger' /\ stateHeight <= stateHeight'
    BY <1>1 DEF Inv, TypeOK, ConfigTypeOK, QueueTypeOK, Heights, QueuedExecuted, RaiseExecutedBlock, AssignExecuted
  <1>6. \A k \in {Job("queue", n)} : JobOK(k)'
    BY <1>1 DEF RaiseExecutedBlock, Job, JobOK
  <1>7. {Job("queue", n)} \in SUBSET [stage : Stages, num : Nat]
    BY <1>1 DEF Job, Stages
  <1>8. LedgerPublished'
    BY <1>3 DEF RaiseExecutedBlock, AssignExecuted, Inv, LedgerPublished, InFlight, Replaced, Job, task
  <1> QED
    BY <1>1, <1>3, <1>4, <1>6, <1>7, <1>8, ChainStep

(* updateCommitQueue and finalizeBlock end a chain with                    *)
(* tryToCommitBlockToLedger, which may start another one.                  *)
LEMMA TryToCommitInv ==
    ASSUME Inv, NEW s \in {"queue", "proceed"}, NEW n, InFlight(s, n),
           NEW q, IsABag(q), DOMAIN q \subseteq Nat, \A k \in DOMAIN q : k <= stateHeight,
           TryToCommitBlockToLedger(q, Without(jobs, Job(s, n))),
           IsABag(m_blocks'), DOMAIN m_blocks' \subseteq Nat,
           UNCHANGED <<config, m_blockBuffer, services, failures>>, Others
    PROVE  Inv'
  <1> USE DEF services, queues, config, Others
  <1>1. Job(s, n) \in DOMAIN jobs /\ n \in Nat
    BY InFlightFacts DEF InFlight
  <1>2. /\ IsABag(Without(jobs, Job(s, n)))
        /\ DOMAIN Without(jobs, Job(s, n)) \subseteq DOMAIN jobs
        /\ DOMAIN jobs \ {Job(s, n)} \subseteq DOMAIN Without(jobs, Job(s, n))
    BY WithoutBag DEF Inv, TypeOK, QueueTypeOK
  <1>3. PICK m \in Nat : m = nextBlock
    BY DEF Inv, TypeOK, ConfigTypeOK
  <1>4. /\ IsABag(m_commitQueue') /\ DOMAIN m_commitQueue' \subseteq Nat
        /\ DOMAIN m_commitQueue' \subseteq DOMAIN q
        /\ IsABag(jobs')
        /\ \/ DOMAIN jobs' = DOMAIN Without(jobs, Job(s, n))
           \/ /\ DOMAIN jobs' = DOMAIN Without(jobs, Job(s, n)) \cup {Job("select", m)}
              /\ m \in DOMAIN q
    BY <1>2, <1>3, TryToCommitStep DEF Inv, TypeOK
  <1>5. PICK K \in {{}, {Job("select", m)}} :
           /\ DOMAIN jobs' = DOMAIN Without(jobs, Job(s, n)) \cup K
           /\ K # {} => m <= stateHeight
    BY <1>4
  <1>6. Replaced(Job(s, n), K)
    BY <1>2, <1>4, <1>5 DEF Replaced
  <1>7. K \in SUBSET [stage : Stages, num : Nat]
    BY <1>3, <1>5 DEF Job, Stages
  <1>8. /\ ConfigTypeOK' /\ ledger' \in Nat /\ stateHeight' \in Nat /\ failures' \in Nat
        /\ UNCHANGED <<m_blockBuffer, download, network, task>>
        /\ Heights' /\ QueuedExecuted'
        /\ blockNumber <= blockNumber' /\ ledger <= ledger' /\ stateHeight <= stateHeight'
    BY <1>4 DEF Inv, TypeOK, ConfigTypeOK, QueueTypeOK, Heights, QueuedExecuted
  <1>9. K # {} => JobOK(Job("select", m))'
    BY <1>3, <1>5 DEF Job, JobOK, Heights, Inv, TypeOK, ConfigTypeOK
  <1>10. \A k \in K : JobOK(k)'
    BY <1>9, <1>5
  <1>11. LedgerPublished'
    BY <1>6 DEF Inv, LedgerPublished, InFlight, Replaced, Job, task
  <1> QED
    BY <1>1, <1>4, <1>6, <1>7, <1>8, <1>10, <1>11, ChainStep

(* updateCommitQueue queues an executed block.                             *)
LEMMA UpdateCommitQueueInv ==
    ASSUME Inv, NEW n, UpdateCommitQueue(n), Others
    PROVE  Inv'
  <1>1. InFlight("queue", n) /\ n \in Nat /\ n <= stateHeight
    BY InFlightFacts DEF UpdateCommitQueue
  <1>0. IsABag(m_commitQueue) /\ DOMAIN m_commitQueue \subseteq Nat
    BY DEF Inv, TypeOK, QueueTypeOK
  <1>2. /\ IsABag(With(m_commitQueue, n))
        /\ DOMAIN With(m_commitQueue, n) = DOMAIN m_commitQueue \cup {n}
    BY <1>0, WithBag
  <1>3. IsABag(m_blocks') /\ DOMAIN m_blocks' \subseteq Nat
    BY DEF UpdateCommitQueue, queues, Inv, TypeOK, QueueTypeOK
  <1> QED
    BY <1>0, <1>1, <1>2, <1>3, TryToCommitInv DEF UpdateCommitQueue, queues, Inv, QueuedExecuted

(* finalizeBlock drops the downloaded blocks that are published ...        *)
LEMMA FinalizeBlockInv ==
    ASSUME Inv, NEW n, FinalizeBlock(n), Others
    PROVE  Inv'
  <1> USE DEF services, queues, config, Others
  <1>1. Job("finalize", n) \in DOMAIN jobs /\ n \in Nat
    BY InFlightFacts DEF FinalizeBlock, InFlight
  <1>2. Replaced(Job("finalize", n), {Job("proceed", n)})
    BY WithoutWith DEF FinalizeBlock, Becomes, Inv, TypeOK, QueueTypeOK
  <1>3. IsABag(m_blocks') /\ DOMAIN m_blocks' \subseteq Nat
    BY ClearExpiredBag DEF FinalizeBlock, Inv, TypeOK, QueueTypeOK
  <1>4. /\ ConfigTypeOK' /\ ledger' \in Nat /\ stateHeight' \in Nat /\ failures' \in Nat
        /\ IsABag(m_commitQueue') /\ DOMAIN m_commitQueue' \subseteq Nat
        /\ UNCHANGED <<m_blockBuffer, download, network, task>>
        /\ Heights' /\ QueuedExecuted'
        /\ blockNumber <= blockNumber' /\ ledger <= ledger' /\ stateHeight <= stateHeight'
    BY DEF Inv, TypeOK, ConfigTypeOK, QueueTypeOK, Heights, QueuedExecuted, FinalizeBlock
  <1>5. \A k \in {Job("proceed", n)} : JobOK(k)'
    BY DEF Job, JobOK
  <1>6. {Job("proceed", n)} \in SUBSET [stage : Stages, num : Nat]
    BY <1>1 DEF Job, Stages
  <1>7. LedgerPublished'
    BY <1>2 DEF FinalizeBlock, Inv, LedgerPublished, InFlight, Replaced, Job, task
  <1> QED
    BY <1>1, <1>2, <1>3, <1>4, <1>5, <1>6, <1>7, ChainStep

(* ... and goes on to the next block.                                      *)
LEMMA CommitNextBlockInv ==
    ASSUME Inv, NEW n, CommitNextBlock(n), Others
    PROVE  Inv'
  <1>1. InFlight("proceed", n)
    BY DEF CommitNextBlock
  <1>2. IsABag(m_commitQueue) /\ DOMAIN m_commitQueue \subseteq Nat
    BY DEF Inv, TypeOK, QueueTypeOK
  <1>3. IsABag(m_blocks') /\ DOMAIN m_blocks' \subseteq Nat
    BY DEF CommitNextBlock, queues, Inv, TypeOK, QueueTypeOK
  <1> QED
    BY <1>1, <1>2, <1>3, TryToCommitInv DEF CommitNextBlock, queues, Inv, QueuedExecuted

(* BlockNotExecuted, BlockNotChecked, TransactionsNotStored and            *)
(* BlockNotCommitted, the error paths.                                     *)
LEMMA ErrorInv ==
    ASSUME Inv, NEW n, Others,
           \/ BlockNotExecuted(n) \/ BlockNotChecked(n)
           \/ TransactionsNotStored(n) \/ BlockNotCommitted(n)
    PROVE  Inv'
  <1> USE DEF Others
  <1>1. failures' \in Nat
    BY FailsType DEF BlockNotExecuted, BlockNotChecked, TransactionsNotStored, BlockNotCommitted,
       Inv, TypeOK, QueueTypeOK
  <1>2. UNCHANGED <<config, queues, m_commitQueue, services, download, network, task>>
    BY DEF BlockNotExecuted, BlockNotChecked, TransactionsNotStored, BlockNotCommitted
  <1>3. CASE BlockNotExecuted(n)
    <2>1. PICK v \in Nat : v = blockNumber
      BY DEF Inv, TypeOK, ConfigTypeOK
    <2>2. v <= stateHeight
      BY <2>1 DEF Inv, TypeOK, ConfigTypeOK, QueueTypeOK, Heights, QueuedExecuted
    <2> QED
      BY <1>1, <1>2, <1>3, <2>1, <2>2, AbandonStep DEF BlockNotExecuted
  <1>4. CASE BlockNotChecked(n) \/ TransactionsNotStored(n) \/ BlockNotCommitted(n)
    <2>1. PICK s \in {"check", "store", "commit"} : InFlight(s, n) /\ Abandon(s, n, n - 1)
      BY <1>4 DEF BlockNotChecked, TransactionsNotStored, BlockNotCommitted
    <2>2. n \in Nat /\ 1 <= n /\ n <= blockNumber + 1
      BY <2>1, InFlightFacts
    <2>3. n - 1 \in Nat /\ n - 1 <= stateHeight
      BY <2>2 DEF Inv, TypeOK, ConfigTypeOK, QueueTypeOK, Heights, QueuedExecuted
    <2> QED
      BY <1>1, <1>2, <2>1, <2>3, AbandonStep
  <1> QED
    BY <1>3, <1>4

(* checkAndCommitBlock sends back a block that is not the next one.        *)
LEMMA CheckAndCommitBlockInv ==
    ASSUME Inv, NEW n, CheckAndCommitBlock(n), Others
    PROVE  Inv'
  <1> USE DEF Others
  <1>1. InFlight("select", n) /\ n \in Nat /\ 1 <= n /\ n <= blockNumber + 1 /\ n <= stateHeight
    BY InFlightFacts DEF CheckAndCommitBlock
  <1>2. /\ UNCHANGED <<config, queues, m_commitQueue, services, download, network, task>>
        /\ failures' \in Nat
    BY DEF CheckAndCommitBlock, Inv, TypeOK, QueueTypeOK
  <1>3. CASE n = nextBlock
    <2>1. Becomes("select", "check", n)
      BY <1>3 DEF CheckAndCommitBlock
    <2>2. JobOK(Job("check", n)) /\ "check" \in Stages
      BY <1>1 DEF JobOK, Job, Stages
    <2> QED
      BY <1>1, <1>2, <2>1, <2>2, BecomesStep
  <1>4. CASE n # nextBlock
    <2>1. PICK v \in Nat : v = blockNumber
      BY DEF Inv, TypeOK, ConfigTypeOK
    <2>2. v <= stateHeight
      BY <2>1 DEF Inv, TypeOK, ConfigTypeOK, QueueTypeOK, Heights, QueuedExecuted
    <2>3. Abandon("select", n, v)
      BY <1>4, <2>1 DEF CheckAndCommitBlock
    <2> QED
      BY <1>1, <1>2, <2>2, <2>3, AbandonStep
  <1> QED
    BY <1>3, <1>4

(* commitBlock starts the store, and for an empty block the commit too.    *)
LEMMA CommitBlockInv ==
    ASSUME Inv, NEW n, CommitBlock(n), Others
    PROVE  Inv'
  <1> USE DEF Others
  <1>1. InFlight("check", n) /\ n \in Nat /\ 1 <= n /\ n <= blockNumber + 1 /\ n <= stateHeight
    BY InFlightFacts DEF CommitBlock
  <1>2. /\ UNCHANGED <<config, queues, m_commitQueue, services, download, network, task>>
        /\ failures' \in Nat
    BY DEF CommitBlock, Inv, TypeOK, QueueTypeOK
  <1> DEFINE J == Job("check", n)
             S == Job("store", n)
             C == Job("commit", n)
             js == With(Without(jobs, J), S)
  <1>3. JobOK(S) /\ JobOK(C) /\ {S, C} \subseteq [stage : Stages, num : Nat]
    BY <1>1 DEF JobOK, Job, Stages
  <1>4. /\ IsABag(Without(jobs, J))
        /\ DOMAIN Without(jobs, J) \subseteq DOMAIN jobs
        /\ DOMAIN jobs \ {J} \subseteq DOMAIN Without(jobs, J)
    BY WithoutBag DEF Inv, TypeOK, QueueTypeOK
  <1>5. IsABag(js) /\ DOMAIN js = DOMAIN Without(jobs, J) \cup {S}
    BY <1>4, WithBag
  <1>6. IsABag(With(js, C)) /\ DOMAIN With(js, C) = DOMAIN js \cup {C}
    BY <1>5, WithBag
  <1>7. jobs' = js \/ jobs' = With(js, C)
    BY DEF CommitBlock
  <1> HIDE DEF J, S, C, js
  <1>8. PICK K \in {{S}, {S, C}} : Replaced(J, K)
    <2>1. CASE jobs' = js
      BY <1>4, <1>5, <2>1 DEF Replaced
    <2>2. CASE jobs' = With(js, C)
      BY <1>4, <1>5, <1>6, <2>2 DEF Replaced
    <2> QED
      BY <1>7, <2>1, <2>2
  <1>9. K \in SUBSET [stage : Stages, num : Nat] /\ \A k \in K : JobOK(k)
    BY <1>3, <1>8
  <1> QED
    BY <1>1, <1>2, <1>8, <1>9, QuietStep DEF J

(* commitBlockState after the transactions were stored.                    *)
LEMMA TransactionsStoredInv ==
    ASSUME Inv, NEW n, TransactionsStored(n), Others
    PROVE  Inv'
  <1> USE DEF Others
  <1>1. InFlight("store", n) /\ n \in Nat /\ 1 <= n /\ n <= blockNumber + 1 /\ n <= stateHeight
    BY InFlightFacts DEF TransactionsStored
  <1>2. JobOK(Job("commit", n)) /\ "commit" \in Stages
    BY <1>1 DEF JobOK, Job, Stages
  <1>3. failures' \in Nat
    BY DEF TransactionsStored, Inv, TypeOK, QueueTypeOK
  <1> QED
    BY <1>1, <1>2, <1>3, BecomesStep DEF TransactionsStored

(* setExecutedBlock's guard.                                               *)
LEMMA SetExecutedBlockInv ==
    ASSUME Inv, NEW v, SetExecutedBlock(v), Others
    PROVE  Inv'
  <1> USE DEF Others
  <1>1. InFlight("reset", v) /\ v \in Nat /\ v <= stateHeight
    BY InFlightFacts DEF SetExecutedBlock
  <1>2. /\ UNCHANGED <<config, queues, m_commitQueue, services, download, network, task>>
        /\ failures' \in Nat
    BY DEF SetExecutedBlock, Inv, TypeOK, QueueTypeOK
  <1>3. CASE Becomes("reset", "assign", v)
    <2>1. JobOK(Job("assign", v)) /\ "assign" \in Stages
      BY <1>1 DEF JobOK, Job, Stages
    <2> QED
      BY <1>1, <1>2, <1>3, <2>1, BecomesStep
  <1>4. CASE jobs' = Without(jobs, Job("reset", v))
    <2>1. Replaced(Job("reset", v), {})
      BY <1>4, JustWithout DEF Inv, TypeOK, QueueTypeOK
    <2> QED
      BY <1>1, <1>2, <2>1, QuietStep
  <1> QED
    BY <1>3, <1>4 DEF SetExecutedBlock

(* The scheduler has committed the block: its executed predecessor was the *)
(* ledger's last one, and the callback that publishes it is on its way.    *)
LEMMA BlockCommittedInv ==
    ASSUME Inv, NEW n, BlockCommitted(n), Others
    PROVE  Inv'
  <1> USE DEF services, queues, config, Others
  <1>1. Job("commit", n) \in DOMAIN jobs /\ n \in Nat /\ n <= blockNumber + 1 /\ n <= stateHeight
    BY InFlightFacts DEF BlockCommitted, InFlight
  <1>2. n = ledger + 1 /\ ledger' = n
    BY DEF BlockCommitted
  <1>3. Replaced(Job("commit", n), {Job("committed", n)})
    BY WithoutWith DEF BlockCommitted, Becomes, Inv, TypeOK, QueueTypeOK
  <1>4. /\ ConfigTypeOK' /\ ledger' \in Nat /\ stateHeight' \in Nat /\ failures' \in Nat
        /\ IsABag(m_blocks') /\ DOMAIN m_blocks' \subseteq Nat
        /\ IsABag(m_commitQueue') /\ DOMAIN m_commitQueue' \subseteq Nat
        /\ UNCHANGED <<m_blockBuffer, download, network, task>>
        /\ Heights' /\ QueuedExecuted'
        /\ blockNumber <= blockNumber' /\ ledger <= ledger' /\ stateHeight <= stateHeight'
    BY <1>1, <1>2 DEF Inv, TypeOK, ConfigTypeOK, QueueTypeOK, Heights, QueuedExecuted, BlockCommitted
  <1>5. \A k \in {Job("committed", n)} : JobOK(k)'
    BY <1>1, <1>2, <1>4 DEF BlockCommitted, Job, JobOK
  <1>6. {Job("committed", n)} \in SUBSET [stage : Stages, num : Nat]
    BY <1>1 DEF Job, Stages
  <1>7. LedgerPublished'
    <2>1. blockNumber' < ledger'
      BY <1>2 DEF BlockCommitted, Inv, TypeOK, ConfigTypeOK, QueueTypeOK, Heights
    <2>2. Job("committed", n) \in DOMAIN jobs'
      BY <1>3 DEF Replaced
    <2> QED
      BY <1>2, <2>1, <2>2 DEF LedgerPublished, InFlight
  <1> QED
    BY <1>1, <1>3, <1>4, <1>5, <1>6, <1>7, ChainStep

(* asyncNotifyNewBlock drops the news of a block only when that block is   *)
(* published already.                                                      *)
LEMMA AsyncNotifyNewBlockInv ==
    ASSUME Inv, NEW n, AsyncNotifyNewBlock(n), Others
    PROVE  Inv'
  <1> USE DEF services, queues, config, Others
  <1>1. Job("notify", n) \in DOMAIN jobs /\ n \in Nat /\ n <= ledger /\ n <= stateHeight
    BY InFlightFacts DEF AsyncNotifyNewBlock, InFlight
  <1>2. /\ ConfigTypeOK' /\ ledger' \in Nat /\ stateHeight' \in Nat /\ failures' \in Nat
        /\ IsABag(m_blocks') /\ DOMAIN m_blocks' \subseteq Nat
        /\ IsABag(m_commitQueue') /\ DOMAIN m_commitQueue' \subseteq Nat
        /\ UNCHANGED <<m_blockBuffer, download, network, task>>
        /\ Heights' /\ QueuedExecuted'
        /\ blockNumber <= blockNumber' /\ ledger <= ledger' /\ stateHeight <= stateHeight'
    BY DEF Inv, TypeOK, ConfigTypeOK, QueueTypeOK, Heights, QueuedExecuted, AsyncNotifyNewBlock
  <1>3. CASE n > blockNumber
    <2>1. Replaced(Job("notify", n), {Job("committed", n)})
      BY <1>3, WithoutWith DEF AsyncNotifyNewBlock, Becomes, Inv, TypeOK, QueueTypeOK
    <2>2. \A k \in {Job("committed", n)} : JobOK(k)'
      BY <1>1 DEF AsyncNotifyNewBlock, Job, JobOK
    <2>3. {Job("committed", n)} \in SUBSET [stage : Stages, num : Nat]
      BY <1>1 DEF Job, Stages
    <2>4. LedgerPublished'
      BY <2>1 DEF AsyncNotifyNewBlock, Inv, LedgerPublished, InFlight, Replaced, Job, task
    <2> QED
      BY <1>1, <1>2, <2>1, <2>2, <2>3, <2>4, ChainStep
  <1>4. CASE ~(n > blockNumber)
    <2>1. Replaced(Job("notify", n), {})
      BY <1>4, JustWithout DEF AsyncNotifyNewBlock, Inv, TypeOK, QueueTypeOK
    <2>2. n <= blockNumber
      BY <1>1, <1>4 DEF Inv, TypeOK, ConfigTypeOK
    <2>3. LedgerPublished'
      BY <1>1, <2>1, <2>2 DEF AsyncNotifyNewBlock, Inv, TypeOK, ConfigTypeOK, QueueTypeOK,
         LedgerPublished, InFlight, Replaced, Job, task
    <2> QED
      BY <1>1, <1>2, <2>1, <2>3, ChainStep
  <1> QED
    BY <1>3, <1>4

(* onNewBlock publishes a committed block, and never an older one than the *)
(* block published last.                                                   *)
LEMMA OnNewBlockInv ==
    ASSUME Inv, NEW n, OnNewBlock(n), Others
    PROVE  Inv'
  <1> USE DEF services, queues, config, Others
  <1>1. Job("committed", n) \in DOMAIN jobs /\ n \in Nat /\ n <= ledger /\ n <= stateHeight
    BY InFlightFacts DEF OnNewBlock, InFlight
  <1>2. PICK t \in {"published", "finalize"} : Becomes("committed", t, n)
    BY DEF OnNewBlock
  <1>3. Replaced(Job("committed", n), {Job(t, n)})
    BY <1>2, WithoutWith DEF Becomes, Inv, TypeOK, QueueTypeOK
  <1>4. /\ UNCHANGED <<nextBlock, executedBlock, knownHighestNumber, committedProposalNumber>>
        /\ blockNumber <= blockNumber' /\ n <= blockNumber'
        /\ blockNumber' \in {blockNumber, n}
    <2>1. CASE IsNewHeight(n)
      BY <1>1, <2>1 DEF IsNewHeight, PublishNumber, OnNewBlock, Inv, TypeOK, ConfigTypeOK
    <2>2. CASE ~IsNewHeight(n)
      BY <1>1, <2>2 DEF IsNewHeight, OnNewBlock, Inv, TypeOK, ConfigTypeOK
    <2> QED
      BY <2>1, <2>2
  <1>5. /\ ConfigTypeOK' /\ ledger' \in Nat /\ stateHeight' \in Nat /\ failures' \in Nat
        /\ IsABag(m_blocks') /\ DOMAIN m_blocks' \subseteq Nat
        /\ IsABag(m_commitQueue') /\ DOMAIN m_commitQueue' \subseteq Nat
        /\ UNCHANGED <<m_blockBuffer, download, network, task>>
        /\ Heights' /\ QueuedExecuted'
        /\ ledger <= ledger' /\ stateHeight <= stateHeight' /\ n <= stateHeight'
    BY <1>1, <1>4 DEF Inv, TypeOK, ConfigTypeOK, QueueTypeOK, Heights, QueuedExecuted, OnNewBlock
  <1>6. JobOK(Job(t, n))'
    BY <1>2, <1>4, <1>5 DEF Job, JobOK
  <1>7. \A k \in {Job(t, n)} : JobOK(k)'
    BY <1>6
  <1>8. {Job(t, n)} \in SUBSET [stage : Stages, num : Nat]
    BY <1>1, <1>2 DEF Job, Stages
  <1>9. LedgerPublished'
    <2>1. ledger' = ledger
      BY DEF OnNewBlock
    <2>2. CASE n = ledger
      BY <1>1, <1>4, <1>5, <2>1, <2>2 DEF LedgerPublished, ConfigTypeOK, Heights
    <2>3. CASE n # ledger
      <3>1. CASE \E s \in {"notify", "committed"} : InFlight(s, ledger)
        <4>1. \E s \in {"notify", "committed"} : InFlight(s, ledger)'
          BY <1>3, <2>1, <2>3, <3>1 DEF InFlight, Replaced, Job
        <4> QED
          BY <1>5, <4>1 DEF LedgerPublished, Heights, ConfigTypeOK
      <3>2. CASE blockNumber = ledger
        BY <1>4, <1>5, <2>1, <3>2 DEF LedgerPublished, Heights, ConfigTypeOK, Inv, TypeOK, QueueTypeOK
      <3>3. CASE pc = "crashed"
        BY <3>3 DEF LedgerPublished, task
      <3> QED
        BY <3>1, <3>2, <3>3 DEF Inv, LedgerPublished
    <2> QED
      BY <2>2, <2>3
  <1> QED
    BY <1>1, <1>3, <1>4, <1>5, <1>7, <1>8, <1>9, ChainStep

(* resetBlockInfo announces the block after one that is published.         *)
LEMMA ResetBlockInfoInv ==
    ASSUME Inv, NEW n, ResetBlockInfo(n), Others
    PROVE  Inv'
  <1> USE DEF services, queues, config, Others
  <1>1. /\ Job("published", n) \in DOMAIN jobs /\ n \in Nat
        /\ n <= blockNumber /\ n <= stateHeight
    BY InFlightFacts DEF ResetBlockInfo, InFlight
  <1>2. PICK t \in {"level", "finalize"} : Becomes("published", t, n)
    BY DEF ResetBlockInfo
  <1>3. Replaced(Job("published", n), {Job(t, n)})
    BY <1>2, WithoutWith DEF Becomes, Inv, TypeOK, QueueTypeOK
  <1>4. /\ ConfigTypeOK' /\ ledger' \in Nat /\ stateHeight' \in Nat /\ failures' \in Nat
        /\ IsABag(m_blocks') /\ DOMAIN m_blocks' \subseteq Nat
        /\ IsABag(m_commitQueue') /\ DOMAIN m_commitQueue' \subseteq Nat
        /\ UNCHANGED <<m_blockBuffer, download, network, task>>
        /\ Heights' /\ QueuedExecuted'
        /\ blockNumber <= blockNumber' /\ ledger <= ledger' /\ stateHeight <= stateHeight'
        /\ n <= blockNumber' /\ n <= stateHeight'
    BY <1>1 DEF Inv, TypeOK, ConfigTypeOK, QueueTypeOK, Heights, QueuedExecuted, ResetBlockInfo,
       PublishNextBlock
  <1>5. JobOK(Job(t, n))'
    BY <1>2, <1>4 DEF Job, JobOK
  <1>6. \A k \in {Job(t, n)} : JobOK(k)'
    BY <1>5
  <1>7. {Job(t, n)} \in SUBSET [stage : Stages, num : Nat]
    BY <1>1, <1>2 DEF Job, Stages
  <1>8. LedgerPublished'
    BY <1>3 DEF ResetBlockInfo, PublishNextBlock, Inv, LedgerPublished, InFlight, Replaced, Job, task
  <1> QED
    BY <1>1, <1>3, <1>4, <1>6, <1>7, <1>8, ChainStep

(* resetBlockInfo's assignment of the executed height.                     *)
LEMMA LevelExecutedBlockInv ==
    ASSUME Inv, NEW n, LevelExecutedBlock(n), Others
    PROVE  Inv'
  <1> USE DEF services, queues, config, Others
  <1>1. Job("level", n) \in DOMAIN jobs /\ n \in Nat /\ n <= stateHeight
    BY InFlightFacts DEF LevelExecutedBlock, InFlight
  <1>2. Replaced(Job("level", n), {Job("finalize", n)})
    BY WithoutWith DEF LevelExecutedBlock, Becomes, Inv, TypeOK, QueueTypeOK
  <1>3. /\ ConfigTypeOK' /\ ledger' \in Nat /\ stateHeight' \in Nat /\ failures' \in Nat
        /\ IsABag(m_blocks') /\ DOMAIN m_blocks' \subseteq Nat
        /\ IsABag(m_commitQueue') /\ DOMAIN m_commitQueue' \subseteq Nat
        /\ UNCHANGED <<m_blockBuffer, download, network, task>>
        /\ Heights' /\ QueuedExecuted'
        /\ blockNumber <= blockNumber' /\ ledger <= ledger' /\ stateHeight <= stateHeight'
    BY <1>1 DEF Inv, TypeOK, ConfigTypeOK, QueueTypeOK, Heights, QueuedExecuted, LevelExecutedBlock,
       AssignExecuted
  <1>4. \A k \in {Job("finalize", n)} : JobOK(k)'
    BY DEF Job, JobOK
  <1>5. {Job("finalize", n)} \in SUBSET [stage : Stages, num : Nat]
    BY <1>1 DEF Job, Stages
  <1>6. LedgerPublished'
    BY <1>2 DEF LevelExecutedBlock, AssignExecuted, Inv, LedgerPublished, InFlight, Replaced, Job,
       task
  <1> QED
    BY <1>1, <1>2, <1>3, <1>4, <1>5, <1>6, ChainStep

(* setExecutedBlock's assignment, however late it comes, claims only what  *)
(* the scheduler has executed.                                             *)
LEMMA AssignExecutedBlockInv ==
    ASSUME Inv, NEW v, AssignExecutedBlock(v), Others
    PROVE  Inv'
  <1> USE DEF services, queues, config, Others
  <1>1. Job("assign", v) \in DOMAIN jobs /\ v \in Nat /\ v <= stateHeight
    BY InFlightFacts DEF AssignExecutedBlock, InFlight
  <1>2. Replaced(Job("assign", v), {})
    BY JustWithout DEF AssignExecutedBlock, Inv, TypeOK, QueueTypeOK
  <1>3. /\ ConfigTypeOK' /\ ledger' \in Nat /\ stateHeight' \in Nat /\ failures' \in Nat
        /\ IsABag(m_blocks') /\ DOMAIN m_blocks' \subseteq Nat
        /\ IsABag(m_commitQueue') /\ DOMAIN m_commitQueue' \subseteq Nat
        /\ UNCHANGED <<m_blockBuffer, download, network, task>>
        /\ Heights' /\ QueuedExecuted'
        /\ blockNumber <= blockNumber' /\ ledger <= ledger' /\ stateHeight <= stateHeight'
    BY <1>1 DEF Inv, TypeOK, ConfigTypeOK, QueueTypeOK, Heights, QueuedExecuted, AssignExecutedBlock,
       AssignExecuted
  <1>4. LedgerPublished'
    BY <1>2 DEF AssignExecutedBlock, AssignExecuted, Inv, LedgerPublished, InFlight, Replaced, Job,
       task
  <1> QED
    BY <1>1, <1>2, <1>3, <1>4, ChainStep

(* Every step of a callback chain keeps the invariant.                     *)
LEMMA CallbackInv ==
    ASSUME Inv, NEW n, Callback(n)
    PROVE  Inv'
  <1>1. Others
    BY DEF Callback, Others
  <1> QED
    BY <1>1, BlockExecutedInv, RaiseExecutedBlockInv, UpdateCommitQueueInv, FinalizeBlockInv,
       ErrorInv, CheckAndCommitBlockInv, CommitBlockInv, TransactionsStoredInv,
       SetExecutedBlockInv, BlockCommittedInv, AsyncNotifyNewBlockInv, OnNewBlockInv,
       ResetBlockInfoInv, LevelExecutedBlockInv, CommitNextBlockInv, AssignExecutedBlockInv
    DEF Callback, JobStep

-----------------------------------------------------------------------------
(* The download task, the handlers and the environment *)

(***************************************************************************)
(* The invariant after a step that is not a callback's: it may start the   *)
(* chains of the set K, and ends none.                                     *)
(***************************************************************************)
LEMMA GrowStep ==
    ASSUME Inv, TypeOK', Heights', QueuedExecuted', LedgerPublished', HeldExecuted',
           pc # "crashed", pc' # "crashed",
           blockNumber <= blockNumber', ledger <= ledger', stateHeight <= stateHeight',
           NEW K, DOMAIN jobs' \subseteq DOMAIN jobs \cup K,
           \A k \in K : JobOK(k)'
    PROVE  Inv'
  <1>1. JobsOK'
    <2> SUFFICES ASSUME NEW i \in DOMAIN jobs' PROVE JobOK(i)'
      BY DEF JobsOK
    <2>1. CASE i \in K
      BY <2>1
    <2>2. CASE i \in DOMAIN jobs
      <3>1. JobOK(i) /\ i \in [stage : Stages, num : Nat]
        BY <2>2 DEF Inv, JobsOK, TypeOK, QueueTypeOK
      <3> QED
        BY <3>1 DEF JobOK, Inv, TypeOK, ConfigTypeOK, QueueTypeOK
    <2> QED
      BY <2>1, <2>2
  <1> QED
    BY <1>1 DEF Inv, CrashedQuiet

(* A step that touches neither a callback chain nor a height that the      *)
(* invariant is about.                                                     *)
LEMMA FrameStep ==
    ASSUME Inv, TypeOK', (pc = "crashed") <=> (pc' = "crashed"), HeldExecuted',
           UNCHANGED <<blockNumber, nextBlock, executedBlock, m_commitQueue, jobs, services>>
    PROVE  Inv'
  BY DEF Inv, Heights, JobsOK, JobOK, QueuedExecuted, LedgerPublished, InFlight, CrashedQuiet,
     services

(* Adding a set of elements to a bag.                                      *)
LEMMA PlusSetBag ==
    ASSUME NEW b, NEW S, IsABag(b)
    PROVE  IsABag(b (+) SetToBag(S)) /\ DOMAIN (b (+) SetToBag(S)) = DOMAIN b \cup S
  BY DEF IsABag, SetToBag, (+)

(* The task moves on, and has not died.                                    *)
LEMMA GotoType ==
    ASSUME SyncTypeOK, NEW l \in Positions \ {"crashed", "ignore", "assign"}, Goto(l)
    PROVE  /\ pc' \in Positions /\ pc' # "crashed" /\ executed' \in Nat /\ block' \in Nat
           /\ HeldExecuted'
  BY DEF SyncTypeOK, Goto, HeldExecuted

(* maintainDownloadingBuffer and the loop of flushBufferToQueue.           *)
LEMMA BufferInv ==
    ASSUME Inv, MaintainDownloadingBuffer \/ FlushBufferToQueue
    PROVE  Inv'
  <1> USE DEF services, queues, config, download, network
  <1>1. SyncTypeOK /\ IsABag(m_blocks) /\ DOMAIN m_blocks \subseteq Nat /\ m_blockBuffer \in Seq(Nat)
    BY DEF Inv, TypeOK, QueueTypeOK
  <1>2. PICK l \in {"maintain", "flush"} : Goto(l)
    BY DEF MaintainDownloadingBuffer, FlushBufferToQueue
  <1>3. /\ pc' \in Positions /\ pc' # "crashed" /\ executed' \in Nat /\ block' \in Nat
        /\ HeldExecuted'
    BY <1>1, <1>2, GotoType DEF Positions
  <1>4. /\ UNCHANGED <<config, m_commitQueue, jobs, services, failures, download, network>>
        /\ pc # "crashed"
    BY DEF MaintainDownloadingBuffer, FlushBufferToQueue
  <1>5. m_blockBuffer' \in Seq(Nat) /\ IsABag(m_blocks') /\ DOMAIN m_blocks' \subseteq Nat
    <2>1. CASE MaintainDownloadingBuffer
      <3>1. m_blockBuffer' = m_blockBuffer \/ m_blockBuffer' = <<>>
        BY <2>1 DEF MaintainDownloadingBuffer, Clear
      <3>2. m_blocks' = m_blocks \/ m_blocks' = EmptyBag
        BY <2>1 DEF MaintainDownloadingBuffer, Clear, ClearFullQueueIfNotHas
      <3>3. m_blockBuffer' \in Seq(Nat)
        BY <1>1, <3>1, EmptyBuffer, Zenon
      <3>4. IsABag(m_blocks') /\ DOMAIN m_blocks' \subseteq Nat
        BY <1>1, <3>2, EmptyBagBag
      <3> QED
        BY <3>3, <3>4
    <2>2. CASE FlushBufferToQueue
      <3>1. CASE m_blockBuffer = <<>>
        BY <1>1, <2>2, <3>1 DEF FlushBufferToQueue
      <3>2. CASE m_blockBuffer # <<>>
        <4>1. Head(m_blockBuffer) \in Nat /\ Tail(m_blockBuffer) \in Seq(Nat)
          BY <1>1, <3>2
        <4>2. /\ IsABag(With(m_blocks, Head(m_blockBuffer)))
              /\ DOMAIN With(m_blocks, Head(m_blockBuffer)) = DOMAIN m_blocks \cup {Head(m_blockBuffer)}
          BY <1>1, WithBag
        <4> QED
          BY <1>1, <2>2, <3>2, <4>1, <4>2 DEF FlushBufferToQueue, FlushOneShard
      <3> QED
        BY <3>1, <3>2
    <2> QED
      BY <2>1, <2>2
  <1>6. TypeOK'
    BY <1>3, <1>4, <1>5 DEF Inv, TypeOK, ConfigTypeOK, QueueTypeOK, SyncTypeOK
  <1> QED
    BY <1>3, <1>4, <1>6, FrameStep

(* maintainDownloadingQueue's tryToCommitBlockToLedger may start a chain.  *)
LEMMA MaintainDownloadingQueueInv ==
    ASSUME Inv, MaintainDownloadingQueue
    PROVE  Inv'
  <1> USE DEF services, queues, config, download, network
  <1>1. /\ UNCHANGED <<config, services, failures, network>>
        /\ pc # "crashed" /\ SyncTypeOK
    BY DEF MaintainDownloadingQueue, Inv, TypeOK
  <1>2. CASE ~ShouldSyncing
    <2>1. Clear /\ DownloadFinish /\ Goto("request") /\ UNCHANGED <<m_commitQueue, jobs>>
      BY <1>2 DEF MaintainDownloadingQueue
    <2>2. /\ pc' \in Positions /\ pc' # "crashed" /\ executed' \in Nat /\ block' \in Nat
        /\ HeldExecuted'
      BY <1>1, <2>1, GotoType DEF Positions
    <2>3. m_blockBuffer' \in Seq(Nat) /\ IsABag(m_blocks') /\ DOMAIN m_blocks' \subseteq Nat
      BY <2>1, EmptyBagBag DEF Clear
    <2>4. TypeOK'
      BY <1>1, <2>1, <2>2, <2>3 DEF Inv, TypeOK, ConfigTypeOK, QueueTypeOK, SyncTypeOK, DownloadFinish
    <2> QED
      BY <1>1, <2>1, <2>2, <2>4, FrameStep
  <1>3. CASE ShouldSyncing
    <2>1. /\ TryToCommitBlockToLedger(m_commitQueue, jobs)
          /\ executed' = executedBlock /\ pc' = "expire"
          /\ UNCHANGED <<queues, download, block>>
      BY <1>3 DEF MaintainDownloadingQueue
    <2>2. PICK m \in Nat : m = nextBlock
      BY DEF Inv, TypeOK, ConfigTypeOK
    <2>3. ConfigTypeOK /\ IsABag(m_commitQueue) /\ DOMAIN m_commitQueue \subseteq Nat /\ IsABag(jobs)
      BY DEF Inv, TypeOK, QueueTypeOK
    <2>4. /\ IsABag(m_commitQueue') /\ DOMAIN m_commitQueue' \subseteq Nat
          /\ DOMAIN m_commitQueue' \subseteq DOMAIN m_commitQueue
          /\ IsABag(jobs')
          /\ \/ DOMAIN jobs' = DOMAIN jobs
             \/ /\ DOMAIN jobs' = DOMAIN jobs \cup {Job("select", m)}
                /\ m \in DOMAIN m_commitQueue
      BY <2>1, <2>2, <2>3, TryToCommitStep
    <2>5. PICK K \in {{}, {Job("select", m)}} :
             DOMAIN jobs' = DOMAIN jobs \cup K /\ (K # {} => m <= stateHeight)
      BY <2>4 DEF Inv, QueuedExecuted
    <2>6. \A k \in K : JobOK(k)'
      <3>1. K # {} => JobOK(Job("select", m))'
        BY <1>1, <2>2, <2>5 DEF Job, JobOK, Heights, Inv, TypeOK, ConfigTypeOK
      <3> QED
        BY <2>5, <3>1
    <2>7. K \subseteq [stage : Stages, num : Nat]
      BY <2>2, <2>5 DEF Job, Stages
    <2>8. TypeOK'
      BY <1>1, <2>1, <2>4, <2>5, <2>7
      DEF Inv, TypeOK, ConfigTypeOK, QueueTypeOK, SyncTypeOK, Positions
    <2>9. Heights' /\ QueuedExecuted' /\ LedgerPublished' /\ HeldExecuted' /\ pc' # "crashed"
      BY <1>1, <2>1, <2>4, <2>5
      DEF Inv, Heights, QueuedExecuted, LedgerPublished, HeldExecuted, InFlight
    <2>10. blockNumber <= blockNumber' /\ ledger <= ledger' /\ stateHeight <= stateHeight'
      BY <1>1 DEF Inv, TypeOK, ConfigTypeOK, QueueTypeOK
    <2> QED
      BY <1>1, <2>5, <2>6, <2>8, <2>9, <2>10, GrowStep
  <1> QED
    BY <1>2, <1>3

(* The steps that only read the queues, or take a block off m_blocks.      *)
LEMMA ExpireInv ==
    ASSUME Inv, \/ ExpireLoop \/ ExpireTop \/ ExpirePop \/ LimitExecuted
                \/ CheckContinuous \/ TakeExpectedBlock \/ TakeTop
    PROVE  Inv'
  <1> USE DEF services, queues, config, download, network, TaskOnly
  <1>1. SyncTypeOK /\ IsABag(m_blocks) /\ DOMAIN m_blocks \subseteq Nat
    BY DEF Inv, TypeOK, QueueTypeOK
  <1>2. /\ UNCHANGED <<config, m_blockBuffer, m_commitQueue, jobs, services, failures, download, network>>
        /\ pc # "crashed"
    BY DEF ExpireLoop, ExpireTop, ExpirePop, LimitExecuted, CheckContinuous,
       TakeExpectedBlock, TakeTop
  <1>3. PICK l \in {"limit", "expireTop", "expirePop", "expire", "request",
                    "continuous", "take", "takeTop", "grab"} : Goto(l)
    BY DEF ExpireLoop, ExpireTop, ExpirePop, LimitExecuted, CheckContinuous,
       TakeExpectedBlock, TakeTop
  <1>4. /\ pc' \in Positions /\ pc' # "crashed" /\ executed' \in Nat /\ block' \in Nat
        /\ HeldExecuted'
    BY <1>1, <1>3, GotoType DEF Positions
  <1>5. IsABag(m_blocks') /\ DOMAIN m_blocks' \subseteq Nat
    <2>1. CASE UNCHANGED m_blocks
      BY <1>1, <2>1
    <2>2. CASE \E n \in DOMAIN m_blocks : m_blocks' = Without(m_blocks, n)
      BY <1>1, <2>2, WithoutBag
    <2> QED
      BY <2>1, <2>2 DEF ExpireLoop, ExpireTop, ExpirePop, LimitExecuted, CheckContinuous,
       TakeExpectedBlock, TakeTop, Pop
  <1>6. TypeOK'
    BY <1>2, <1>4, <1>5 DEF Inv, TypeOK, ConfigTypeOK, QueueTypeOK, SyncTypeOK
  <1> QED
    BY <1>2, <1>4, <1>6, FrameStep

(* The task holds the block that it is about to apply.                     *)
LEMMA GrabBlockInv ==
    ASSUME Inv, GrabBlock
    PROVE  Inv'
  <1> USE DEF services, queues, config, download, network, TaskOnly
  <1>1. /\ UNCHANGED <<config, queues, m_commitQueue, jobs, services, failures, download, network>>
        /\ pc = "grab" /\ pc' = "apply" /\ executed' = 0
    BY DEF GrabBlock
  <1>2. block' \in Nat
    BY DEF GrabBlock, Inv, TypeOK, QueueTypeOK
  <1>3. TypeOK'
    BY <1>1, <1>2 DEF Inv, TypeOK, ConfigTypeOK, QueueTypeOK, SyncTypeOK, Positions
  <1>4. HeldExecuted'
    BY <1>1 DEF HeldExecuted
  <1> QED
    BY <1>1, <1>3, <1>4, FrameStep

(* A block taken off m_blocks is executed, or is old and the published     *)
(* height is read instead.                                                 *)
LEMMA ApplyGrabbedBlockInv ==
    ASSUME Inv, ApplyGrabbedBlock
    PROVE  Inv'
  <1> USE DEF services, queues, config, download, network
  <1>1. /\ SyncTypeOK /\ IsABag(m_blocks) /\ DOMAIN m_blocks \subseteq Nat /\ IsABag(jobs)
        /\ DOMAIN jobs \subseteq [stage : Stages, num : Nat]
    BY DEF Inv, TypeOK, QueueTypeOK
  <1>0. PICK n \in Nat : n = block
    BY DEF Inv, TypeOK, SyncTypeOK
  <1>2. /\ UNCHANGED <<config, m_blockBuffer, m_commitQueue, services, failures,
                       m_downloadingTimer, m_maxRequestNumber, network>>
        /\ m_state' = "Downloading"
        /\ pc # "crashed"
    BY DEF ApplyGrabbedBlock
  <1>3. /\ pc' \in Positions /\ pc' # "crashed" /\ executed' \in Nat /\ block' \in Nat
        /\ HeldExecuted'
    <2>1. CASE Goto("request")
      BY <1>1, <2>1, GotoType DEF Positions
    <2>2. CASE pc' = "ignore" /\ block' = blockNumber /\ UNCHANGED executed
      BY <1>1, <1>2, <2>2 DEF Positions, HeldExecuted, SyncTypeOK, Inv, TypeOK, ConfigTypeOK,
         QueueTypeOK, Heights
    <2> QED
      BY <2>1, <2>2 DEF ApplyGrabbedBlock
  <1>4. IsABag(m_blocks') /\ DOMAIN m_blocks' \subseteq Nat
    <2>1. m_blocks' = m_blocks \/ \E k \in DOMAIN m_blocks : m_blocks' = Without(m_blocks, k)
      BY DEF ApplyGrabbedBlock, Pop
    <2> QED
      BY <1>1, <2>1, WithoutBag
  <1>5. PICK K \in {{}, {Job("execute", n)}} : IsABag(jobs') /\ DOMAIN jobs' = DOMAIN jobs \cup K
    BY <1>0, <1>1, WithBag DEF ApplyGrabbedBlock, ApplyBlock
  <1>6. \A k \in K : JobOK(k)' /\ k \in [stage : Stages, num : Nat]
    BY <1>1, <1>5 DEF Job, JobOK, Stages
  <1>7. TypeOK'
    BY <1>1, <1>2, <1>3, <1>4, <1>5, <1>6
    DEF Inv, TypeOK, ConfigTypeOK, QueueTypeOK, SyncTypeOK
  <1>8. /\ Heights' /\ QueuedExecuted'
        /\ blockNumber <= blockNumber' /\ ledger <= ledger' /\ stateHeight <= stateHeight'
    BY <1>2 DEF Inv, TypeOK, ConfigTypeOK, QueueTypeOK, Heights, QueuedExecuted
  <1>9. LedgerPublished'
    BY <1>2, <1>3, <1>5 DEF Inv, LedgerPublished, InFlight
  <1> QED
    BY <1>2, <1>3, <1>5, <1>6, <1>7, <1>8, <1>9, GrowStep

(* applyBlock's setExecutedBlock with the published height, its guard.     *)
LEMMA IgnoreBlockInv ==
    ASSUME Inv, IgnoreBlock
    PROVE  Inv'
  <1> USE DEF services, queues, config, download, network, TaskOnly
  <1>1. /\ UNCHANGED <<config, queues, m_commitQueue, jobs, services, failures, download, network>>
        /\ pc = "ignore" /\ SyncTypeOK
    BY DEF IgnoreBlock, Inv, TypeOK
  <1>2. /\ pc' \in Positions /\ pc' # "crashed" /\ executed' \in Nat /\ block' \in Nat
        /\ HeldExecuted'
    <2>1. CASE Goto("request")
      BY <1>1, <2>1, GotoType DEF Positions
    <2>2. CASE Goto("assign")
      BY <1>1, <2>2 DEF Goto, Positions, Inv, HeldExecuted, SyncTypeOK
    <2> QED
      BY <2>1, <2>2 DEF IgnoreBlock
  <1>3. TypeOK'
    BY <1>1, <1>2 DEF Inv, TypeOK, ConfigTypeOK, QueueTypeOK, SyncTypeOK
  <1> QED
    BY <1>1, <1>2, <1>3, FrameStep

(* ... and its assignment: the height was published, so it was executed.   *)
LEMMA AssignPublishedInv ==
    ASSUME Inv, AssignPublished
    PROVE  Inv'
  <1> USE DEF services, queues, config, download, network
  <1>1. /\ UNCHANGED <<blockNumber, nextBlock, knownHighestNumber, committedProposalNumber, queues,
                       m_commitQueue, jobs, services, failures, download, network>>
        /\ executedBlock' = block /\ pc = "assign" /\ SyncTypeOK
        /\ Goto("request")
    BY DEF AssignPublished, AssignExecuted, Inv, TypeOK
  <1>2. /\ pc' \in Positions /\ pc' # "crashed" /\ executed' \in Nat /\ block' \in Nat
        /\ HeldExecuted'
    BY <1>1, GotoType DEF Positions
  <1>3. TypeOK'
    BY <1>1, <1>2 DEF Inv, TypeOK, ConfigTypeOK, QueueTypeOK, SyncTypeOK
  <1>4. /\ Heights' /\ QueuedExecuted' /\ LedgerPublished'
        /\ blockNumber <= blockNumber' /\ ledger <= ledger' /\ stateHeight <= stateHeight'
    BY <1>1, <1>2 DEF Inv, TypeOK, ConfigTypeOK, QueueTypeOK, Heights, QueuedExecuted, HeldExecuted,
       LedgerPublished, InFlight
  <1>5. PICK K : K = {}
    OBVIOUS
  <1>6. DOMAIN jobs' \subseteq DOMAIN jobs \cup K /\ \A k \in K : JobOK(k)'
    BY <1>1, <1>5
  <1> QED
    BY <1>1, <1>2, <1>3, <1>4, <1>6, GrowStep

(* What a request asks for are heights above the published one.            *)
LEMMA RequestToNumberType ==
    ASSUME Inv
    PROVE  RequestToNumber \in Nat
  <1>1. /\ nextBlock \in Nat /\ knownHighestNumber \in Nat
        /\ DOMAIN m_blocks \subseteq Nat
    BY DEF Inv, TypeOK, ConfigTypeOK, QueueTypeOK
  <1>2. CASE \E n \in DOMAIN m_blocks : IsTop(m_blocks, n) /\ n > nextBlock
    <2>1. PICK n \in DOMAIN m_blocks : IsTop(m_blocks, n) /\ n > nextBlock
      BY <1>2
    <2> DEFINE t == CHOOSE k \in DOMAIN m_blocks : IsTop(m_blocks, k)
    <2>2. t \in DOMAIN m_blocks /\ IsTop(m_blocks, t)
      BY <2>1
    <2>3. t = n
      BY <1>1, <2>1, <2>2 DEF IsTop
    <2>4. RequestToNumber = Lesser(knownHighestNumber, t - 1)
      BY <1>2 DEF RequestToNumber
    <2> HIDE DEF t
    <2>5. t - 1 \in Nat
      BY <1>1, <2>1, <2>3
    <2> QED
      BY <1>1, <2>4, <2>5 DEF Lesser
  <1>3. CASE ~\E n \in DOMAIN m_blocks : IsTop(m_blocks, n) /\ n > nextBlock
    BY <1>1, <1>3 DEF RequestToNumber
  <1> QED
    BY <1>2, <1>3

(* The last height that requestBlocks asks for is an integer.              *)
LEMMA LastRequestedType ==
    ASSUME NEW from \in Nat, NEW to \in Nat
    PROVE  LastRequested(from, to) \in Int
  <1>1. Cardinality(Qualified) \in Nat
    <2>1. Qualified \subseteq Peers /\ IsFiniteSet(Peers)
      BY SyncAssumption DEF Qualified
    <2> QED
      BY <2>1, FS_Subset, FS_CardinalityType
  <1>2. MaxRequestBlocks \in Nat /\ MaxRequestBlocks > 0 /\ MaxShardPerPeer \in Nat
    BY SyncAssumption
  <1> DEFINE shardNumber == (to - from + MaxRequestBlocks - 1) \div MaxRequestBlocks
             limit == MaxShardPerPeer * Cardinality(Qualified)
             shards == Lesser(shardNumber, limit)
  <1>3. shardNumber \in Int
    BY <1>2
  <1>4. limit \in Int
    BY <1>1, <1>2
  <1> HIDE DEF shardNumber, limit
  <1>5. shards \in Int
    BY <1>3, <1>4 DEF Lesser
  <1> HIDE DEF shards
  <1>6. from + shards * MaxRequestBlocks \in Int
    BY <1>2, <1>5
  <1>7. Lesser(from + shards * MaxRequestBlocks, to) \in Int
    BY <1>6 DEF Lesser
  <1> QED
    BY <1>7 DEF LastRequested, shards, shardNumber, limit

(* tryToRequestBlocks changes only what is being downloaded.               *)
LEMMA TryToRequestBlocksInv ==
    ASSUME Inv, TryToRequestBlocks
    PROVE  Inv'
  <1> USE DEF services, queues, config, download, network
  <1>1. /\ SyncTypeOK /\ blockNumber \in Nat /\ RequestToNumber \in Nat
        /\ IsABag(responses) /\ DOMAIN responses \subseteq Nat
    BY RequestToNumberType DEF Inv, TypeOK, ConfigTypeOK, SyncTypeOK
  <1>2. /\ UNCHANGED <<config, queues, m_commitQueue, jobs, services, failures, peerNumber>>
        /\ pc # "crashed" /\ Goto("idle")
    BY DEF TryToRequestBlocks
  <1>3. /\ pc' \in Positions /\ pc' # "crashed" /\ executed' \in Nat /\ block' \in Nat
        /\ HeldExecuted'
    BY <1>1, <1>2, GotoType DEF Positions
  <1>4. /\ m_state' \in {"Idle", "Downloading"} /\ m_downloadingTimer' \in BOOLEAN
        /\ m_maxRequestNumber' \in Nat
        /\ IsABag(responses') /\ DOMAIN responses' \subseteq Nat
    <2>1. CASE /\ RequestBlocks(blockNumber, RequestToNumber)
               /\ PeersAnswer(blockNumber, RequestToNumber)
      <3>1. PICK last \in Int : last = LastRequested(blockNumber, RequestToNumber)
        BY <1>1, LastRequestedType
      <3> DEFINE asked == {n \in (blockNumber + 1) .. last : Copies(n, responses) < MaxCopies}
      <3>2. asked \subseteq Nat
        BY <1>1, <3>1
      <3>3. responses' = responses (+) SetToBag(asked)
        BY <2>1, <3>1 DEF PeersAnswer
      <3> HIDE DEF asked
      <3>4. IsABag(responses') /\ DOMAIN responses' = DOMAIN responses \cup asked
        BY <1>1, <3>3, PlusSetBag
      <3>5. m_maxRequestNumber' \in Nat
        BY <1>1, <2>1, <3>1 DEF RequestBlocks, Greater, SyncTypeOK
      <3> QED
        BY <1>1, <2>1, <3>2, <3>4, <3>5 DEF RequestBlocks
    <2>2. CASE DownloadFinish /\ UNCHANGED responses
      BY <1>1, <2>2 DEF DownloadFinish, SyncTypeOK
    <2>3. CASE UNCHANGED <<download, responses>>
      BY <1>1, <2>3 DEF SyncTypeOK
    <2> QED
      BY <2>1, <2>2, <2>3 DEF TryToRequestBlocks
  <1>5. TypeOK'
    BY <1>2, <1>3, <1>4 DEF Inv, TypeOK, ConfigTypeOK, QueueTypeOK, SyncTypeOK
  <1> QED
    BY <1>2, <1>3, <1>5, FrameStep

(* Every step of the download task keeps the invariant.                    *)
LEMMA DownloadTaskInv ==
    ASSUME Inv, DownloadTask
    PROVE  Inv'
  BY BufferInv, MaintainDownloadingQueueInv, ExpireInv, GrabBlockInv, ApplyGrabbedBlockInv,
     IgnoreBlockInv, AssignPublishedInv, TryToRequestBlocksInv
  DEF DownloadTask

(* onPeerStatus and maintainPeersConnection.                               *)
LEMMA PeerInv ==
    ASSUME Inv, NEW p \in Peers, NEW n \in Nat, OnPeerStatus(p, n) \/ DeletePeer(p)
    PROVE  Inv'
  <1> USE DEF services, queues, config, download, network, task
  <1>1. /\ UNCHANGED <<blockNumber, nextBlock, executedBlock, committedProposalNumber, queues,
                       m_commitQueue, jobs, services, download, task, responses>>
        /\ knownHighestNumber' \in {knownHighestNumber, n}
    BY DEF OnPeerStatus, DeletePeer, UpdateKnownMaxBlockInfo
  <1>2. failures' \in Nat
    BY FailsType DEF Inv, TypeOK, QueueTypeOK, OnPeerStatus, DeletePeer
  <1>3. peerNumber' \in [Peers -> Nat]
    BY DEF Inv, TypeOK, SyncTypeOK, OnPeerStatus, DeletePeer
  <1>4. TypeOK'
    BY <1>1, <1>2, <1>3 DEF Inv, TypeOK, ConfigTypeOK, QueueTypeOK, SyncTypeOK
  <1> QED
    BY <1>1, <1>4, FrameStep DEF Inv, HeldExecuted

(* onPeerBlocks, and the loss of an answer.                                *)
LEMMA ResponseInv ==
    ASSUME Inv, NEW n \in Nat, OnPeerBlocks(n) \/ LoseResponse(n)
    PROVE  Inv'
  <1> USE DEF services, queues, config, download, network, task
  <1>1. UNCHANGED <<config, m_blocks, m_commitQueue, jobs, services, download, peerNumber, task>>
    BY DEF OnPeerBlocks, LoseResponse
  <1>2. failures' \in Nat
    BY FailsType DEF Inv, TypeOK, QueueTypeOK, OnPeerBlocks, LoseResponse
  <1>3. m_blockBuffer' \in Seq(Nat)
    <2>1. m_blockBuffer \in Seq(Nat)
      BY DEF Inv, TypeOK, QueueTypeOK
    <2>2. m_blockBuffer' = m_blockBuffer \/ m_blockBuffer' = Append(m_blockBuffer, n)
      BY DEF OnPeerBlocks, LoseResponse, Push
    <2> QED
      BY <2>1, <2>2
  <1>4. IsABag(responses') /\ DOMAIN responses' \subseteq Nat
    <2>1. IsABag(responses) /\ DOMAIN responses \subseteq Nat
      BY DEF Inv, TypeOK, SyncTypeOK
    <2>2. responses' = Without(responses, n)
      BY DEF OnPeerBlocks, LoseResponse
    <2> QED
      BY <2>1, <2>2, WithoutBag
  <1>5. TypeOK'
    BY <1>1, <1>2, <1>3, <1>4 DEF Inv, TypeOK, ConfigTypeOK, QueueTypeOK, SyncTypeOK
  <1> QED
    BY <1>1, <1>5, FrameStep DEF Inv, HeldExecuted

(* The download timer, and the consensus module's progress.                *)
LEMMA TimerAndIndexInv ==
    ASSUME Inv, OnDownloadTimeout \/ AsyncNotifyCommittedIndex
    PROVE  Inv'
  <1> USE DEF services, queues, config, download, network, task
  <1>1. /\ UNCHANGED <<blockNumber, nextBlock, executedBlock, knownHighestNumber, queues,
                       m_commitQueue, jobs, services, network, task, m_maxRequestNumber>>
        /\ committedProposalNumber' \in {committedProposalNumber, ledger + 1}
        /\ m_state' \in {m_state, "Idle"}
    BY DEF OnDownloadTimeout, AsyncNotifyCommittedIndex, SetCommittedProposalNumber, DownloadFinish
  <1>2. failures' \in Nat
    BY FailsType DEF Inv, TypeOK, QueueTypeOK, OnDownloadTimeout, AsyncNotifyCommittedIndex
  <1>3. m_downloadingTimer' \in BOOLEAN
    BY DEF OnDownloadTimeout, AsyncNotifyCommittedIndex, DownloadFinish, Inv, TypeOK, SyncTypeOK
  <1>4. committedProposalNumber' \in Nat
    BY <1>1 DEF Inv, TypeOK, ConfigTypeOK, QueueTypeOK
  <1>5. TypeOK'
    BY <1>1, <1>2, <1>3, <1>4 DEF Inv, TypeOK, ConfigTypeOK, QueueTypeOK, SyncTypeOK
  <1> QED
    BY <1>1, <1>5, FrameStep DEF Inv, HeldExecuted

(* The consensus module commits a block and its news is on its way.        *)
LEMMA ConsensusCommitInv ==
    ASSUME Inv, ConsensusCommit
    PROVE  Inv'
  <1> USE DEF services, queues, config, download, network, task
  <1>1. PICK n \in Nat : n = ledger + 1
    BY DEF Inv, TypeOK, QueueTypeOK
  <1>2. /\ pc # "crashed"
        /\ ledger' = n /\ stateHeight' = Greater(stateHeight, n)
        /\ jobs' = With(jobs, Job("notify", n))
        /\ UNCHANGED <<config, queues, m_commitQueue, failures, download, network, task>>
    BY <1>1 DEF ConsensusCommit, Running
  <1>3. IsABag(jobs) /\ DOMAIN jobs \subseteq [stage : Stages, num : Nat]
    BY DEF Inv, TypeOK, QueueTypeOK
  <1>4. IsABag(jobs') /\ DOMAIN jobs' = DOMAIN jobs \cup {Job("notify", n)}
    BY <1>2, <1>3, WithBag
  <1>5. Job("notify", n) \in [stage : Stages, num : Nat]
    BY DEF Job, Stages
  <1>6. /\ Heights' /\ QueuedExecuted' /\ stateHeight' \in Nat /\ n <= stateHeight'
        /\ blockNumber <= blockNumber' /\ ledger <= ledger' /\ stateHeight <= stateHeight'
    BY <1>1, <1>2 DEF Inv, TypeOK, ConfigTypeOK, QueueTypeOK, Heights, QueuedExecuted, Greater
  <1>7. TypeOK'
    BY <1>2, <1>3, <1>4, <1>5, <1>6 DEF Inv, TypeOK, ConfigTypeOK, QueueTypeOK, SyncTypeOK
  <1>8. LedgerPublished'
    <2>1. blockNumber' < ledger'
      BY <1>1, <1>2 DEF Inv, TypeOK, ConfigTypeOK, QueueTypeOK, Heights
    <2> QED
      BY <1>2, <1>4, <2>1 DEF LedgerPublished, InFlight
  <1>9. \A k \in {Job("notify", n)} : JobOK(k)'
    BY <1>2, <1>6 DEF Job, JobOK
  <1>10. pc' # "crashed" /\ HeldExecuted'
    BY <1>2, <1>6 DEF Inv, TypeOK, QueueTypeOK, SyncTypeOK, HeldExecuted
  <1>11. PICK K : K = {Job("notify", n)}
    OBVIOUS
  <1> QED
    BY <1>2, <1>4, <1>10, <1>11, <1>6, <1>7, <1>8, <1>9, GrowStep

(* The process dies.                                                       *)
LEMMA DieInv ==
    ASSUME Inv, Die, failures' \in Nat
    PROVE  Inv'
  <1> USE DEF services, config
  <1>1. /\ pc' = "crashed" /\ executed' = 0 /\ block' = 0 /\ m_blockBuffer' = <<>>
        /\ m_blocks' = EmptyBag /\ m_commitQueue' = EmptyBag /\ jobs' = EmptyBag
        /\ m_state' = "Idle" /\ m_downloadingTimer' = FALSE /\ m_maxRequestNumber' = 0
        /\ peerNumber' = [p \in Peers |-> 0] /\ responses' = EmptyBag
        /\ UNCHANGED <<config, services>>
    BY DEF Die
  <1>2. TypeOK'
    <2>1. ConfigTypeOK'
      BY <1>1 DEF Inv, TypeOK, ConfigTypeOK
    <2>2. QueueTypeOK'
      BY <1>1, EmptyBagBag, EmptyBuffer DEF Inv, TypeOK, QueueTypeOK
    <2>3. SyncTypeOK'
      BY <1>1, EmptyBagBag DEF SyncTypeOK, Positions
    <2> QED
      BY <2>1, <2>2, <2>3 DEF TypeOK
  <1>3. Heights' /\ JobsOK' /\ QueuedExecuted'
    BY <1>1, EmptyBagBag DEF Inv, Heights, JobsOK, QueuedExecuted
  <1> QED
    BY <1>1, <1>2, <1>3 DEF Inv, LedgerPublished, CrashedQuiet, HeldExecuted

(* A new process takes every height from the ledger.                       *)
LEMMA RestartInv ==
    ASSUME Inv, Restart
    PROVE  Inv'
  <1> USE DEF services, queues, config, download, network
  <1>1. /\ blockNumber' = ledger /\ nextBlock' = ledger + 1 /\ executedBlock' = ledger /\ knownHighestNumber' = ledger
        /\ committedProposalNumber' = 0 /\ stateHeight' = ledger
        /\ UNCHANGED <<queues, m_commitQueue, jobs, ledger, failures, download, network>>
        /\ Goto("idle")
        /\ jobs = EmptyBag /\ m_commitQueue = EmptyBag
    BY DEF Restart, Inv, CrashedQuiet
  <1>2. /\ pc' \in Positions /\ pc' # "crashed" /\ executed' \in Nat /\ block' \in Nat
        /\ HeldExecuted'
    BY <1>1, GotoType DEF Positions, Inv, TypeOK
  <1>3. TypeOK'
    BY <1>1, <1>2 DEF Inv, TypeOK, ConfigTypeOK, QueueTypeOK, SyncTypeOK
  <1>4. Heights' /\ JobsOK' /\ QueuedExecuted'
    BY <1>1, EmptyBagBag DEF Inv, TypeOK, QueueTypeOK, Heights, JobsOK, QueuedExecuted
  <1> QED
    BY <1>1, <1>2, <1>3, <1>4 DEF Inv, LedgerPublished, CrashedQuiet

-----------------------------------------------------------------------------
(* The theorems *)

(* BlockSync::init establishes the invariant.                              *)
LEMMA InitInv ==
    ASSUME Init
    PROVE  Inv
  <1>1. TypeOK
    <2>1. ConfigTypeOK
      BY DEF Init, QueueInit, ConfigInit, ConfigTypeOK
    <2>2. QueueTypeOK
      BY QueueAssumption, EmptyBagBag, EmptyBuffer DEF Init, QueueInit, QueueTypeOK
    <2>3. SyncTypeOK
      BY EmptyBagBag DEF Init, SyncTypeOK, Positions
    <2> QED
      BY <2>1, <2>2, <2>3 DEF TypeOK
  <1>2. Heights /\ JobsOK /\ QueuedExecuted
    BY EmptyBagBag DEF Init, QueueInit, ConfigInit, Heights, JobsOK, QueuedExecuted
  <1> QED
    BY <1>1, <1>2 DEF Init, QueueInit, ConfigInit, Inv, LedgerPublished, CrashedQuiet, HeldExecuted

(* Every step of the node keeps the invariant.                             *)
LEMMA NextInv ==
    ASSUME Inv, [Next]_vars
    PROVE  Inv'
  <1>1. CASE DownloadTask
    BY <1>1, DownloadTaskInv
  <1>2. CASE \E j \in DOMAIN jobs : Callback(j.num)
    BY <1>2, CallbackInv
  <1>3. CASE \E p \in Peers, n \in StatusNumbers : OnPeerStatus(p, n)
    <2>1. StatusNumbers \subseteq Nat
      BY SyncAssumption
    <2> QED
      BY <1>3, <2>1, PeerInv
  <1>4. CASE \E p \in Peers : DeletePeer(p)
    BY <1>4, PeerInv
  <1>5. CASE \E n \in DOMAIN responses : OnPeerBlocks(n) \/ LoseResponse(n)
    BY <1>5, ResponseInv DEF Inv, TypeOK, SyncTypeOK
  <1>6. CASE OnDownloadTimeout \/ AsyncNotifyCommittedIndex
    BY <1>6, TimerAndIndexInv
  <1>7. CASE ConsensusCommit
    BY <1>7, ConsensusCommitInv
  <1>8. CASE NullDereference \/ Crash
    BY <1>8, DieInv, FailsType DEF NullDereference, Crash, Inv, TypeOK, QueueTypeOK
  <1>9. CASE Restart
    BY <1>9, RestartInv
  <1>10. CASE UNCHANGED vars
    <2>1. UNCHANGED <<config, queues, m_commitQueue, jobs, services, failures, download, network, task>>
      BY <1>10 DEF vars
    <2>2. TypeOK'
      BY <2>1 DEF config, queues, services, download, network, task,
         Inv, TypeOK, ConfigTypeOK, QueueTypeOK, SyncTypeOK
    <2> QED
      BY <2>1, <2>2, FrameStep DEF config, services, task, Inv, HeldExecuted
  <1> QED
    BY <1>1, <1>2, <1>3, <1>4, <1>5, <1>6, <1>7, <1>8, <1>9, <1>10 DEF Next

(* The inductive invariant holds in every reachable state.                 *)
THEOREM Invariance == Spec => []Inv
  <1>1. Init => Inv
    BY InitInv
  <1>2. Inv /\ [Next]_vars => Inv'
    BY NextInv
  <1> QED
    BY <1>1, <1>2, PTL DEF Spec

(* Every counter is a height and every queue holds heights, for every      *)
(* number of peers, every queue limit and every failure.                   *)
THEOREM TypeCorrect == Spec => []TypeOK
  <1>1. Inv => TypeOK
    BY DEF Inv
  <1> QED
    BY <1>1, Invariance, PTL

(* tryToCommitBlockToLedger and checkAndCommitBlock let no block be        *)
(* checked, stored or committed before its predecessor is published.       *)
THEOREM CommitOrder == Spec => []CommitsInOrder
  <1>1. Inv => CommitsInOrder
    BY DEF Inv, JobsOK, JobOK, CommitsInOrder
  <1> QED
    BY <1>1, Invariance, PTL

(* The news of the ledger's last block is never lost: it is published, or  *)
(* a callback that will call resetConfig with it is in flight.             *)
THEOREM Publication == Spec => []LedgerPublished
  <1>1. Inv => LedgerPublished
    BY DEF Inv
  <1> QED
    BY <1>1, Invariance, PTL

(* setExecutedBlock never claims a block that was not executed, whatever   *)
(* the order in which its late assignments and resetConfig run.            *)
THEOREM ExecutedHeights == Spec => []ExecutedInState
  <1>1. Inv => ExecutedInState
    BY DEF Inv, Heights, ExecutedInState
  <1> QED
    BY <1>1, Invariance, PTL

(* One step of a callback chain appends a block to the ledger, publishes   *)
(* committed blocks, or leaves the chain as it is.                         *)
LEMMA CallbackRefines ==
    ASSUME Inv, NEW n, JobStep(n)
    PROVE  [Chain!Next]_(Chain!chain)
  <1> USE DEF config, services, Chain!Next, Chain!Commit, Chain!Publish, Chain!chain
  <1>1. CASE BlockCommitted(n)
    BY <1>1 DEF BlockCommitted
  <1>2. CASE OnNewBlock(n)
    <2>1. n \in Nat /\ n <= ledger /\ blockNumber \in Nat /\ ledger \in Nat
      BY <1>2, InFlightFacts DEF OnNewBlock, Inv, TypeOK, ConfigTypeOK, QueueTypeOK
    <2>2. UNCHANGED ledger
      BY <1>2 DEF OnNewBlock
    <2>3. blockNumber' = blockNumber \/ (blockNumber' = n /\ blockNumber < n)
      BY <1>2, <2>1 DEF OnNewBlock, IsNewHeight, PublishNumber
    <2> QED
      BY <2>1, <2>2, <2>3
  <1>3. CASE ~BlockCommitted(n) /\ ~OnNewBlock(n)
    <2>1. UNCHANGED <<ledger, blockNumber>>
      BY <1>3 DEF JobStep, BlockExecuted, BlockNotExecuted, RaiseExecutedBlock, AssignExecuted,
         UpdateCommitQueue, CheckAndCommitBlock, CommitBlock, BlockNotChecked, TransactionsStored,
         TransactionsNotStored, BlockNotCommitted, AsyncNotifyNewBlock, ResetBlockInfo,
         PublishNextBlock, LevelExecutedBlock, FinalizeBlock, CommitNextBlock, SetExecutedBlock,
         AssignExecutedBlock
    <2> QED
      BY <2>1
  <1> QED
    BY <1>1, <1>2, <1>3

(* The download task and the handlers leave the chain as it is; consensus  *)
(* appends to the ledger; a new process publishes all of it.               *)
LEMMA StepRefines ==
    ASSUME Inv, [Next]_vars
    PROVE  [Chain!Next]_(Chain!chain)
  <1> USE DEF config, services
  <1>1. CASE \E j \in DOMAIN jobs : Callback(j.num)
    BY <1>1, CallbackRefines DEF Callback
  <1>2. CASE ConsensusCommit
    BY <1>2 DEF ConsensusCommit, Chain!Next, Chain!Commit
  <1>3. CASE Restart
    <2>1. blockNumber' = ledger /\ ledger' = ledger /\ blockNumber <= ledger
          /\ blockNumber \in Nat /\ ledger \in Nat
      BY <1>3 DEF Restart, Inv, Heights, TypeOK, ConfigTypeOK, QueueTypeOK
    <2> QED
      BY <2>1 DEF Chain!Next, Chain!Publish, Chain!chain
  <1>4. CASE DownloadTask
    <2>1. UNCHANGED <<ledger, blockNumber>>
      BY <1>4 DEF DownloadTask, MaintainDownloadingBuffer, FlushBufferToQueue,
         MaintainDownloadingQueue, ExpireLoop, ExpireTop, ExpirePop, LimitExecuted,
         CheckContinuous, TakeExpectedBlock, TakeTop, TaskOnly, GrabBlock, ApplyGrabbedBlock,
         IgnoreBlock, AssignPublished, AssignExecuted, TryToRequestBlocks
    <2> QED
      BY <2>1 DEF Chain!chain
  <1>5. CASE \/ \E p \in Peers, n \in StatusNumbers : OnPeerStatus(p, n)
             \/ \E p \in Peers : DeletePeer(p)
             \/ \E n \in DOMAIN responses : OnPeerBlocks(n) \/ LoseResponse(n)
             \/ OnDownloadTimeout \/ AsyncNotifyCommittedIndex \/ NullDereference \/ Crash
             \/ UNCHANGED vars
    <2>1. UNCHANGED <<ledger, blockNumber>>
      BY <1>5 DEF OnPeerStatus, UpdateKnownMaxBlockInfo, DeletePeer, OnPeerBlocks, LoseResponse,
         OnDownloadTimeout, AsyncNotifyCommittedIndex, SetCommittedProposalNumber,
         NullDereference, Crash, Die, vars
    <2> QED
      BY <2>1 DEF Chain!chain
  <1> QED
    BY <1>1, <1>2, <1>3, <1>4, <1>5 DEF Next

(* The node implements the safety part of PublishedLedger: the ledger is   *)
(* append-only, and the published height only grows and never passes it,   *)
(* through errors, races with consensus, crashes and restarts.             *)
THEOREM Refinement == Spec => ChainSafe
  <1>1. Init => Chain!Init
    BY DEF Init, QueueInit, ConfigInit, Chain!Init
  <1>2. Inv /\ [Next]_vars => [Chain!Next]_(Chain!chain)
    BY StepRefines
  <1> QED
    BY <1>1, <1>2, Invariance, PTL DEF Spec, ChainSafe, Chain!Safe

=============================================================================
