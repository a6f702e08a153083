--------------------------- MODULE BlockSyncConfig ---------------------------
(***************************************************************************)
(* The shared counters of bcos-sync/BlockSyncConfig: five std::atomic      *)
(* block numbers that every thread of the sync module reads and writes.    *)
(* resetConfig writes them under m_mutex, which nobody else takes: what it *)
(* does to them is taken apart wherever another thread can tell.           *)
(***************************************************************************)
EXTENDS Naturals

VARIABLES
    blockNumber,             \* m_blockNumber: the height this module has published
    nextBlock,               \* m_nextBlock: blockNumber + 1, a moment later
    executedBlock,           \* m_executedBlock: the height executed, perhaps not committed
    knownHighestNumber,      \* m_knownHighestNumber: the greatest height a peer reported
    committedProposalNumber  \* m_committedProposalNumber: the consensus module's progress

config == <<blockNumber, nextBlock, executedBlock, knownHighestNumber, committedProposalNumber>>

ConfigTypeOK ==
    /\ blockNumber \in Nat
    /\ nextBlock \in Nat
    /\ executedBlock \in Nat
    /\ knownHighestNumber \in Nat
    /\ committedProposalNumber \in Nat

(***************************************************************************)
(* BlockSync::init on freshly constructed (zeroed) counters: resetConfig   *)
(* with the height h read from the ledger.                                 *)
(***************************************************************************)
ConfigInit(h) ==
    /\ blockNumber = h
    /\ nextBlock = h + 1
    /\ executedBlock = h
    /\ knownHighestNumber = h
    /\ committedProposalNumber = 0

(* Mutant: the guard of resetConfig under m_mutex is missing.              *)
IsNewHeightAlways(n) == TRUE

(***************************************************************************)
(* resetConfig's double-checked guard.  The first check (before the        *)
(* consensus module is notified) is implied by the second (under m_mutex), *)
(* as blockNumber never decreases.                                         *)
(***************************************************************************)
IsNewHeight(n) == ~(n <= blockNumber /\ blockNumber > 0)

(***************************************************************************)
(* resetBlockInfo: publish height n, and then let no other counter stay    *)
(* below it.  Its comparison of executedBlock and the assignment that      *)
(* depends on it (AssignExecuted below) are two steps, as setExecutedBlock *)
(* runs without m_mutex.                                                   *)
(***************************************************************************)
PublishNumber(n) ==
    /\ blockNumber' = n
    /\ UNCHANGED <<nextBlock, executedBlock, knownHighestNumber, committedProposalNumber>>

PublishNextBlock(n) ==
    /\ nextBlock' = n + 1
    /\ knownHighestNumber' = IF knownHighestNumber < n THEN n ELSE knownHighestNumber
    /\ UNCHANGED <<blockNumber, executedBlock, committedProposalNumber>>

(* The guard of setExecutedBlock; the assignment it guards is a step of    *)
(* its own, since no lock is held between the two.                         *)
MayAssignExecuted(v) == blockNumber <= v

AssignExecuted(v) ==
    /\ executedBlock' = v
    /\ UNCHANGED <<blockNumber, nextBlock, knownHighestNumber, committedProposalNumber>>

(* SyncPeerStatus::updateKnownMaxBlockInfo, for a status carrying height n. *)
UpdateKnownMaxBlockInfo(n) ==
    /\ knownHighestNumber' = IF n <= knownHighestNumber THEN knownHighestNumber ELSE n
    /\ UNCHANGED <<blockNumber, nextBlock, executedBlock, committedProposalNumber>>

(* asyncNotifyCommittedIndex, called by the consensus module.              *)
SetCommittedProposalNumber(n) ==
    /\ committedProposalNumber' = n
    /\ UNCHANGED <<blockNumber, nextBlock, executedBlock, knownHighestNumber>>

(* BlockSync::shouldSyncing: this node is behind, and neither consensus    *)
(* nor the blocks already executed will bring it to the known height.      *)
ShouldSyncing ==
    /\ blockNumber < knownHighestNumber
    /\ committedProposalNumber < knownHighestNumber
    /\ executedBlock < knownHighestNumber

=============================================================================
