-------------------------- MODULE SyncStatusProofs --------------------------
(***************************************************************************)
(* For every set of peers and strangers, every history of the group and    *)
(* every bound: the types, and that the heights a node knows of are        *)
(* heights that nodes of its own chain have published.                     *)
(***************************************************************************)
EXTENDS SyncStatus, FiniteSetTheorems, TLAPS

-----------------------------------------------------------------------------
(* The inductive invariant *)

Drafts == SUBSET [to : Peers, number : Heights]

(* Some node of the chain has a block of height n.                         *)
Published(n) == n <= number \/ \E p \in Peers : n <= peerNumber[p]

(* A status that passes the check of the genesis hash comes from a peer,   *)
(* which had published the height it tells, torn or late as it may be.     *)
StatusesTrue ==
    \A m \in statuses : SameChain(m) => m.from \in Peers /\ m.number <= peerNumber[m.from]

(* The heights that the two senders have read were published.              *)
DraftsTrue == \A t \in Threads : \A d \in draft[t] : d.number <= number

(* The height that updateKnownMaxBlockInfo has compared and will assign.   *)
RaiseTrue == \A n \in raise : Published(n)

Inv ==
    /\ TypeOK
    /\ draft \in [Threads -> Drafts]
    /\ StatusesTrue
    /\ DraftsTrue
    /\ RaiseTrue
    /\ KnownIsPublished

-----------------------------------------------------------------------------
(* Facts about the operators *)

(* Heights are naturals, and both the node and its peers stay among them.  *)
LEMMA HeightsFacts ==
    /\ Heights \subseteq Nat
    /\ 0 \in Heights
    /\ \A n \in Nat : n < MaxNumber \/ n < MaxPeer => n + 1 \in Heights
    /\ \A n \in Heights : n > 0 => n - 1 \in Heights
  BY StatusAssumption DEF Heights

(* The members of the group are nodes, as of whichever blocks the two      *)
(* lists are.                                                              *)
LEMMA GroupFacts ==
    ASSUME NEW s \in Heights, NEW o \in Heights
    PROVE  (Sealers[s] \cup Observers[o]) \ {Self} \subseteq Peers
  BY StatusAssumption DEF Nodes

(* The lists that the worker and the broadcast send to.                    *)
LEMMA MembersFacts ==
    ASSUME TypeOK, NEW D
    PROVE  Members(D) \in SUBSET Peers
  BY GroupFacts DEF TypeOK, Members, GroupNodeList

(* At most one height waits to be assigned.                                *)
LEMMA RaiseFacts ==
    /\ Cardinality({}) <= 1
    /\ \A n : Cardinality({n}) <= 1
  BY FS_EmptySet, FS_Singleton

(***************************************************************************)
(* updatePeerStatus: an entry of a node of the chain, with a height that   *)
(* the node has published, keeps the table and the pending assignment in   *)
(* order.                                                                  *)
(***************************************************************************)
LEMMA UpdateFacts ==
    ASSUME Inv,
           NEW p, NEW m,
           m.number \in Heights, m.hash \in Hashes,
           SameChain(m) => p \in Nodes /\ m.number <= HeightOf(p),
           UpdatePeerStatus(p, m)
    PROVE  /\ DOMAIN table' \subseteq Nodes
           /\ \A q \in DOMAIN table' : table'[q] \in Entry /\ table'[q].number <= HeightOf(q)
           /\ raise' \subseteq Heights /\ Cardinality(raise') <= 1
           /\ \A n \in raise' : Published(n)
  <1>1. CASE UNCHANGED peerTable
    BY <1>1 DEF peerTable, Inv, TypeOK, KnownIsPublished, RaiseTrue
  <1>2. CASE /\ SameChain(m)
             /\ table' = Insert(p, [number |-> m.number, hash |-> m.hash])
             /\ raise' = IF m.number > known THEN {m.number} ELSE {}
    <2>1. p \in Nodes /\ m.number <= HeightOf(p)
      BY <1>2
    <2>2. DOMAIN table' = DOMAIN table \cup {p}
      BY <1>2 DEF Insert
    <2>3. ASSUME NEW q \in DOMAIN table'
          PROVE  table'[q] \in Entry /\ table'[q].number <= HeightOf(q)
      BY <1>2, <2>1, <2>2 DEF Insert, Entry, Inv, TypeOK, KnownIsPublished
    <2>4. raise' \subseteq Heights /\ Cardinality(raise') <= 1
      BY <1>2, RaiseFacts
    <2>5. Published(m.number)
      BY <2>1 DEF Published, HeightOf, Nodes
    <2> QED
      BY <1>2, <2>1, <2>2, <2>3, <2>4, <2>5 DEF Inv, KnownIsPublished
  <1> QED
    BY <1>1, <1>2 DEF UpdatePeerStatus

-----------------------------------------------------------------------------
(* Every step preserves the invariant *)

(* resetBlockInfo's first assignment: the node itself has one block more.  *)
LEMMA ResetConfigInv ==
    ASSUME Inv, ResetConfig
    PROVE  Inv'
  <1> USE DEF ResetConfig, peerTable, senders, network
  <1>1. number \in Nat /\ number' \in Heights /\ number' = number + 1
    BY HeightsFacts DEF Inv, TypeOK
  <1>2. TypeOK' /\ draft' \in [Threads -> Drafts]
    BY <1>1 DEF Inv, TypeOK
  <1>3. StatusesTrue'
    BY DEF Inv, StatusesTrue
  <1>4. DraftsTrue'
    <2>1. \A t \in Threads : \A d \in draft[t] : d.number \in Nat
      BY HeightsFacts DEF Inv, TypeOK
    <2> QED
      BY <1>1, <2>1 DEF Inv, DraftsTrue
  <1>5. ASSUME NEW n \in Heights, Published(n) PROVE Published(n)'
    <2>1. n \in Nat
      BY HeightsFacts
    <2> QED
      BY <1>1, <1>5, <2>1 DEF Published
  <1>6. RaiseTrue' /\ Published(known)'
    BY <1>5 DEF Inv, TypeOK, RaiseTrue, KnownIsPublished, Published
  <1>7. ASSUME NEW p \in DOMAIN table'
        PROVE  p \in Nodes /\ table'[p].number <= HeightOf(p)'
    <2>1. p \in Nodes /\ table[p].number <= HeightOf(p) /\ table[p].number \in Nat
      BY <1>7, HeightsFacts DEF Inv, TypeOK, KnownIsPublished, Entry
    <2> QED
      BY <1>1, <2>1 DEF HeightOf
  <1> QED
    BY <1>2, <1>3, <1>4, <1>6, <1>7 DEF Inv, KnownIsPublished, Published

(* The other assignments of resetConfig; the broadcast's list is made.     *)
LEMMA OnNewBlockInv ==
    ASSUME Inv, SetHash \/ ResetKnownHighestNumber \/ SetConsensusNodeList \/ SetObserverList
    PROVE  Inv'
  <1> USE DEF peerTable, senders, network
  <1>1. CASE SetHash
    BY <1>1 DEF SetHash, Inv, TypeOK, StatusesTrue, DraftsTrue, RaiseTrue, Published,
       KnownIsPublished, HeightOf
  <1>2. CASE ResetKnownHighestNumber
    <2>1. number \in Nat
      BY HeightsFacts DEF Inv, TypeOK
    <2> QED
      BY <1>2, <2>1 DEF ResetKnownHighestNumber, Inv, TypeOK, StatusesTrue, DraftsTrue, RaiseTrue,
         Published, KnownIsPublished, HeightOf
  <1>3. CASE SetConsensusNodeList
    BY <1>3 DEF SetConsensusNodeList, Inv, TypeOK, StatusesTrue, DraftsTrue, RaiseTrue, Published,
       KnownIsPublished, HeightOf
  <1>4. CASE SetObserverList
    <2>1. (Sealers[number] \cup Observers[number]) \ {Self} \subseteq Peers
      BY GroupFacts DEF Inv, TypeOK
    <2>2. todo' \in [Threads -> SUBSET Peers]
      BY <1>4, <2>1 DEF SetObserverList, Inv, TypeOK
    <2> QED
      BY <1>4, <2>2 DEF SetObserverList, Inv, TypeOK, StatusesTrue, DraftsTrue, RaiseTrue, Published,
         KnownIsPublished, HeightOf
  <1> QED
    BY <1>1, <1>2, <1>3, <1>4

(* The next node of a list: what is read is the node's height.             *)
LEMMA ReadBlockNumberInv ==
    ASSUME Inv, NEW t \in Threads, ReadBlockNumber(t)
    PROVE  Inv'
  <1> USE DEF ReadBlockNumber, blockInfo, peerTable, network
  <1>1. PICK p \in todo[t] :
           /\ todo' = [todo EXCEPT ![t] = @ \ {p}]
           /\ draft' = [draft EXCEPT ![t] =
                  IF p \in connected THEN {[to |-> p, number |-> number]} ELSE {}]
    OBVIOUS
  <1>2. p \in Peers /\ number \in Heights /\ number \in Nat
    BY HeightsFacts DEF Inv, TypeOK
  <1>3. todo' \in [Threads -> SUBSET Peers]
    BY <1>1 DEF Inv, TypeOK
  <1>4. draft' \in [Threads -> Drafts]
    <2> DEFINE read == IF p \in connected THEN {[to |-> p, number |-> number]} ELSE {}
    <2>1. read \in Drafts
      BY <1>2 DEF Drafts
    <2> QED
      BY <1>1, <2>1 DEF Inv
  <1>5. \A u \in Threads : draft'[u] \subseteq [to : Peers, number : Heights]
    BY <1>4 DEF Drafts
  <1>6. DraftsTrue'
    BY <1>1, <1>2 DEF Inv, DraftsTrue
  <1> QED
    BY <1>3, <1>4, <1>5, <1>6 DEF Inv, TypeOK, StatusesTrue, RaiseTrue, Published, KnownIsPublished,
       HeightOf

(* The status is sent; the worker enters it for the node itself as well,   *)
(* whose height it is.                                                     *)
LEMMA SendStatusInv ==
    ASSUME Inv, NEW t \in Threads, SendStatus(t)
    PROVE  Inv'
  <1> USE DEF blockInfo, network
  <1>1. PICK d \in draft[t], h \in HashesRead :
           /\ sent' = [sent EXCEPT ![d.to] = [number |-> d.number, hash |-> h]]
           /\ draft' = [draft EXCEPT ![t] = {}]
           /\ \/ UpdatePeerStatus(Self, [number |-> d.number, hash |-> h, genesis |-> "ours"])
              \/ UNCHANGED peerTable
           /\ UNCHANGED <<blockInfo, known, doomed, todo, network, events>>
    BY DEF SendStatus
  <1>2. d.to \in Peers /\ d.number \in Heights /\ d.number <= number
    BY DEF Inv, TypeOK, DraftsTrue
  <1>3. h \in Hashes
    BY DEF Inv, TypeOK, HashesRead, Hashes
  <1>4. sent' \in [Peers -> Entry]
    BY <1>1, <1>2, <1>3 DEF Inv, TypeOK, Entry
  <1>5. /\ draft' \in [Threads -> Drafts]
        /\ \A u \in Threads : draft'[u] \subseteq [to : Peers, number : Heights]
    BY <1>1 DEF Inv, Drafts
  <1>6. DraftsTrue'
    BY <1>1 DEF Inv, DraftsTrue
  <1>7. /\ DOMAIN table' \subseteq Nodes
        /\ \A q \in DOMAIN table' : table'[q] \in Entry /\ table'[q].number <= HeightOf(q)
        /\ raise' \subseteq Heights /\ Cardinality(raise') <= 1
        /\ \A n \in raise' : Published(n)
    <2>1. CASE UNCHANGED peerTable
      BY <2>1 DEF peerTable, Inv, TypeOK, KnownIsPublished, RaiseTrue
    <2>2. CASE UpdatePeerStatus(Self, [number |-> d.number, hash |-> h, genesis |-> "ours"])
      <3> DEFINE m == [number |-> d.number, hash |-> h, genesis |-> "ours"]
      <3>1. m.number \in Heights /\ m.hash \in Hashes /\ m.number <= HeightOf(Self) /\ Self \in Nodes
        BY <1>2, <1>3 DEF HeightOf, Nodes
      <3>2. UpdatePeerStatus(Self, m)
        BY <2>2
      <3> HIDE DEF m
      <3> QED
        BY <3>1, <3>2, UpdateFacts
    <2> QED
      BY <1>1, <2>1, <2>2
  <1> QED
    BY <1>1, <1>4, <1>5, <1>6, <1>7 DEF Inv, TypeOK, StatusesTrue, RaiseTrue, Published,
       KnownIsPublished, HeightOf

(* maintainPeersConnection's lists: of peers to delete, never the node     *)
(* itself, and of members to send to.                                      *)
LEMMA CollectPeersToDeleteInv ==
    ASSUME Inv, CollectPeersToDelete
    PROVE  Inv'
  <1> USE DEF CollectPeersToDelete, blockInfo, peerTable, network
  <1>1. doomed' \subseteq Peers \cup Strangers
    BY DEF PeersToDelete, Inv, TypeOK, Nodes
  <1>2. todo' = [todo EXCEPT !["worker"] = Members(doomed')]
    OBVIOUS
  <1>3. Members(doomed') \in SUBSET Peers
    BY MembersFacts DEF Inv
  <1>4. todo' \in [Threads -> SUBSET Peers]
    BY <1>2, <1>3 DEF Inv, TypeOK
  <1> QED
    BY <1>1, <1>4 DEF Inv, TypeOK, StatusesTrue, DraftsTrue, RaiseTrue, Published, KnownIsPublished,
       HeightOf

(* deletePeer only takes an entry away.                                    *)
LEMMA DeletePeerInv ==
    ASSUME Inv, DeletePeer
    PROVE  Inv'
  <1> USE DEF DeletePeer, blockInfo, network
  <1>1. PICK p \in doomed :
           /\ doomed' = doomed \ {p}
           /\ table' = [q \in DOMAIN table \ {p} |-> table[q]]
           /\ todo' = [todo EXCEPT !["worker"] = Members(doomed \ {p})]
    OBVIOUS
  <1>2. todo' \in [Threads -> SUBSET Peers]
    BY <1>1, MembersFacts DEF Inv, TypeOK
  <1>3. DOMAIN table' \subseteq DOMAIN table /\ \A q \in DOMAIN table' : table'[q] = table[q]
    BY <1>1
  <1> QED
    BY <1>1, <1>2, <1>3 DEF Inv, TypeOK, StatusesTrue, DraftsTrue, RaiseTrue, Published,
       KnownIsPublished, HeightOf

(* updateKnownMaxBlockInfo assigns a height that was published when it was *)
(* compared, and is still.                                                 *)
LEMMA UpdateKnownInv ==
    ASSUME Inv, UpdateKnownMaxBlockInfo
    PROVE  Inv'
  BY RaiseFacts DEF UpdateKnownMaxBlockInfo, blockInfo, senders, network, Inv, TypeOK, StatusesTrue,
     DraftsTrue, RaiseTrue, Published, KnownIsPublished, HeightOf

(* insertEmptyPeer: the new entry has height 0, which everyone has.        *)
LEMMA InsertEmptyPeerInv ==
    ASSUME Inv, NEW p \in Peers, InsertEmptyPeer(p)
    PROVE  Inv'
  <1> USE DEF InsertEmptyPeer, blockInfo, senders, network
  <1>1. /\ DOMAIN table' = DOMAIN table \cup {p}
        /\ table'[p] = [number |-> 0, hash |-> NoHash]
        /\ \A q \in DOMAIN table : q # p => table'[q] = table[q]
    BY DEF Insert
  <1>2. table'[p] \in Entry /\ table'[p].number <= HeightOf(p) /\ p \in Nodes
    <2>1. peerNumber[p] \in Nat /\ number \in Nat
      BY HeightsFacts DEF Inv, TypeOK
    <2> QED
      BY <1>1, <2>1, HeightsFacts DEF Entry, Hashes, HeightOf, Nodes
  <1>3. \A q \in DOMAIN table' : q \in Nodes /\ table'[q] \in Entry /\ table'[q].number <= HeightOf(q)
    BY <1>1, <1>2 DEF Inv, TypeOK, KnownIsPublished
  <1>4. events' \in Nat
    BY DEF Happens, Inv, TypeOK
  <1> QED
    BY <1>3, <1>4 DEF Inv, TypeOK, StatusesTrue, DraftsTrue, RaiseTrue, Published, KnownIsPublished,
       HeightOf

(* onPeerStatus: what passes the check of the genesis hash is a peer's.    *)
LEMMA OnPeerStatusInv ==
    ASSUME Inv, NEW m \in statuses, OnPeerStatus(m)
    PROVE  Inv'
  <1> USE DEF blockInfo, senders
  <1>1. m.number \in Heights /\ m.hash \in Hashes
    BY DEF Inv, TypeOK, Status
  <1>2. SameChain(m) => m.from \in Nodes /\ m.number <= HeightOf(m.from)
    BY StatusAssumption DEF Inv, StatusesTrue, Nodes, HeightOf
  <1>3. /\ DOMAIN table' \subseteq Nodes
        /\ \A q \in DOMAIN table' : table'[q] \in Entry /\ table'[q].number <= HeightOf(q)
        /\ raise' \subseteq Heights /\ Cardinality(raise') <= 1
        /\ \A n \in raise' : Published(n)
    <2>1. CASE UNCHANGED peerTable
      BY <2>1 DEF peerTable, Inv, TypeOK, KnownIsPublished, RaiseTrue
    <2>2. CASE UpdatePeerStatus(m.from, m)
      BY <1>1, <1>2, <2>2, UpdateFacts
    <2> QED
      BY <2>1, <2>2 DEF OnPeerStatus
  <1> QED
    BY <1>3 DEF OnPeerStatus, Inv, TypeOK, StatusesTrue, DraftsTrue, RaiseTrue, Published,
       KnownIsPublished, HeightOf

(* A peer publishes a block: what was published stays published.           *)
LEMMA PeerPublishesInv ==
    ASSUME Inv, NEW p \in Peers, PeerPublishes(p)
    PROVE  Inv'
  <1> USE DEF PeerPublishes, blockInfo, peerTable, senders
  <1>1. /\ number \in Nat
        /\ peerNumber' \in [Peers -> Heights]
        /\ \A q \in Peers : /\ peerNumber[q] \in Nat /\ peerNumber'[q] \in Nat
                            /\ peerNumber[q] <= peerNumber'[q]
    <2>1. number \in Nat /\ \A q \in Peers : peerNumber[q] \in Nat
      BY HeightsFacts DEF Inv, TypeOK
    <2>2. peerNumber[p] + 1 \in Heights
      BY <2>1, HeightsFacts
    <2>3. \A q \in Peers : peerNumber'[q] = IF q = p THEN peerNumber[p] + 1 ELSE peerNumber[q]
      BY DEF Inv, TypeOK
    <2>4. peerNumber' \in [Peers -> Heights]
      BY <2>2 DEF Inv, TypeOK
    <2> QED
      BY <2>1, <2>3, <2>4
  <1>2. TypeOK' /\ draft' \in [Threads -> Drafts] /\ DraftsTrue'
    BY <1>1 DEF Inv, TypeOK, DraftsTrue
  <1>3. StatusesTrue'
    <2> SUFFICES ASSUME NEW m \in statuses, SameChain(m)
                 PROVE  m.from \in Peers /\ m.number <= peerNumber'[m.from]
      BY DEF StatusesTrue, SameChain
    <2>1. m.from \in Peers /\ m.number <= peerNumber[m.from] /\ m.number \in Nat
      BY HeightsFacts DEF Inv, StatusesTrue, TypeOK, Status
    <2> QED
      BY <1>1, <2>1
  <1>4. ASSUME NEW n \in Heights, Published(n) PROVE Published(n)'
    <2>1. n \in Nat
      BY HeightsFacts
    <2> QED
      BY <1>1, <1>4, <2>1 DEF Published
  <1>5. RaiseTrue' /\ Published(known)'
    BY <1>4 DEF Inv, TypeOK, RaiseTrue, KnownIsPublished, Published
  <1>6. ASSUME NEW q \in DOMAIN table'
        PROVE  q \in Nodes /\ table'[q].number <= HeightOf(q)'
    <2>1. q \in Nodes /\ table[q].number <= HeightOf(q) /\ table[q].number \in Nat
      BY <1>6, HeightsFacts DEF Inv, TypeOK, KnownIsPublished, Entry
    <2> QED
      BY <1>1, <2>1 DEF HeightOf, Nodes
  <1> QED
    BY <1>2, <1>3, <1>5, <1>6 DEF Inv, KnownIsPublished, Published

(* A status that is true of its sender, or of another chain, is on its way.*)
LEMMA ArrivesInv ==
    ASSUME Inv, NEW m \in Status, Arrives(m), events' \in Nat,
           SameChain(m) => m.from \in Peers /\ m.number <= peerNumber[m.from]
    PROVE  Inv'
  BY DEF Arrives, blockInfo, peerTable, senders, Inv, TypeOK, StatusesTrue, DraftsTrue, RaiseTrue,
     Published, KnownIsPublished, HeightOf, SameChain

(* A peer sends its status, also the numbers and hashes of different       *)
(* blocks; a stranger sends whatever it likes.                             *)
LEMMA SendsInv ==
    ASSUME Inv,
           \/ \E p \in Peers : PeerSends(p) \/ PeerSendsTorn(p)
           \/ \E s \in Strangers : StrangerSends(s)
    PROVE  Inv'
  <1> USE DEF Heard, SameChain
  <1>1. ASSUME NEW p \in Peers, PeerSends(p) PROVE Inv'
    <2> DEFINE m == Heard(p, peerNumber[p], peerNumber[p])
    <2>1. peerNumber[p] \in Heights /\ peerNumber[p] \in Nat
      BY HeightsFacts DEF Inv, TypeOK
    <2>2. m \in Status /\ (SameChain(m) => m.from \in Peers /\ m.number <= peerNumber[m.from])
      BY <2>1 DEF Status, Hashes
    <2>3. Arrives(m) /\ events' \in Nat
      BY <1>1 DEF PeerSends, Inv, TypeOK
    <2> QED
      BY <2>2, <2>3, ArrivesInv
  <1>2. ASSUME NEW p \in Peers, PeerSendsTorn(p) PROVE Inv'
    <2>1. PICK k \in {peerNumber[p] - 1, peerNumber[p]},
               h \in {peerNumber[p] - 1, peerNumber[p], Torn} : Arrives(Heard(p, k, h))
      BY <1>2 DEF PeerSendsTorn
    <2>2. /\ peerNumber[p] \in Heights /\ peerNumber[p] \in Nat
          /\ peerNumber[p] - 1 \in Heights
      BY <1>2, HeightsFacts DEF PeerSendsTorn, Inv, TypeOK
    <2> DEFINE m == Heard(p, k, h)
    <2>3. m \in Status /\ (SameChain(m) => m.from \in Peers /\ m.number <= peerNumber[m.from])
      BY <2>2 DEF Status, Hashes
    <2>4. Arrives(m) /\ events' \in Nat
      BY <1>2, <2>1 DEF PeerSendsTorn, Happens, Inv, TypeOK
    <2> QED
      BY <2>3, <2>4, ArrivesInv
  <1>3. ASSUME NEW s \in Strangers, StrangerSends(s) PROVE Inv'
    <2>1. PICK k \in Heights :
             Arrives([from |-> s, number |-> k, hash |-> k, genesis |-> "other"])
      BY <1>3 DEF StrangerSends
    <2> DEFINE m == [from |-> s, number |-> k, hash |-> k, genesis |-> "other"]
    <2>2. m \in Status /\ ~SameChain(m)
      BY DEF Status, Hashes
    <2>3. Arrives(m) /\ events' \in Nat
      BY <1>3, <2>1 DEF StrangerSends, Happens, Inv, TypeOK
    <2> QED
      BY <2>2, <2>3, ArrivesInv
  <1> QED
    BY <1>1, <1>2, <1>3

(* Connections come and go, statuses are lost.                             *)
LEMMA NetworkInv ==
    ASSUME Inv,
           \/ \E p \in Peers : NotifyConnectedNodes(p)
           \/ \E m \in statuses : LoseStatus(m)
    PROVE  Inv'
  BY DEF NotifyConnectedNodes, LoseStatus, Happens, blockInfo, peerTable, senders, Inv, TypeOK,
     StatusesTrue, DraftsTrue, RaiseTrue, Published, KnownIsPublished, HeightOf

(* A new process knows of nothing but its ledger.                          *)
LEMMA RestartInv ==
    ASSUME Inv, Restart
    PROVE  Inv'
  <1> USE DEF Restart
  <1>1. /\ draft' \in [Threads -> Drafts]
        /\ todo' \in [Threads -> SUBSET Peers]
        /\ \A t \in Threads : draft'[t] = {}
    BY DEF Drafts
  <1>2. number \in Nat /\ events' \in Nat
    BY HeightsFacts DEF Happens, Inv, TypeOK
  <1>3. DOMAIN table' = {}
    OBVIOUS
  <1>4. TypeOK'
    BY <1>1, <1>2, <1>3, RaiseFacts DEF Inv, TypeOK
  <1> QED
    BY <1>1, <1>2, <1>3, <1>4 DEF Inv, StatusesTrue, DraftsTrue, RaiseTrue, Published, KnownIsPublished

(* The node starts with its genesis block and has heard nobody.            *)
LEMMA InitInv == Init => Inv
  <1> SUFFICES ASSUME Init PROVE Inv
    OBVIOUS
  <1> USE DEF Init
  <1>1. 0 \in Heights /\ 0 \in Nat /\ MaxEvents \in Nat
    BY HeightsFacts, StatusAssumption
  <1>2. /\ draft \in [Threads -> Drafts]
        /\ todo \in [Threads -> SUBSET Peers]
        /\ \A t \in Threads : draft[t] = {}
    BY DEF Drafts
  <1>3. DOMAIN table = {}
    OBVIOUS
  <1>4. TypeOK
    BY <1>1, <1>2, <1>3, RaiseFacts DEF TypeOK, Entry, Hashes
  <1> QED
    BY <1>1, <1>2, <1>3, <1>4 DEF Inv, StatusesTrue, DraftsTrue, RaiseTrue, KnownIsPublished

(* Every step of the three threads, of the peers and of the network.       *)
LEMMA NextInv == Inv /\ [Next]_vars => Inv'
  <1> SUFFICES ASSUME Inv, [Next]_vars PROVE Inv'
    OBVIOUS
  <1>1. CASE ResetConfig
    BY <1>1, ResetConfigInv
  <1>2. CASE OnNewBlock
    BY <1>2, OnNewBlockInv, ReadBlockNumberInv, SendStatusInv DEF OnNewBlock, Threads
  <1>3. CASE MaintainPeersConnection
    BY <1>3, CollectPeersToDeleteInv, DeletePeerInv, ReadBlockNumberInv, SendStatusInv
       DEF MaintainPeersConnection, Threads
  <1>4. CASE HandleStatus
    BY <1>4, OnPeerStatusInv, UpdateKnownInv DEF HandleStatus
  <1>5. ASSUME NEW p \in Peers, InsertEmptyPeer(p) \/ PeerPublishes(p) PROVE Inv'
    BY <1>5, InsertEmptyPeerInv, PeerPublishesInv
  <1>6. CASE \/ \E p \in Peers : PeerSends(p) \/ PeerSendsTorn(p)
             \/ \E s \in Strangers : StrangerSends(s)
    BY <1>6, SendsInv
  <1>7. CASE \/ \E p \in Peers : NotifyConnectedNodes(p)
             \/ \E m \in statuses : LoseStatus(m)
    BY <1>7, NetworkInv
  <1>8. CASE Restart
    BY <1>8, RestartInv
  <1>9. CASE UNCHANGED vars
    BY <1>9 DEF vars, blockInfo, peerTable, senders, network, Inv, TypeOK, StatusesTrue, DraftsTrue,
       RaiseTrue, Published, KnownIsPublished, HeightOf
  <1> QED
    BY <1>1, <1>2, <1>3, <1>4, <1>5, <1>6, <1>7, <1>8, <1>9 DEF Next

-----------------------------------------------------------------------------
(* The theorems *)

(* The inductive invariant holds in every reachable state.                 *)
THEOREM Invariance == Spec => []Inv
  <1> QED
    BY InitInv, NextInv, PTL DEF Spec

(* Every number is a height, every hash that of a block or torn, and       *)
(* x_peersStatus is held for at most one assignment at a time.             *)
THEOREM TypeCorrect == Spec => []TypeOK
  <1>1. Inv => TypeOK
    BY DEF Inv
  <1> QED
    BY <1>1, Invariance, PTL

(* The known highest number is a height that some node of the chain has,   *)
(* and the table holds only nodes of the chain, none ahead of itself: for  *)
(* any number of peers, strangers, torn, late or lost statuses, restarts   *)
(* and changes of the group.                                               *)
THEOREM KnownPublished == Spec => []KnownIsPublished
  <1>1. Inv => KnownIsPublished
    BY DEF Inv
  <1> QED
    BY <1>1, Invariance, PTL

=============================================================================
