------------------------- MODULE BlockServingProofs -------------------------
(***************************************************************************)
(* For every set of peers, every group, every limit, and all requests and  *)
(* failures: the types, with the limit of the request queues, and that     *)
(* BlockServing implements BlocksOwed.                                     *)
(***************************************************************************)
EXTENDS BlockServing, FiniteSetTheorems, TLAPS

-----------------------------------------------------------------------------
(* Bags, and the size of a queue *)

(* A push adds the request to the queue, as one more copy of itself.       *)
LEMMA WithBag ==
    ASSUME NEW b, NEW e, IsABag(b)
    PROVE  /\ IsABag(With(b, e))
           /\ DOMAIN With(b, e) = DOMAIN b \cup {e}
           /\ \A x \in DOMAIN b : x # e => With(b, e)[x] = b[x]
           /\ With(b, e)[e] = IF e \in DOMAIN b THEN b[e] + 1 ELSE 1
  BY DEF With, IsABag, SetToBag, (+)

(* A pop takes one copy of the request out of the queue.                   *)
LEMMA WithoutBag ==
    ASSUME NEW b, NEW e \in DOMAIN b, IsABag(b)
    PROVE  /\ IsABag(Without(b, e))
           /\ DOMAIN Without(b, e) = IF b[e] = 1 THEN DOMAIN b \ {e} ELSE DOMAIN b
           /\ \A x \in DOMAIN b : x # e => Without(b, e)[x] = b[x]
           /\ b[e] # 1 => Without(b, e)[e] = b[e] - 1
  BY DEF Without, IsABag, SetToBag, (-)

(* The queue of a new entry is empty.                                      *)
LEMMA EmptyBagFacts ==
    /\ IsABag(EmptyBag)
    /\ DOMAIN EmptyBag = {}
    /\ Slots(EmptyBag) = {}
  BY DEF EmptyBag, SetToBag, IsABag, Slots

(* What is in a queue, copy by copy.                                       *)
LEMMA SlotsFacts ==
    ASSUME NEW q, NEW s
    PROVE  s \in Slots(q) <=> \E r \in DOMAIN q : \E i \in 1 .. q[r] : s = <<r, i>>
  BY DEF Slots

(* A push makes a queue one request longer.                                *)
LEMMA SizeOfWith ==
    ASSUME NEW q, IsABag(q), IsFiniteSet(Slots(q)), NEW e
    PROVE  /\ IsFiniteSet(Slots(With(q, e)))
           /\ QueueSize(With(q, e)) = QueueSize(q) + 1
  <1> DEFINE w == With(q, e)
             n == IF e \in DOMAIN q THEN q[e] + 1 ELSE 1
  <1>1. /\ DOMAIN w = DOMAIN q \cup {e}
        /\ \A x \in DOMAIN q : x # e => w[x] = q[x]
        /\ w[e] = n
    BY WithBag
  <1>2. n \in Nat \ {0} /\ \A x \in DOMAIN q : q[x] \in Nat
    BY DEF IsABag
  <1>3. e \in DOMAIN q => n = q[e] + 1
    OBVIOUS
  <1>4. e \notin DOMAIN q => n = 1
    OBVIOUS
  <1> HIDE DEF w, n
  <1>5. Slots(w) = Slots(q) \cup {<<e, n>>}
    <2>1. ASSUME NEW r \in DOMAIN w, NEW i \in 1 .. w[r]
          PROVE  <<r, i>> \in Slots(q) \cup {<<e, n>>}
      <3>1. CASE r # e
        BY <1>1, <3>1, SlotsFacts
      <3>2. CASE r = e /\ i = n
        BY <3>2
      <3>3. CASE r = e /\ i # n
        <4>1. e \in DOMAIN q /\ i \in 1 .. q[e]
          BY <1>1, <1>2, <1>3, <1>4, <3>3
        <4> QED
          BY <3>3, <4>1, SlotsFacts
      <3> QED
        BY <3>1, <3>2, <3>3
    <2>2. ASSUME NEW r \in DOMAIN q, NEW i \in 1 .. q[r]
          PROVE  <<r, i>> \in Slots(w)
      <3>1. r \in DOMAIN w /\ i \in 1 .. w[r]
        BY <1>1, <1>2, <1>3
      <3> QED
        BY <3>1, SlotsFacts
    <2>3. <<e, n>> \in Slots(w)
      <3>1. e \in DOMAIN w /\ n \in 1 .. w[e]
        BY <1>1, <1>2
      <3> QED
        BY <3>1, SlotsFacts
    <2> QED
      BY <2>1, <2>2, <2>3, SlotsFacts
  <1>6. <<e, n>> \notin Slots(q)
    BY <1>2, <1>3, SlotsFacts
  <1>7. IsFiniteSet(Slots(w)) /\ Cardinality(Slots(w)) = Cardinality(Slots(q)) + 1
    BY <1>5, <1>6, FS_AddElement
  <1> QED
    BY <1>7 DEF QueueSize, w

(* A pop does not make a queue longer.                                     *)
LEMMA SizeOfWithout ==
    ASSUME NEW q, IsABag(q), IsFiniteSet(Slots(q)), NEW e \in DOMAIN q
    PROVE  /\ IsFiniteSet(Slots(Without(q, e)))
           /\ QueueSize(Without(q, e)) <= QueueSize(q)
  <1> DEFINE w == Without(q, e)
  <1>1. /\ DOMAIN w \subseteq DOMAIN q
        /\ \A x \in DOMAIN w : x # e => w[x] = q[x]
        /\ e \in DOMAIN w => w[e] = q[e] - 1
    BY WithoutBag
  <1>2. \A x \in DOMAIN q : q[x] \in Nat
    BY DEF IsABag
  <1> HIDE DEF w
  <1>3. ASSUME NEW r \in DOMAIN w, NEW i \in 1 .. w[r]
        PROVE  <<r, i>> \in Slots(q)
    <2>1. r \in DOMAIN q /\ i \in 1 .. q[r]
      BY <1>1, <1>2
    <2> QED
      BY <2>1, SlotsFacts
  <1>4. Slots(w) \in SUBSET Slots(q)
    BY <1>3, SlotsFacts
  <1>5. IsFiniteSet(Slots(w)) /\ Cardinality(Slots(w)) <= Cardinality(Slots(q))
    BY <1>4, FS_Subset
  <1> QED
    BY <1>5 DEF QueueSize, w

-----------------------------------------------------------------------------
(* The inductive invariant *)

(* The queues are those of the peers, and finite.                          *)
QueuesFinite == DOMAIN m_reqQueue = Peers /\ \A p \in Peers : IsFiniteSet(Slots(m_reqQueue[p]))

(* There is no queue without an entry in the table.                        *)
NoEntryNoQueue == \A p \in Peers : m_peersStatus[p] = 0 => m_reqQueue[p] = EmptyBag

(* The task holds x_peersStatus, so the peers of its loop keep their       *)
(* entries, and it visits one of them at a time.                           *)
TaskVisits ==
    /\ \A p \in todo \cup peer : m_peersStatus[p] # 0
    /\ pc = "idle" => todo = {} /\ peer = {}
    /\ pc \in {"serve", "merge", "fetch"} => \E p \in Peers : peer = {p}

(* topAndPop takes the requests in the order of their first heights, and   *)
(* nobody pushes one meanwhile.                                            *)
MergeInOrder ==
    pc = "merge" => \A p \in peer : \A r \in DOMAIN m_reqQueue[p] : range.from <= r.from

(* A read that fails pushes its request to the entry it was for, which was *)
(* in the table.                                                           *)
ReadsHaveEntry == \A k \in DOMAIN reads : k.entry # 0

(* No two calls of the handler are taken for one another.                  *)
CallsDiffer ==
    /\ \A h \in handlers : h.id < received
    /\ \A h, g \in handlers : h.id = g.id => h = g

Inv ==
    /\ TypeOK
    /\ QueuesFinite
    /\ NoEntryNoQueue
    /\ TaskVisits
    /\ MergeInOrder
    /\ ReadsHaveEntry
    /\ CallsDiffer

-----------------------------------------------------------------------------
(* Queues *)

QueueOK(q) ==
    /\ IsABag(q)
    /\ DOMAIN q \subseteq Ranges
    /\ IsFiniteSet(Slots(q))
    /\ QueueSize(q) <= RequestLimit

(* What the invariant says of the queues, queue by queue.                  *)
LEMMA QueuesOK ==
    ASSUME Inv
    PROVE  DOMAIN m_reqQueue = Peers /\ \A p \in Peers : QueueOK(m_reqQueue[p])
  BY DEF Inv, TypeOK, QueuesFinite, QueueOK

(* The queue of a new entry.                                               *)
LEMMA EmptyQueueOK == QueueOK(EmptyBag)
  <1>1. QueueSize(EmptyBag) = 0
    BY EmptyBagFacts, FS_EmptySet DEF QueueSize
  <1> QED
    BY <1>1, EmptyBagFacts, FS_EmptySet, ServingAssumption DEF QueueOK

(* A request is let in only below the limit.                               *)
LEMMA PushOK ==
    ASSUME NEW q, QueueOK(q), NEW r \in Ranges, ~(QueueSize(q) >= RequestLimit)
    PROVE  QueueOK(With(q, r)) /\ DOMAIN With(q, r) = DOMAIN q \cup {r}
  <1>1. IsABag(With(q, r)) /\ DOMAIN With(q, r) = DOMAIN q \cup {r}
    BY WithBag DEF QueueOK
  <1>2. IsFiniteSet(Slots(With(q, r))) /\ QueueSize(With(q, r)) = QueueSize(q) + 1
    BY SizeOfWith DEF QueueOK
  <1>3. QueueSize(q) \in Nat
    BY FS_CardinalityType DEF QueueOK, QueueSize
  <1> QED
    BY <1>1, <1>2, <1>3, ServingAssumption DEF QueueOK

(* The top of a queue is taken.                                            *)
LEMMA PopOK ==
    ASSUME NEW q, QueueOK(q), NEW r \in DOMAIN q
    PROVE  /\ QueueOK(Without(q, r))
           /\ DOMAIN Without(q, r) \subseteq DOMAIN q
           /\ DOMAIN q \subseteq DOMAIN Without(q, r) \cup {r}
  <1>1. /\ IsABag(Without(q, r))
        /\ DOMAIN Without(q, r) \subseteq DOMAIN q
        /\ DOMAIN q \subseteq DOMAIN Without(q, r) \cup {r}
    BY WithoutBag DEF QueueOK
  <1>2. IsFiniteSet(Slots(Without(q, r))) /\ QueueSize(Without(q, r)) <= QueueSize(q)
    BY SizeOfWithout DEF QueueOK
  <1>3. QueueSize(q) \in Nat /\ QueueSize(Without(q, r)) \in Nat
    BY <1>2, FS_CardinalityType DEF QueueOK, QueueSize
  <1> QED
    BY <1>1, <1>2, <1>3, ServingAssumption DEF QueueOK

(* What the table's queues are after a push: one request more in the queue *)
(* of an entry of the table that is not being merged, or the same as ever. *)
Pushed(p, r) ==
    /\ DOMAIN m_reqQueue' = Peers
    /\ \A q \in Peers : QueueOK(m_reqQueue'[q])
    /\ \A q \in Peers \ {p} : m_reqQueue'[q] = m_reqQueue[q]
    /\ \/ m_reqQueue'[p] = m_reqQueue[p]
       \/ /\ DOMAIN m_reqQueue'[p] = DOMAIN m_reqQueue[p] \cup {r}
          /\ m_peersStatus[p] # 0
          /\ QueueFree(p)

(* push does that.                                                         *)
LEMMA PushPushes ==
    ASSUME Inv, NEW p \in Peers, NEW e, e # 0, NEW r \in Ranges, Push(p, e, r)
    PROVE  Pushed(p, r)
  <1>1. CASE m_reqQueue' = m_reqQueue
    BY <1>1, QueuesOK DEF Pushed
  <1>2. CASE /\ e = m_peersStatus[p] /\ QueueFree(p) /\ ~QueueFull(p)
             /\ m_reqQueue' = [m_reqQueue EXCEPT ![p] = With(@, r)]
    <2>1. /\ QueueOK(With(m_reqQueue[p], r))
          /\ DOMAIN With(m_reqQueue[p], r) = DOMAIN m_reqQueue[p] \cup {r}
      BY <1>2, QueuesOK, PushOK DEF QueueFull
    <2>2. /\ DOMAIN m_reqQueue' = Peers
          /\ m_reqQueue'[p] = With(m_reqQueue[p], r)
          /\ \A q \in Peers \ {p} : m_reqQueue'[q] = m_reqQueue[q]
      BY <1>2, QueuesOK
    <2> QED
      BY <1>2, <2>1, <2>2, QueuesOK DEF Pushed
  <1> QED
    BY <1>1, <1>2 DEF Push

-----------------------------------------------------------------------------
(* Every step preserves the invariant *)

(* A step that changes the queues by a push at most, and starts no read:   *)
(* what is to be shown of the handlers, the reads and the failures.        *)
LEMMA PushStep ==
    ASSUME Inv, NEW p \in Peers, NEW r \in Ranges, Pushed(p, r),
           UNCHANGED <<m_peersStatus, created, received, task, responses>>,
           failures' \in Nat,
           handlers' \subseteq handlers,
           IsABag(reads'), DOMAIN reads' \subseteq DOMAIN reads
    PROVE  Inv'
  <1> USE DEF task
  <1>1. TypeOK' /\ QueuesFinite'
    BY DEF Inv, TypeOK, QueuesFinite, Pushed, QueueOK
  <1>2. NoEntryNoQueue'
    BY DEF Inv, NoEntryNoQueue, Pushed
  <1>3. TaskVisits'
    BY DEF Inv, TaskVisits
  <1>4. MergeInOrder'
    BY DEF Inv, TypeOK, MergeInOrder, Pushed, QueueFree
  <1>5. ReadsHaveEntry' /\ CallsDiffer'
    BY DEF Inv, ReadsHaveEntry, CallsDiffer
  <1> QED
    BY <1>1, <1>2, <1>3, <1>4, <1>5 DEF Inv

(* A new entry replaces none, while the task is idle.                      *)
LEMMA InsertStep ==
    ASSUME Inv, NEW p \in Peers, TableFree, Insert(p),
           UNCHANGED <<received, task, reads, responses, failures>>,
           handlers' \subseteq Handler, CallsDiffer'
    PROVE  Inv'
  <1> USE DEF task, TableFree, Insert
  <1>1. /\ DOMAIN m_reqQueue' = Peers
        /\ \A q \in Peers : QueueOK(m_reqQueue'[q])
        /\ \A q \in Peers \ {p} : m_reqQueue'[q] = m_reqQueue[q]
    BY QueuesOK, EmptyQueueOK
  <1>2. m_peersStatus' \in [Peers -> Nat] /\ created' \in Nat /\ m_peersStatus'[p] # 0
    BY DEF Inv, TypeOK
  <1>3. \A q \in Peers \ {p} : m_peersStatus'[q] = m_peersStatus[q]
    BY DEF Inv, TypeOK
  <1>4. TypeOK' /\ QueuesFinite'
    BY <1>1, <1>2 DEF Inv, TypeOK, QueuesFinite, QueueOK
  <1>5. NoEntryNoQueue' /\ TaskVisits' /\ MergeInOrder' /\ ReadsHaveEntry'
    BY <1>1, <1>2, <1>3 DEF Inv, NoEntryNoQueue, TaskVisits, MergeInOrder, ReadsHaveEntry
  <1> QED
    BY <1>4, <1>5 DEF Inv

(* A request is received: its call has an id of its own.                   *)
LEMMA OnPeerBlocksRequestInv ==
    ASSUME Inv, NEW p \in Peers, NEW r \in Ranges, OnPeerBlocksRequest(p, r)
    PROVE  Inv'
  <1> USE DEF OnPeerBlocksRequest, table, task
  <1>1. PICK at \in {"insert", "push"} :
           handlers' \subseteq handlers \cup {[id |-> received, at |-> at, peer |-> p, req |-> r,
                                               entry |-> m_peersStatus[p]]}
    OBVIOUS
  <1>2. received \in Nat /\ received' = received + 1 /\ \A h \in handlers : h.id \in Nat
    BY DEF Inv, TypeOK, Handler
  <1>3. handlers' \subseteq Handler
    BY <1>1, <1>2 DEF Inv, TypeOK, Handler
  <1>4. CallsDiffer'
    BY <1>1, <1>2 DEF Inv, CallsDiffer
  <1> QED
    BY <1>2, <1>3, <1>4 DEF Inv, TypeOK, QueuesFinite, NoEntryNoQueue, TaskVisits, MergeInOrder,
       ReadsHaveEntry

(* A call that has been given its entry is the same call.                  *)
LEMMA CallFacts ==
    ASSUME NEW h \in Handler, NEW e \in Nat
    PROVE  LET g == [h EXCEPT !.at = "push", !.entry = e]
           IN  g \in Handler /\ g.id = h.id /\ g.peer = h.peer /\ g.req = h.req
  BY DEF Handler

(* A call of the handler goes on to its push, with the same id.            *)
LEMMA CallGoesOn ==
    ASSUME Inv, NEW h \in handlers, InsertEmptyPeer(h)
    PROVE  \E g \in Handler :
              /\ g.id = h.id /\ g.peer = h.peer /\ g.req = h.req
              /\ handlers' = (handlers \ {h}) \cup {g}
  <1> DEFINE same == [h EXCEPT !.at = "push"]
             made == [h EXCEPT !.at = "push", !.entry = created + 1]
  <1>1. h \in Handler /\ created + 1 \in Nat
    BY DEF Inv, TypeOK
  <1>2. same \in Handler /\ same.id = h.id /\ same.peer = h.peer /\ same.req = h.req
    BY <1>1 DEF Handler
  <1>3. made \in Handler /\ made.id = h.id /\ made.peer = h.peer /\ made.req = h.req
    BY <1>1, CallFacts
  <1>4. \/ handlers' = (handlers \ {h}) \cup {same}
        \/ handlers' = (handlers \ {h}) \cup {made}
    BY DEF InsertEmptyPeer
  <1> HIDE DEF same, made
  <1> QED
    BY <1>2, <1>3, <1>4

(* insertEmptyPeer: the call goes on, with its id.                         *)
LEMMA InsertEmptyPeerInv ==
    ASSUME Inv, NEW h \in handlers, InsertEmptyPeer(h)
    PROVE  Inv'
  <1>1. h \in Handler
    BY DEF Inv, TypeOK
  <1>2. PICK g \in Handler : g.id = h.id /\ handlers' = (handlers \ {h}) \cup {g}
    BY CallGoesOn
  <1>3. handlers' \subseteq Handler
    BY <1>2 DEF Inv, TypeOK
  <1>4. CallsDiffer'
    BY <1>2 DEF InsertEmptyPeer, Inv, CallsDiffer
  <1>5. CASE Insert(h.peer)
    BY <1>1, <1>3, <1>4, <1>5, InsertStep DEF InsertEmptyPeer, Handler
  <1>6. CASE UNCHANGED table
    BY <1>3, <1>4, <1>6 DEF InsertEmptyPeer, table, task, Inv, TypeOK, QueuesFinite, NoEntryNoQueue, TaskVisits,
       MergeInOrder, ReadsHaveEntry
  <1> QED
    BY <1>5, <1>6 DEF InsertEmptyPeer

(* The end of onPeerBlocksRequest.                                         *)
LEMMA PushRequestInv ==
    ASSUME Inv, NEW h \in handlers, PushRequest(h)
    PROVE  Inv' /\ Pushed(h.peer, h.req)
  <1>1. h.peer \in Peers /\ h.req \in Ranges
    BY DEF Inv, TypeOK, Handler
  <1>2. Pushed(h.peer, h.req)
    <2>1. CASE UNCHANGED m_reqQueue
      BY <2>1, QueuesOK DEF Pushed
    <2>2. CASE h.entry # 0 /\ Push(h.peer, h.entry, h.req)
      BY <1>1, <2>2, PushPushes
    <2> QED
      BY <2>1, <2>2 DEF PushRequest
  <1>3. /\ UNCHANGED <<m_peersStatus, created, received, task, responses>>
        /\ failures' \in Nat
        /\ handlers' \subseteq handlers
        /\ IsABag(reads') /\ DOMAIN reads' \subseteq DOMAIN reads
    BY DEF PushRequest, Inv, TypeOK
  <1> QED
    BY <1>1, <1>2, <1>3, PushStep

(* updatePeerStatus makes an entry.                                        *)
LEMMA UpdatePeerStatusInv ==
    ASSUME Inv, NEW p \in Peers, UpdatePeerStatus(p)
    PROVE  Inv'
  <1>1. handlers' \subseteq Handler /\ CallsDiffer'
    BY DEF UpdatePeerStatus, calls, Inv, TypeOK, CallsDiffer
  <1> QED
    BY <1>1, InsertStep DEF UpdatePeerStatus, calls

(* deletePeer takes the entry and its queue away.                          *)
LEMMA DeletePeerInv ==
    ASSUME Inv, NEW p \in Peers, DeletePeer(p)
    PROVE  Inv'
  <1> USE DEF DeletePeer, TableFree, calls, task
  <1>1. /\ DOMAIN m_reqQueue' = Peers
        /\ \A q \in Peers : QueueOK(m_reqQueue'[q])
        /\ \A q \in Peers \ {p} : m_reqQueue'[q] = m_reqQueue[q]
        /\ m_reqQueue'[p] = EmptyBag
    BY QueuesOK, EmptyQueueOK
  <1>2. m_peersStatus' \in [Peers -> Nat] /\ failures' \in Nat
    BY DEF Fails, Inv, TypeOK
  <1>3. \A q \in Peers \ {p} : m_peersStatus'[q] = m_peersStatus[q]
    BY DEF Inv, TypeOK
  <1>4. TypeOK' /\ QueuesFinite'
    BY <1>1, <1>2 DEF Inv, TypeOK, QueuesFinite, QueueOK
  <1>5. NoEntryNoQueue' /\ TaskVisits' /\ MergeInOrder' /\ ReadsHaveEntry' /\ CallsDiffer'
    BY <1>1, <1>3 DEF Inv, NoEntryNoQueue, TaskVisits, MergeInOrder, ReadsHaveEntry, CallsDiffer
  <1> QED
    BY <1>4, <1>5 DEF Inv

(* foreachPeerRandom's list is of peers with an entry, and its loop.       *)
LEMMA VisitInv ==
    ASSUME Inv, MaintainBlockRequest \/ NextPeer
    PROVE  Inv'
  BY DEF MaintainBlockRequest, NextPeer, table, calls, Inv, TypeOK, QueuesFinite, NoEntryNoQueue,
     TaskVisits, MergeInOrder, ReadsHaveEntry, CallsDiffer

(* The merged range starts with the request on top: none starts earlier.   *)
LEMMA ServePeerInv ==
    ASSUME Inv, ServePeer
    PROVE  Inv'
  <1> USE DEF ServePeer, table, calls
  <1>1. PICK p \in Peers : peer = {p}
    BY DEF Inv, TaskVisits
  <1>2. DOMAIN m_reqQueue[p] \subseteq Ranges
    BY DEF Inv, TypeOK
  <1>3. CASE pc' = "peers" /\ UNCHANGED range
    BY <1>3 DEF Inv, TypeOK, QueuesFinite, NoEntryNoQueue, TaskVisits, MergeInOrder,
       ReadsHaveEntry, CallsDiffer
  <1>4. ASSUME NEW r \in DOMAIN m_reqQueue[p], IsTop(m_reqQueue[p], r), pc' = "merge",
               range' = [from |-> r.from, size |-> 0]
        PROVE  Inv'
    <2>1. range' \in Ranges /\ range'.from = r.from /\ r.from \in Nat
      BY <1>2, <1>4 DEF Ranges
    <2>2. \A s \in DOMAIN m_reqQueue[p] : r.from <= s.from
      BY <1>2, <1>4 DEF IsTop, Ranges
    <2>3. MergeInOrder'
      BY <1>1, <2>1, <2>2 DEF MergeInOrder
    <2> QED
      BY <1>1, <1>4, <2>1, <2>3 DEF Inv, TypeOK, QueuesFinite, NoEntryNoQueue, TaskVisits,
         ReadsHaveEntry, CallsDiffer
  <1> QED
    BY <1>1, <1>3, <1>4

(* A request is merged: the range grows, and starts where it started.      *)
LEMMA MergedFacts ==
    ASSUME range \in Ranges, NEW r \in Ranges, range.from <= r.from,
           range.from + range.size >= r.from
    PROVE  /\ Merged(r) \in Ranges
           /\ Merged(r).from = range.from
           /\ Heights(Merged(r)) = Heights(range) \cup Heights(r)
  <1> DEFINE size == r.from + r.size - range.from
             merged == IF size > range.size THEN size ELSE range.size
  <1>1. /\ range.from \in Nat /\ range.size \in Nat
        /\ r.from \in Nat /\ r.size \in Nat
    BY DEF Ranges
  <1>2. Merged(r) = [from |-> range.from, size |-> merged]
    BY DEF Merged, Ranges
  <1>3. merged \in Nat
    BY <1>1
  <1>4. range.from .. (range.from + merged - 1)
          = (range.from .. (range.from + range.size - 1)) \cup (r.from .. (r.from + r.size - 1))
    BY <1>1
  <1> HIDE DEF merged
  <1> QED
    BY <1>1, <1>2, <1>3, <1>4 DEF Ranges, Heights

(* One turn of topAndPop's loop takes a request from the visited queue.    *)
LEMMA TopAndPopInv ==
    ASSUME Inv, TopAndPop
    PROVE  Inv'
  <1> USE DEF TopAndPop, calls
  <1>1. PICK p \in Peers : peer = {p}
    BY DEF Inv, TaskVisits
  <1>2. range \in Ranges /\ range.from \in Nat
    BY DEF Inv, TypeOK, Ranges
  <1>3. ASSUME NEW r \in DOMAIN m_reqQueue[p],
               Mergeable(m_reqQueue[p], r),
               range' = Merged(r),
               m_reqQueue' = [m_reqQueue EXCEPT ![p] = Without(@, r)],
               UNCHANGED <<pc, number>>
        PROVE  Inv'
    <2>1. r \in Ranges /\ range.from <= r.from
      BY <1>1 DEF Inv, TypeOK, MergeInOrder
    <2>2. range' \in Ranges /\ range'.from = range.from
      BY <1>2, <1>3, <2>1, MergedFacts DEF Mergeable
    <2>3. /\ QueueOK(Without(m_reqQueue[p], r))
          /\ DOMAIN Without(m_reqQueue[p], r) \subseteq DOMAIN m_reqQueue[p]
      BY <1>3, QueuesOK, PopOK
    <2>4. /\ DOMAIN m_reqQueue' = Peers
          /\ m_reqQueue'[p] = Without(m_reqQueue[p], r)
          /\ \A q \in Peers \ {p} : m_reqQueue'[q] = m_reqQueue[q]
      BY <1>3, QueuesOK
    <2>5. \A q \in Peers : QueueOK(m_reqQueue'[q])
      BY <2>3, <2>4, QueuesOK
    <2>6. TypeOK' /\ QueuesFinite'
      BY <1>3, <2>2, <2>4, <2>5 DEF Inv, TypeOK, QueuesFinite, QueueOK
    <2>7. NoEntryNoQueue'
      <3>1. m_peersStatus[p] # 0
        BY <1>1 DEF Inv, TaskVisits
      <3> QED
        BY <2>4, <3>1 DEF Inv, NoEntryNoQueue
    <2>8. MergeInOrder'
      BY <1>1, <2>2, <2>3, <2>4 DEF Inv, MergeInOrder
    <2> QED
      BY <1>3, <2>6, <2>7, <2>8 DEF Inv, TaskVisits, ReadsHaveEntry, CallsDiffer
  <1>4. CASE pc' = "fetch" /\ number' = range.from /\ UNCHANGED <<range, m_reqQueue>>
    BY <1>2, <1>4 DEF Inv, TypeOK, QueuesFinite, NoEntryNoQueue, TaskVisits, MergeInOrder,
       ReadsHaveEntry, CallsDiffer
  <1> QED
    BY <1>1, <1>3, <1>4

(* A read is started for a peer that has an entry.                         *)
LEMMA FetchAndSendBlockInv ==
    ASSUME Inv, FetchAndSendBlock
    PROVE  Inv'
  <1> USE DEF FetchAndSendBlock, table, calls
  <1>1. CASE number < range.from + range.size
    <2>1. PICK p \in peer :
             reads' = With(reads, [peer |-> p, entry |-> m_peersStatus[p], num |-> number])
      BY <1>1 DEF Inv, TypeOK, Ranges
    <2> DEFINE k == [peer |-> p, entry |-> m_peersStatus[p], num |-> number]
    <2>2. k \in [peer : Peers, entry : Nat, num : Nat] /\ k.entry # 0
      BY DEF Inv, TypeOK, TaskVisits
    <2>3. IsABag(reads') /\ DOMAIN reads' = DOMAIN reads \cup {k}
      BY <2>1, WithBag DEF Inv, TypeOK
    <2>4. number' \in Nat /\ UNCHANGED <<pc, range>>
      BY <1>1 DEF Inv, TypeOK, Ranges
    <2> HIDE DEF k
    <2> QED
      BY <2>2, <2>3, <2>4 DEF Inv, TypeOK, QueuesFinite, NoEntryNoQueue, TaskVisits, MergeInOrder,
         ReadsHaveEntry, CallsDiffer
  <1>2. CASE number >= range.from + range.size
    <2>1. pc' = "serve" /\ range' \in Ranges /\ number' \in Nat /\ UNCHANGED reads
      BY <1>2 DEF Nothing, Ranges, Inv, TypeOK
    <2> QED
      BY <2>1 DEF Inv, TypeOK, QueuesFinite, NoEntryNoQueue, TaskVisits, MergeInOrder,
         ReadsHaveEntry, CallsDiffer
  <1> QED
    BY <1>1, <1>2

(* The read is over: the bag of reads has one less.                        *)
LEMMA ReadEnds ==
    ASSUME Inv, NEW k \in DOMAIN reads, reads' = Without(reads, k)
    PROVE  /\ IsABag(reads')
           /\ DOMAIN reads' \subseteq DOMAIN reads
           /\ DOMAIN reads \subseteq DOMAIN reads' \cup {k}
  BY WithoutBag DEF Inv, TypeOK

(* The block is sent, or an exception ends the matter.                     *)
LEMMA BlockReadInv ==
    ASSUME Inv, NEW k \in DOMAIN reads, BlockRead(k) \/ BlockNotSent(k)
    PROVE  Inv'
  <1> USE DEF BlockRead, BlockNotSent, table, calls, task
  <1>1. IsABag(reads') /\ DOMAIN reads' \subseteq DOMAIN reads
    BY ReadEnds
  <1>2. k.peer \in Peers /\ k.num \in Nat
    BY DEF Inv, TypeOK
  <1>3. IsABag(responses') /\ DOMAIN responses' \subseteq [peer : Peers, num : Nat]
    <2>1. CASE UNCHANGED responses
      BY <2>1 DEF Inv, TypeOK
    <2>2. CASE responses' = With(responses, [peer |-> k.peer, num |-> k.num])
      <3> DEFINE m == [peer |-> k.peer, num |-> k.num]
      <3>1. m \in [peer : Peers, num : Nat]
        BY <1>2
      <3> HIDE DEF m
      <3>2. IsABag(With(responses, m)) /\ DOMAIN With(responses, m) = DOMAIN responses \cup {m}
        BY WithBag DEF Inv, TypeOK
      <3> QED
        BY <2>2, <3>1, <3>2 DEF Inv, TypeOK, m
    <2> QED
      BY <2>1, <2>2
  <1>4. failures' \in Nat
    BY DEF Fails, Inv, TypeOK
  <1> QED
    BY <1>1, <1>3, <1>4 DEF Inv, TypeOK, QueuesFinite, NoEntryNoQueue, TaskVisits, MergeInOrder,
       ReadsHaveEntry, CallsDiffer

(* The block could not be read: one request goes back to its entry.        *)
LEMMA BlockNotReadInv ==
    ASSUME Inv, NEW k \in DOMAIN reads, BlockNotRead(k)
    PROVE  Inv' /\ Pushed(k.peer, [from |-> k.num, size |-> 1])
  <1> DEFINE r == [from |-> k.num, size |-> 1]
  <1>1. k.peer \in Peers /\ k.entry # 0 /\ r \in Ranges
    BY DEF Inv, TypeOK, ReadsHaveEntry, Ranges
  <1>2. Push(k.peer, k.entry, r)
    BY DEF BlockNotRead
  <1> HIDE DEF r
  <1>3. Pushed(k.peer, r)
    BY <1>1, <1>2, PushPushes
  <1>4. /\ UNCHANGED <<m_peersStatus, created, received, task, responses>>
        /\ failures' \in Nat
        /\ handlers' \subseteq handlers
        /\ IsABag(reads') /\ DOMAIN reads' \subseteq DOMAIN reads
    BY ReadEnds DEF BlockNotRead, calls, Fails, Inv, TypeOK
  <1>5. Inv'
    BY <1>1, <1>3, <1>4, PushStep
  <1> QED
    BY <1>3, <1>5 DEF r

(* The front service delivers a block.                                     *)
LEMMA DeliverInv ==
    ASSUME Inv, NEW m \in DOMAIN responses, Deliver(m)
    PROVE  Inv'
  <1>1. IsABag(responses') /\ DOMAIN responses' \subseteq DOMAIN responses
    BY WithoutBag DEF Deliver, Inv, TypeOK
  <1> QED
    BY <1>1 DEF Deliver, table, calls, task, Inv, TypeOK, QueuesFinite, NoEntryNoQueue, TaskVisits,
       MergeInOrder, ReadsHaveEntry, CallsDiffer

(* Nobody has an entry, and the task is idle.                              *)
LEMMA InitInv == Init => Inv
  <1> SUFFICES ASSUME Init PROVE Inv
    OBVIOUS
  <1> USE DEF Init
  <1>1. DOMAIN m_reqQueue = Peers /\ \A p \in Peers : m_reqQueue[p] = EmptyBag
    OBVIOUS
  <1>2. TypeOK /\ QueuesFinite
    BY <1>1, EmptyQueueOK, EmptyBagFacts, ServingAssumption DEF TypeOK, QueuesFinite, QueueOK,
       Nothing, Ranges
  <1> QED
    BY <1>1, <1>2, EmptyBagFacts DEF Inv, NoEntryNoQueue, TaskVisits, MergeInOrder, ReadsHaveEntry,
       CallsDiffer

(* Every step of the handlers, the task, the ledger and the network.       *)
LEMMA NextInv == Inv /\ [Next]_vars => Inv'
  <1> SUFFICES ASSUME Inv, [Next]_vars PROVE Inv'
    OBVIOUS
  <1>1. CASE SyncSendTask
    BY <1>1, VisitInv, ServePeerInv, TopAndPopInv, FetchAndSendBlockInv DEF SyncSendTask
  <1>2. ASSUME NEW p \in Peers, NEW r \in Requests, OnPeerBlocksRequest(p, r) PROVE Inv'
    BY <1>2, OnPeerBlocksRequestInv, ServingAssumption
  <1>3. ASSUME NEW h \in handlers, InsertEmptyPeer(h) \/ PushRequest(h) PROVE Inv'
    BY <1>3, InsertEmptyPeerInv, PushRequestInv
  <1>4. ASSUME NEW p \in Peers, UpdatePeerStatus(p) \/ DeletePeer(p) PROVE Inv'
    BY <1>4, UpdatePeerStatusInv, DeletePeerInv
  <1>5. ASSUME NEW k \in DOMAIN reads, BlockRead(k) \/ BlockNotRead(k) \/ BlockNotSent(k) PROVE Inv'
    BY <1>5, BlockReadInv, BlockNotReadInv
  <1>6. ASSUME NEW m \in DOMAIN responses, Deliver(m) PROVE Inv'
    BY <1>6, DeliverInv
  <1>7. CASE UNCHANGED vars
    BY <1>7 DEF vars, table, calls, task, Inv, TypeOK, QueuesFinite, NoEntryNoQueue, TaskVisits,
       MergeInOrder, ReadsHaveEntry, CallsDiffer
  <1> QED
    BY <1>1, <1>2, <1>3, <1>4, <1>5, <1>6, <1>7 DEF Next

-----------------------------------------------------------------------------
(* The invariants *)

(* The inductive invariant holds in every reachable state.                 *)
THEOREM Invariance == Spec => []Inv
  <1> QED
    BY InitInv, NextInv, PTL DEF Spec

(* No request queue ever holds more requests than its limit, whoever       *)
(* pushes: handlers, or callbacks of reads that failed.                    *)
THEOREM TypeCorrect == Spec => []TypeOK
  <1>1. Inv => TypeOK
    BY DEF Inv
  <1> QED
    BY <1>1, Invariance, PTL

-----------------------------------------------------------------------------
(* The refinement *)

(* The state of BlocksOwed that a state stands for.                        *)
Asked == {[id |-> h.id, peer |-> h.peer, req |-> h.req] : h \in handlers}
OwedTo == [p \in Peers |-> Owed(p)]

(* A step that changes none of it.                                         *)
LEMMA Stutter ==
    ASSUME Asked' = Asked, \A p \in Peers : Owed(p)' = Owed(p),
           UNCHANGED <<responses, failures>>
    PROVE  UNCHANGED Promise!promise
  BY DEF Promise!promise, Asked

(* The task visits peers and takes the first range: what is owed stays in  *)
(* the queues.                                                             *)
LEMMA VisitOwes ==
    ASSUME Inv, MaintainBlockRequest \/ NextPeer \/ ServePeer
    PROVE  \A p \in Peers : Owed(p)' = Owed(p)
  <1> SUFFICES ASSUME NEW p \in Peers PROVE Owed(p)' = Owed(p)
    OBVIOUS
  <1>1. Queued(p)' = Queued(p) /\ Reading(p)' = Reading(p)
    BY DEF MaintainBlockRequest, NextPeer, ServePeer, table, Queued, Reading
  <1>2. Merging(p) = {} /\ Fetching(p) = {} /\ Fetching(p)' = {}
    BY DEF MaintainBlockRequest, NextPeer, ServePeer, Merging, Fetching
  <1>3. Merging(p)' = {}
    <2>1. CASE pc' # "merge"
      BY <2>1 DEF Merging
    <2>2. CASE pc' = "merge"
      <3>1. ServePeer
        BY <2>2 DEF MaintainBlockRequest, NextPeer
      <3>2. PICK q \in peer : \E r \in DOMAIN m_reqQueue[q] : range' = [from |-> r.from, size |-> 0]
        BY <2>2, <3>1 DEF ServePeer
      <3>3. PICK r \in DOMAIN m_reqQueue[q] : range' = [from |-> r.from, size |-> 0]
        BY <3>2
      <3>4. r.from \in Nat
        BY DEF Inv, TypeOK, Ranges
      <3>5. Heights(range') = {}
        BY <3>3, <3>4 DEF Heights
      <3> QED
        BY <3>5 DEF Merging, Heights
    <2> QED
      BY <2>1, <2>2
  <1> QED
    BY <1>1, <1>2, <1>3 DEF Owed

(* topAndPop: the heights of a merged request move from the queue to the   *)
(* range, the overlap once; then the range is the one to fetch.            *)
LEMMA TopAndPopOwes ==
    ASSUME Inv, TopAndPop
    PROVE  \A p \in Peers : Owed(p)' = Owed(p)
  <1> SUFFICES ASSUME NEW q \in Peers PROVE Owed(q)' = Owed(q)
    OBVIOUS
  <1> USE DEF TopAndPop
  <1>1. PICK p \in Peers : peer = {p}
    BY DEF Inv, TaskVisits
  <1>2. range \in Ranges /\ peer' = peer /\ Reading(q)' = Reading(q)
    BY DEF Inv, TypeOK, Reading
  <1>3. ASSUME NEW r \in DOMAIN m_reqQueue[p],
               Mergeable(m_reqQueue[p], r),
               range' = Merged(r),
               m_reqQueue' = [m_reqQueue EXCEPT ![p] = Without(@, r)],
               UNCHANGED <<pc, number>>
        PROVE  Owed(q)' = Owed(q)
    <2>1. r \in Ranges /\ range.from <= r.from
      BY <1>1 DEF Inv, TypeOK, MergeInOrder
    <2>2. Heights(range') = Heights(range) \cup Heights(r)
      BY <1>2, <1>3, <2>1, MergedFacts DEF Mergeable
    <2>3. /\ DOMAIN m_reqQueue'[p] \subseteq DOMAIN m_reqQueue[p]
          /\ DOMAIN m_reqQueue[p] \subseteq DOMAIN m_reqQueue'[p] \cup {r}
      BY <1>3, QueuesOK, PopOK
    <2>4. CASE q = p
      <3>1. Queued(q) = Queued(q)' \cup Heights(r)
        BY <2>3, <2>4 DEF Queued, Heights
      <3>2. Merging(q)' = Merging(q) \cup Heights(r) /\ Fetching(q) = {} /\ Fetching(q)' = {}
        BY <1>1, <1>2, <1>3, <2>2, <2>4 DEF Merging, Fetching, Heights
      <3> QED
        BY <1>2, <3>1, <3>2 DEF Owed
    <2>5. CASE q # p
      <3>1. Queued(q) = Queued(q)'
        BY <1>3, <2>5, QueuesOK DEF Queued, Heights
      <3>2. Merging(q)' = {} /\ Merging(q) = {} /\ Fetching(q) = {} /\ Fetching(q)' = {}
        BY <1>1, <1>2, <2>5 DEF Merging, Fetching
      <3> QED
        BY <1>2, <3>1, <3>2 DEF Owed
    <2> QED
      BY <2>4, <2>5
  <1>4. CASE pc' = "fetch" /\ number' = range.from /\ UNCHANGED <<range, m_reqQueue>>
    <2>1. Queued(q)' = Queued(q)
      BY <1>4 DEF Queued
    <2>2. Fetching(q)' = Merging(q) /\ Merging(q)' = {} /\ Fetching(q) = {}
      BY <1>2, <1>4 DEF Merging, Fetching, Heights
    <2> QED
      BY <1>2, <2>1, <2>2 DEF Owed
  <1> QED
    BY <1>1, <1>3, <1>4

(* The next height to fetch moves to the reads; after the last none is     *)
(* left of the range.                                                      *)
LEMMA FetchOwes ==
    ASSUME Inv, FetchAndSendBlock
    PROVE  \A p \in Peers : Owed(p)' = Owed(p)
  <1> SUFFICES ASSUME NEW q \in Peers PROVE Owed(q)' = Owed(q)
    OBVIOUS
  <1> USE DEF FetchAndSendBlock, table
  <1>1. PICK p \in Peers : peer = {p}
    BY DEF Inv, TaskVisits
  <1>2. number \in Nat /\ range.from \in Nat /\ range.size \in Nat
    BY DEF Inv, TypeOK, Ranges
  <1>3. Queued(q)' = Queued(q) /\ Merging(q) = {} /\ Merging(q)' = {}
    BY DEF Queued, Merging
  <1>4. CASE number < range.from + range.size
    <2> DEFINE k == [peer |-> p, entry |-> m_peersStatus[p], num |-> number]
    <2>1. /\ reads' = With(reads, k)
          /\ number' = number + 1
          /\ UNCHANGED <<pc, peer, range>>
      BY <1>1, <1>2, <1>4
    <2>2. k.peer = p /\ k.num = number
      OBVIOUS
    <2> HIDE DEF k
    <2>3. DOMAIN reads' = DOMAIN reads \cup {k}
      BY <2>1, WithBag DEF Inv, TypeOK
    <2>4. CASE q = p
      <3>1. Reading(q)' = Reading(q) \cup {number}
        BY <2>2, <2>3, <2>4 DEF Reading
      <3>2. number .. (range.from + range.size - 1)
              = {number} \cup ((number + 1) .. (range.from + range.size - 1))
        BY <1>2, <1>4
      <3>3. Fetching(q) = Fetching(q)' \cup {number}
        BY <1>1, <2>1, <2>4, <3>2 DEF Fetching
      <3> QED
        BY <1>3, <3>1, <3>3 DEF Owed
    <2>5. CASE q # p
      <3>1. Reading(q)' = Reading(q)
        BY <2>2, <2>3, <2>5 DEF Reading
      <3>2. Fetching(q) = {} /\ Fetching(q)' = {}
        BY <1>1, <2>1, <2>5 DEF Fetching
      <3> QED
        BY <1>3, <3>1, <3>2 DEF Owed
    <2> QED
      BY <2>4, <2>5
  <1>5. CASE number >= range.from + range.size
    <2>1. pc' = "serve" /\ UNCHANGED reads
      BY <1>2, <1>5
    <2>2. number .. (range.from + range.size - 1) = {}
      BY <1>2, <1>5
    <2>3. Fetching(q) = {} /\ Fetching(q)' = {} /\ Reading(q)' = Reading(q)
      BY <2>1, <2>2 DEF Fetching, Reading
    <2> QED
      BY <1>3, <2>3 DEF Owed
  <1> QED
    BY <1>2, <1>4, <1>5

(* A new entry starts with the empty queue that none had.                  *)
LEMMA InsertOwes ==
    ASSUME Inv, NEW p \in Peers, m_peersStatus[p] = 0, Insert(p), UNCHANGED <<task, reads>>
    PROVE  \A q \in Peers : Owed(q)' = Owed(q)
  <1>1. m_reqQueue[p] = EmptyBag
    BY DEF Inv, NoEntryNoQueue
  <1>2. \A q \in Peers : m_reqQueue'[q] = m_reqQueue[q]
    BY <1>1, QueuesOK DEF Insert
  <1> QED
    BY <1>2 DEF task, Owed, Queued, Merging, Fetching, Reading

(* A push: the peer is owed the heights of the request as well, or not,    *)
(* and what the reads have become.                                         *)
LEMMA PushOwes ==
    ASSUME NEW p \in Peers, NEW r, Pushed(p, r), UNCHANGED task
    PROVE  \/ \A q \in Peers : Queued(q)' = Queued(q)
           \/ /\ \A q \in Peers \ {p} : Queued(q)' = Queued(q)
              /\ Queued(p)' = Queued(p) \cup Heights(r)
  <1>1. CASE m_reqQueue'[p] = m_reqQueue[p]
    BY <1>1 DEF Pushed, Queued
  <1>2. CASE DOMAIN m_reqQueue'[p] = DOMAIN m_reqQueue[p] \cup {r}
    <2>1. Queued(p)' = Queued(p) \cup Heights(r)
      BY <1>2 DEF Queued, Heights
    <2>2. \A q \in Peers \ {p} : Queued(q)' = Queued(q)
      BY DEF Pushed, Queued
    <2> QED
      BY <2>1, <2>2
  <1> QED
    BY <1>1, <1>2 DEF Pushed

(* The task only moves heights between the parts of what is owed.          *)
LEMMA TaskRefines ==
    ASSUME Inv, SyncSendTask
    PROVE  UNCHANGED Promise!promise
  <1>1. \A p \in Peers : Owed(p)' = Owed(p)
    BY VisitOwes, TopAndPopOwes, FetchOwes DEF SyncSendTask
  <1>2. Asked' = Asked /\ UNCHANGED <<responses, failures>>
    BY DEF SyncSendTask, MaintainBlockRequest, NextPeer, ServePeer, TopAndPop, FetchAndSendBlock,
       calls, Asked
  <1> QED
    BY <1>1, <1>2, Stutter

(* A request is received: Ask.                                             *)
LEMMA RequestRefines ==
    ASSUME Inv, NEW p \in Peers, NEW r \in Ranges, OnPeerBlocksRequest(p, r)
    PROVE  Promise!Next
  <1>1. handlers \subseteq handlers' /\ UNCHANGED <<responses, failures>>
    BY DEF OnPeerBlocksRequest
  <1>2. \A q \in Peers : Owed(q)' = Owed(q)
    BY DEF OnPeerBlocksRequest, table, task, Owed, Queued, Merging, Fetching, Reading
  <1>3. Asked \subseteq Asked'
    BY <1>1 DEF Asked
  <1> QED
    BY <1>1, <1>2, <1>3 DEF Promise!Next, Promise!Ask, Asked

(* The lookup or making of an entry decides nothing.                       *)
LEMMA EntryRefines ==
    ASSUME Inv,
           \/ \E h \in handlers : InsertEmptyPeer(h)
           \/ \E p \in Peers : UpdatePeerStatus(p)
    PROVE  UNCHANGED Promise!promise
  <1>1. ASSUME NEW h \in handlers, InsertEmptyPeer(h) PROVE UNCHANGED Promise!promise
    <2>1. PICK g \in Handler : /\ g.id = h.id /\ g.peer = h.peer /\ g.req = h.req
                               /\ handlers' = (handlers \ {h}) \cup {g}
      BY <1>1, CallGoesOn
    <2>2. Asked' = Asked
      BY <2>1 DEF Asked
    <2>3. h.peer \in Peers
      BY DEF Inv, TypeOK, Handler
    <2>4. \A q \in Peers : Owed(q)' = Owed(q)
      <3>1. CASE m_peersStatus[h.peer] = 0
        BY <1>1, <2>3, <3>1, InsertOwes DEF InsertEmptyPeer
      <3>2. CASE m_peersStatus[h.peer] # 0
        BY <1>1, <3>2 DEF InsertEmptyPeer, table, task, Owed, Queued, Merging, Fetching, Reading
      <3> QED
        BY <3>1, <3>2
    <2> QED
      BY <1>1, <2>2, <2>4, Stutter DEF InsertEmptyPeer
  <1>2. ASSUME NEW p \in Peers, UpdatePeerStatus(p) PROVE UNCHANGED Promise!promise
    <2>1. \A q \in Peers : Owed(q)' = Owed(q)
      BY <1>2, InsertOwes DEF UpdatePeerStatus
    <2>2. Asked' = Asked /\ UNCHANGED <<responses, failures>>
      BY <1>2 DEF UpdatePeerStatus, calls, Asked
    <2> QED
      BY <2>1, <2>2, Stutter
  <1> QED
    BY <1>1, <1>2

(* The request is queued, or dropped: Accept, or Refuse.                   *)
LEMMA PushRequestRefines ==
    ASSUME Inv, NEW h \in handlers, PushRequest(h)
    PROVE  Promise!Next
  <1> DEFINE a == [id |-> h.id, peer |-> h.peer, req |-> h.req]
  <1>1. h.peer \in Peers
    BY DEF Inv, TypeOK, Handler
  <1>2. handlers' = handlers \ {h} /\ UNCHANGED <<task, reads, responses, failures>>
    BY DEF PushRequest
  <1>3. a \in Asked /\ Asked' = Asked \ {a}
    <2>1. \A g \in handlers : g.id = h.id => g = h
      BY DEF Inv, CallsDiffer
    <2> QED
      BY <1>2, <2>1 DEF Asked
  <1>4. a.peer = h.peer /\ a.req = h.req
    OBVIOUS
  <1> HIDE DEF a
  <1>5. \/ \A q \in Peers : Queued(q)' = Queued(q)
        \/ /\ \A q \in Peers \ {h.peer} : Queued(q)' = Queued(q)
           /\ Queued(h.peer)' = Queued(h.peer) \cup Heights(h.req)
    BY <1>1, <1>2, PushRequestInv, PushOwes
  <1>6. \A q \in Peers : /\ Merging(q)' = Merging(q)
                         /\ Fetching(q)' = Fetching(q)
                         /\ Reading(q)' = Reading(q)
    BY <1>2 DEF task, Merging, Fetching, Reading, Heights
  <1>7. CASE \A q \in Peers : Queued(q)' = Queued(q)
    <2>1. OwedTo' = OwedTo
      BY <1>6, <1>7 DEF OwedTo, Owed
    <2>2. Promise!Refuse(a)
      BY <1>2, <1>3, <2>1 DEF Promise!Refuse, Asked, OwedTo
    <2> QED
      BY <1>3, <2>2 DEF Promise!Next, Asked
  <1>8. CASE /\ \A q \in Peers \ {h.peer} : Queued(q)' = Queued(q)
             /\ Queued(h.peer)' = Queued(h.peer) \cup Heights(h.req)
    <2>1. /\ Owed(h.peer)' = Owed(h.peer) \cup Heights(h.req)
          /\ \A q \in Peers \ {h.peer} : Owed(q)' = Owed(q)
      BY <1>1, <1>6, <1>8 DEF Owed
    <2>2. OwedTo' = [OwedTo EXCEPT ![a.peer] = @ \cup Promise!Heights(a.req)]
      BY <1>1, <1>4, <2>1 DEF OwedTo, Promise!Heights, Heights
    <2>3. Promise!Accept(a)
      BY <1>2, <1>3, <2>2 DEF Promise!Accept, Asked, OwedTo
    <2> QED
      BY <1>3, <2>3 DEF Promise!Next, Asked
  <1> QED
    BY <1>5, <1>7, <1>8

(* A fault takes from what one peer is owed.                               *)
LEMMA FaultRefines ==
    ASSUME Inv, NEW p \in Peers, NEW op, Fails(op),
           UNCHANGED <<calls, responses>>,
           Owed(p)' \subseteq Owed(p),
           \A q \in Peers \ {p} : Owed(q)' = Owed(q)
    PROVE  Promise!Next
  <1>1. failures > 0 /\ failures' = failures - 1
    BY DEF Fails
  <1>2. Asked' = Asked
    BY DEF calls, Asked
  <1>3. OwedTo'[p] \subseteq OwedTo[p] /\ OwedTo' = [OwedTo EXCEPT ![p] = OwedTo'[p]]
    BY DEF OwedTo
  <1>4. Promise!Fault(p)
    BY <1>1, <1>2, <1>3 DEF Promise!Fault, Asked, OwedTo
  <1> QED
    BY <1>4 DEF Promise!Next

(* deletePeer takes the queue of the peer along.                           *)
LEMMA DeletePeerRefines ==
    ASSUME Inv, NEW p \in Peers, DeletePeer(p)
    PROVE  Promise!Next
  <1>1. DOMAIN m_reqQueue'[p] = {} /\ \A q \in Peers \ {p} : m_reqQueue'[q] = m_reqQueue[q]
    BY QueuesOK, EmptyBagFacts DEF DeletePeer
  <1>2. Queued(p)' = {} /\ \A q \in Peers \ {p} : Queued(q)' = Queued(q)
    BY <1>1 DEF Queued
  <1>3. \A q \in Peers : /\ Merging(q)' = Merging(q)
                         /\ Fetching(q)' = Fetching(q)
                         /\ Reading(q)' = Reading(q)
    BY DEF DeletePeer, task, Merging, Fetching, Reading, Heights
  <1>4. Owed(p)' \subseteq Owed(p) /\ \A q \in Peers \ {p} : Owed(q)' = Owed(q)
    BY <1>2, <1>3 DEF Owed
  <1> QED
    BY <1>4, FaultRefines DEF DeletePeer

(* The reads of the other peers go on, and of this peer all but one.       *)
LEMMA ReadingFacts ==
    ASSUME Inv, NEW k \in DOMAIN reads, reads' = Without(reads, k)
    PROVE  /\ k.num \in Reading(k.peer)
           /\ Reading(k.peer)' \subseteq Reading(k.peer)
           /\ Reading(k.peer) \subseteq Reading(k.peer)' \cup {k.num}
           /\ \A q \in Peers \ {k.peer} : Reading(q)' = Reading(q)
  <1>1. DOMAIN reads' \subseteq DOMAIN reads /\ DOMAIN reads \subseteq DOMAIN reads' \cup {k}
    BY ReadEnds
  <1>2. k.num \in Reading(k.peer) /\ Reading(k.peer)' \subseteq Reading(k.peer)
    BY <1>1 DEF Reading
  <1>3. Reading(k.peer) \subseteq Reading(k.peer)' \cup {k.num}
    BY <1>1 DEF Reading
  <1>4. ASSUME NEW q \in Peers \ {k.peer} PROVE Reading(q)' = Reading(q)
    BY <1>1 DEF Reading
  <1> QED
    BY <1>2, <1>3, <1>4

(* A block that was read is sent: one that was owed, and that may be owed  *)
(* still for another request.                                              *)
LEMMA BlockReadRefines ==
    ASSUME Inv, NEW k \in DOMAIN reads, BlockRead(k)
    PROVE  Promise!Next
  <1> USE DEF BlockRead
  <1>1. k.peer \in Peers
    BY DEF Inv, TypeOK
  <1>2. \A q \in Peers : /\ Queued(q)' = Queued(q)
                         /\ Merging(q)' = Merging(q)
                         /\ Fetching(q)' = Fetching(q)
    BY DEF table, task, Queued, Merging, Fetching, Heights
  <1>3. /\ k.num \in Reading(k.peer)
        /\ Reading(k.peer)' \subseteq Reading(k.peer)
        /\ Reading(k.peer) \subseteq Reading(k.peer)' \cup {k.num}
        /\ \A q \in Peers \ {k.peer} : Reading(q)' = Reading(q)
    BY ReadingFacts
  <1>4. \A q \in Peers \ {k.peer} : Owed(q)' = Owed(q)
    BY <1>2, <1>3 DEF Owed
  <1>5. Owed(k.peer)' \in {Owed(k.peer), Owed(k.peer) \ {k.num}} /\ k.num \in Owed(k.peer)
    BY <1>1, <1>2, <1>3 DEF Owed
  <1>6. OwedTo' \in {OwedTo, [OwedTo EXCEPT ![k.peer] = @ \ {k.num}]}
    BY <1>1, <1>4, <1>5 DEF OwedTo
  <1>7. k.num \in OwedTo[k.peer]
    BY <1>1, <1>5 DEF OwedTo
  <1>8. Asked' = Asked /\ UNCHANGED failures
    BY DEF calls, Asked
  <1>9. responses' = responses (+) SetToBag({[peer |-> k.peer, num |-> k.num]})
    BY DEF With
  <1>10. Promise!Send(k.peer, k.num)
    BY <1>6, <1>8, <1>9 DEF Promise!Send, Asked, OwedTo, (+), SetToBag, Promise!(+), Promise!SetToBag
  <1> QED
    BY <1>1, <1>7, <1>10 DEF Promise!Next, OwedTo

(* A block that was not read or not sent is lost to a fault, or owed again *)
(* by the request pushed back.                                             *)
LEMMA BlockFailsRefines ==
    ASSUME Inv, NEW k \in DOMAIN reads, BlockNotRead(k) \/ BlockNotSent(k)
    PROVE  Promise!Next
  <1> DEFINE r == [from |-> k.num, size |-> 1]
  <1>1. k.peer \in Peers /\ k.num \in Nat
    BY DEF Inv, TypeOK
  <1>2. reads' = Without(reads, k) /\ UNCHANGED <<calls, task, responses>>
    BY DEF BlockNotRead, BlockNotSent
  <1>3. PICK op : Fails(op)
    BY DEF BlockNotRead, BlockNotSent
  <1>4. \/ \A q \in Peers : Queued(q)' = Queued(q)
        \/ /\ \A q \in Peers \ {k.peer} : Queued(q)' = Queued(q)
           /\ Queued(k.peer)' = Queued(k.peer) \cup Heights(r)
    <2>1. CASE BlockNotRead(k)
      BY <1>1, <1>2, <2>1, BlockNotReadInv, PushOwes
    <2>2. CASE BlockNotSent(k)
      BY <2>2 DEF BlockNotSent, table, Queued
    <2> QED
      BY <2>1, <2>2
  <1>5. Heights(r) = {k.num}
    BY <1>1 DEF Heights
  <1> HIDE DEF r
  <1>6. /\ k.num \in Reading(k.peer)
        /\ Reading(k.peer)' \subseteq Reading(k.peer)
        /\ \A q \in Peers \ {k.peer} : Reading(q)' = Reading(q)
    BY <1>2, ReadingFacts
  <1>7. \A q \in Peers : Merging(q)' = Merging(q) /\ Fetching(q)' = Fetching(q)
    BY <1>2 DEF task, Merging, Fetching, Heights
  <1>8. Owed(k.peer)' \subseteq Owed(k.peer) /\ \A q \in Peers \ {k.peer} : Owed(q)' = Owed(q)
    BY <1>1, <1>4, <1>5, <1>6, <1>7 DEF Owed
  <1> QED
    BY <1>1, <1>2, <1>3, <1>8, FaultRefines

(* A block is delivered.                                                   *)
LEMMA DeliverRefines ==
    ASSUME Inv, NEW m \in DOMAIN responses, Deliver(m)
    PROVE  Promise!Next
  <1>1. \A q \in Peers : Owed(q)' = Owed(q)
    BY DEF Deliver, table, task, Owed, Queued, Merging, Fetching, Reading
  <1>2. OwedTo' = OwedTo /\ Asked' = Asked /\ UNCHANGED failures
    BY <1>1 DEF Deliver, calls, OwedTo, Asked
  <1>3. responses' = responses (-) SetToBag({m})
    BY DEF Deliver, Without
  <1>4. Promise!Deliver(m)
    BY <1>2, <1>3 DEF Promise!Deliver, OwedTo, Asked, (-), SetToBag, Promise!(-), Promise!SetToBag
  <1> QED
    BY <1>4 DEF Promise!Next

(* At first nobody asked and nobody is owed a block.                       *)
LEMMA InitRefines == Init => Promise!Init
  <1> SUFFICES ASSUME Init PROVE Promise!Init
    OBVIOUS
  <1>1. \A p \in Peers : Owed(p) = {}
    BY EmptyBagFacts DEF Init, Owed, Queued, Merging, Fetching, Reading
  <1> QED
    BY <1>1, ServingAssumption DEF Init, Promise!Init, EmptyBag, SetToBag, Promise!EmptyBag,
       Promise!SetToBag

(* Every step is one of BlocksOwed, or changes nothing that it speaks of.  *)
LEMMA StepRefines == Inv /\ [Next]_vars => [Promise!Next]_(Promise!promise)
  <1> SUFFICES ASSUME Inv, [Next]_vars PROVE [Promise!Next]_(Promise!promise)
    OBVIOUS
  <1>1. CASE SyncSendTask
    BY <1>1, TaskRefines
  <1>2. ASSUME NEW p \in Peers, NEW r \in Requests, OnPeerBlocksRequest(p, r) PROVE Promise!Next
    BY <1>2, RequestRefines, ServingAssumption
  <1>3. CASE \/ \E h \in handlers : InsertEmptyPeer(h)
             \/ \E p \in Peers : UpdatePeerStatus(p)
    BY <1>3, EntryRefines
  <1>4. ASSUME NEW h \in handlers, PushRequest(h) PROVE Promise!Next
    BY <1>4, PushRequestRefines
  <1>5. ASSUME NEW p \in Peers, DeletePeer(p) PROVE Promise!Next
    BY <1>5, DeletePeerRefines
  <1>6. ASSUME NEW k \in DOMAIN reads, BlockRead(k) \/ BlockNotRead(k) \/ BlockNotSent(k)
        PROVE  Promise!Next
    BY <1>6, BlockReadRefines, BlockFailsRefines
  <1>7. ASSUME NEW m \in DOMAIN responses, Deliver(m) PROVE Promise!Next
    BY <1>7, DeliverRefines
  <1>8. CASE UNCHANGED vars
    <2>1. \A q \in Peers : Owed(q)' = Owed(q)
      BY <1>8 DEF vars, table, task, Owed, Queued, Merging, Fetching, Reading
    <2>2. Asked' = Asked /\ UNCHANGED <<responses, failures>>
      BY <1>8 DEF vars, calls, Asked
    <2> QED
      BY <2>1, <2>2, Stutter
  <1> QED
    BY <1>1, <1>2, <1>3, <1>4, <1>5, <1>6, <1>7, <1>8 DEF Next

(* The serving side implements BlocksOwed: whatever requests overlap, come *)
(* twice or while their queue is merged, whatever reads and sends fail and *)
(* entries are deleted, a peer is sent only blocks that it is owed, and    *)
(* what it is owed is not forgotten but through a fault.                   *)
THEOREM Refinement == Spec => KeepsPromise
  <1> QED
    BY InitRefines, StepRefines, Invariance, PTL DEF Spec, KeepsPromise, Promise!Spec

-----------------------------------------------------------------------------
(* For a system that the serving side is part of *)

(* All that was asked for, is owed and was sent is in the set B.           *)
Within(B) ==
    /\ \A h \in handlers : Heights(h.req) \subseteq B
    /\ \A p \in Peers : Owed(p) \subseteq B
    /\ \A m \in DOMAIN responses : m.num \in B

(* A step that BlocksOwed allows goes beyond B only by a request that      *)
(* does: this needs nothing of BlockServing but that it keeps the promise. *)
LEMMA StaysWithin ==
    ASSUME NEW B, Inv, Within(B), [Promise!Next]_(Promise!promise),
           \A h \in handlers' : Heights(h.req) \subseteq B
    PROVE  Within(B)'
  <1> USE DEF Within
  <1>1. CASE Promise!Ask \/ UNCHANGED Promise!promise
    <2>1. OwedTo' = OwedTo /\ responses' = responses
      BY <1>1 DEF Promise!Ask, Promise!promise, OwedTo
    <2> QED
      BY <2>1 DEF OwedTo, Heights
  <1>2. ASSUME NEW a \in Asked, Promise!Refuse(a) \/ Promise!Accept(a) PROVE Within(B)'
    <2>1. Heights(a.req) \subseteq B
      BY <1>2 DEF Asked
    <2>2. responses' = responses
      BY <1>2 DEF Promise!Refuse, Promise!Accept
    <2>3. \A p \in Peers : OwedTo'[p] \subseteq OwedTo[p] \cup Heights(a.req)
      BY <1>2 DEF Promise!Refuse, Promise!Accept, Promise!Heights, Heights, OwedTo
    <2> QED
      BY <2>1, <2>2, <2>3 DEF OwedTo, Heights
  <1>3. ASSUME NEW p \in Peers, Promise!Fault(p) PROVE Within(B)'
    <2>1. responses' = responses /\ \A q \in Peers : OwedTo'[q] \subseteq OwedTo[q]
      BY <1>3 DEF Promise!Fault, OwedTo
    <2> QED
      BY <2>1 DEF OwedTo, Heights
  <1>4. ASSUME NEW p \in Peers, NEW n \in OwedTo[p], Promise!Send(p, n) PROVE Within(B)'
    <2> DEFINE m == [peer |-> p, num |-> n]
    <2>1. responses' = With(responses, m)
      BY <1>4 DEF Promise!Send, With, (+), SetToBag, Promise!(+), Promise!SetToBag
    <2>2. n \in B /\ m.num = n
      BY DEF OwedTo
    <2> HIDE DEF m
    <2>3. DOMAIN responses' = DOMAIN responses \cup {m}
      BY <2>1, WithBag DEF Inv, TypeOK
    <2>4. \A q \in Peers : OwedTo'[q] \subseteq OwedTo[q]
      BY <1>4 DEF Promise!Send, OwedTo
    <2> QED
      BY <2>2, <2>3, <2>4 DEF OwedTo, Heights
  <1>5. ASSUME NEW m \in DOMAIN responses, Promise!Deliver(m) PROVE Within(B)'
    <2>1. responses' = Without(responses, m)
      BY <1>5 DEF Promise!Deliver, Without, (-), SetToBag, Promise!(-), Promise!SetToBag
    <2>2. DOMAIN responses' \subseteq DOMAIN responses
      BY <2>1, WithoutBag DEF Inv, TypeOK
    <2>3. OwedTo' = OwedTo
      BY <1>5 DEF Promise!Deliver, OwedTo
    <2> QED
      BY <2>2, <2>3 DEF OwedTo, Heights
  <1> QED
    BY <1>1, <1>2, <1>3, <1>4, <1>5 DEF Promise!Next, Asked, OwedTo

(* A fault that does not touch the node, such as a request lost on its way *)
(* to it.                                                                  *)
LEMMA FaultElsewhere ==
    ASSUME Inv, NEW op, Fails(op), Peers # {},
           UNCHANGED <<table, calls, task, reads, responses>>
    PROVE  Inv' /\ Promise!Next
  <1>1. Inv'
    BY DEF Fails, table, calls, task, Inv, TypeOK, QueuesFinite, NoEntryNoQueue, TaskVisits,
       MergeInOrder, ReadsHaveEntry, CallsDiffer
  <1>2. \A q \in Peers : Owed(q)' = Owed(q)
    BY DEF table, task, Owed, Queued, Merging, Fetching, Reading
  <1> QED
    BY <1>1, <1>2, FaultRefines

=============================================================================
