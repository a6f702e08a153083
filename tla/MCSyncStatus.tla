---------------------------- MODULE MCSyncStatus ----------------------------
(* Instances of SyncStatus for TLC, with one peer.                          *)
EXTENDS SyncStatus

CONSTANT Peer

(* The peer is a sealer at first, has left the group as of block 1 and is   *)
(* back as an observer as of block 2.  This node is an observer as of       *)
(* block 1: while the lists are replaced it is in neither of them.          *)
SealersChange == [h \in Heights |-> IF h = 0 THEN {Self, Peer} ELSE {}]

ObserversChange ==
    [h \in Heights |-> CASE h = 0 -> {} [] h = 1 -> {Self} [] OTHER -> {Self, Peer}]

(* Every node is a sealer for good.                                         *)
AllSeal == [h \in Heights |-> Nodes]

NoObservers == [h \in Heights |-> {}]

=============================================================================
