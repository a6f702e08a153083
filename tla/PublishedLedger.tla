--------------------------- MODULE PublishedLedger ---------------------------
(***************************************************************************)
(* What the sync module promises about a node's chain: blocks are appended *)
(* to the ledger one at a time, and every height the ledger reaches is     *)
(* published to the rest of the node, in increasing order and never ahead  *)
(* of the ledger.  Several commits may be published at once.               *)
(***************************************************************************)
EXTENDS Naturals

VARIABLES
    committed,  \* the height of the ledger
    published   \* the height the node works with

chain == <<committed, published>>

Init == committed = 0 /\ published = 0

Commit ==
    /\ committed' = committed + 1
    /\ UNCHANGED published

Publish ==
    /\ published < committed
    /\ published' \in (published + 1) .. committed
    /\ UNCHANGED committed

Next == Commit \/ Publish

Safe == Init /\ [][Next]_chain

(* ... and a committed block does not stay unpublished for ever.           *)
Spec == Safe /\ WF_chain(Publish)

=============================================================================
