----------------------------- MODULE BlocksOwed -----------------------------
(***************************************************************************)
(* What the serving side of the sync module promises its peers.  A request *)
(* that it accepts makes it owe the peer the blocks asked for, no others;  *)
(* a block sent is one that is owed; and a block owed is not forgotten     *)
(* before it was sent, except through a fault.                             *)
(***************************************************************************)
EXTENDS Naturals, Bags

CONSTANT Peers

VARIABLES
    asked,   \* the requests received and not yet decided, each with its peer
    owed,    \* the heights each peer waits for
    sent,    \* bag of the blocks on their way to the peers
    faults   \* the faults still to come

promise == <<asked, owed, sent, faults>>

Heights(r) == r.from .. (r.from + r.size - 1)

Init ==
    /\ asked = {}
    /\ owed = [p \in Peers |-> {}]
    /\ sent = EmptyBag
    /\ faults \in Nat

Ask ==
    /\ asked \subseteq asked'
    /\ UNCHANGED <<owed, sent, faults>>

Refuse(a) ==
    /\ asked' = asked \ {a}
    /\ UNCHANGED <<owed, sent, faults>>

Accept(a) ==
    /\ asked' = asked \ {a}
    /\ owed' = [owed EXCEPT ![a.peer] = @ \cup Heights(a.req)]
    /\ UNCHANGED <<sent, faults>>

(* A block may be owed still, for another request.                         *)
Send(p, n) ==
    /\ sent' = sent (+) SetToBag({[peer |-> p, num |-> n]})
    /\ owed' \in {owed, [owed EXCEPT ![p] = @ \ {n}]}
    /\ UNCHANGED <<asked, faults>>

Deliver(m) ==
    /\ sent' = sent (-) SetToBag({m})
    /\ UNCHANGED <<asked, owed, faults>>

(* The connection to p breaks, or a block cannot be read or sent.          *)
Fault(p) ==
    /\ faults > 0
    /\ faults' = faults - 1
    /\ owed'[p] \subseteq owed[p]
    /\ owed' = [owed EXCEPT ![p] = owed'[p]]
    /\ UNCHANGED <<asked, sent>>

Next ==
    \/ Ask
    \/ \E a \in asked : Refuse(a) \/ Accept(a)
    \/ \E p \in Peers : Fault(p) \/ \E n \in owed[p] : Send(p, n)
    \/ \E m \in DOMAIN sent : Deliver(m)

Spec == Init /\ [][Next]_promise

=============================================================================
