--------------------------- MODULE MCBlockServing ---------------------------
(* Instances of BlockServing for TLC: ranges that overlap, that touch, and *)
(* that leave a gap.                                                        *)
EXTENDS BlockServing

MCRequests == {[from |-> 1, size |-> 3], [from |-> 2, size |-> 1],
               [from |-> 4, size |-> 1], [from |-> 6, size |-> 1]}

TwoRequests == {[from |-> 1, size |-> 2], [from |-> 2, size |-> 1]}

=============================================================================
