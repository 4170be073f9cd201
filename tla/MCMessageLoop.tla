--------------------------- MODULE MCMessageLoop ---------------------------
(* Instances of MessageLoop for TLC.                                       *)
EXTENDS MessageLoop

CONSTANTS A, B, C

\* Loopers that were not added to each other.
Unrelated == [l \in Loopers |-> None]

\* A owns B, and B owns C where there is one.
Chain == [l \in Loopers |-> IF l = B THEN A ELSE IF l = C THEN B ELSE None]

=============================================================================
