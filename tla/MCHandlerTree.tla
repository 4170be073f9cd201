--------------------------- MODULE MCHandlerTree ---------------------------
(* Instances of HandlerTree for TLC.                                       *)
EXTENDS HandlerTree, TLC

Symmetry == Permutations(Threads)
=============================================================================
