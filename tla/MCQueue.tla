------------------------------- MODULE MCQueue -------------------------------
(* Queue for TLC.  The items are values that the queue never looks at, so    *)
(* they are interchangeable.                                                 *)
EXTENDS Queue, TLC

ItemSymmetry == Permutations(Item)
=============================================================================
