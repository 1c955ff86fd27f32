----------------------------- MODULE MCConsumed -----------------------------
(* Instances of ConsumedThing for TLC.                                     *)
EXTENDS ConsumedThing, TLC

CONSTANTS p, e

Symmetric == Permutations(Calls)
=============================================================================
