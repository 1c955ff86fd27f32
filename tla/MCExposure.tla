----------------------------- MODULE MCExposure -----------------------------
(* Instances of Exposure for TLC.                                          *)
EXTENDS Exposure, TLC

CONSTANTS h1, h2, w, m, p, e

AllTypes == (h1 :> "http") @@ (h2 :> "http") @@ (w :> "ws") @@ (m :> "mqtt")

(* The HTTP servers have the same type.                                    *)
Symmetric == Permutations(Conns) \cup Permutations({h1, h2})
=============================================================================
