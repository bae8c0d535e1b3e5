----------------------------- MODULE MCThrottle -----------------------------
(***************************************************************************)
(* Throttle for TLC.                                                       *)
(***************************************************************************)
EXTENDS Throttle, TLC

Symmetry == Permutations(Ip)
=============================================================================
