------------------------------ MODULE MCRelay ------------------------------
(***************************************************************************)
(* Relay for TLC.                                                          *)
(***************************************************************************)
EXTENDS Relay, TLC

Symmetry == Permutations(Client) \union Permutations(Room)

(* What follows an interrupted reset is not explored.                      *)
InStep == ~overlapped
=============================================================================
