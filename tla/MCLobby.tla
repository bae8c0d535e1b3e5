------------------------------ MODULE MCLobby ------------------------------
(***************************************************************************)
(* Lobby for TLC.                                                          *)
(***************************************************************************)
EXTENDS Lobby, TLC

Symmetry == Permutations(Uid)

(* A user who is not registered and whose handler has ended is garbage:    *)
(* no thread can reach the User object any more, so states that differ     *)
(* only in its fields are one.                                             *)
Reachable == users \union Up

View == <<conn, connected, users, detached \intersect Reachable,
          [u \in Reachable |-> game[u]], racing \intersect Reachable,
          table, counter>>
=============================================================================
