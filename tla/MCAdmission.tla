---------------------------- MODULE MCAdmission ----------------------------
(***************************************************************************)
(* Admission for TLC.                                                      *)
(***************************************************************************)
EXTENDS Admission, TLC

Symmetry == Permutations(Conn) \union Permutations(Listener)
=============================================================================
