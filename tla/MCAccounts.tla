---------------------------- MODULE MCAccounts ----------------------------
(* Two aliases shared between requests, so that accounts can be twins.       *)
EXTENDS Accounts, TLC

CONSTANTS a, b, x, y

MCRequest == {[as |-> a, names |-> {a}, pass |-> x],
              [as |-> b, names |-> {a, b}, pass |-> x],
              [as |-> b, names |-> {b}, pass |-> y]}

MCByHand == {<<>>, <<[names |-> {b}, pass |-> x, via |-> "hand"]>>}

Symmetry == Permutations(Thread)
=============================================================================
