---------------------------- MODULE MCRawOrder -----------------------------
(***************************************************************************)
(* RawOrder for TLC.                                                       *)
(***************************************************************************)
EXTENDS RawOrder, TLC

Symmetry == Permutations(Racer)

(* What a step does does not depend on what the step before it sent.       *)
View == <<known, members, started, next, buffer, stash, rawSent, resumed>>
=============================================================================
