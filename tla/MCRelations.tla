---------------------------- MODULE MCRelations ----------------------------
(***************************************************************************)
(* Relations for TLC: account A has the personas a1, which it lists first, *)
(* and a2; account B has one.                                              *)
(***************************************************************************)
EXTENDS Relations, TLC

CONSTANTS a1, a2, b

MCPersona == {a1, a2, b}
MCAccountOf == (a1 :> "A") @@ (a2 :> "A") @@ (b :> "B")
MCFirst == ("A" :> a1) @@ ("B" :> b)

Saved(S, P) == [None EXCEPT !["buddies"] = S, !["pending"] = P]

(* Friends, and a request to the other persona of the account; or friends  *)
(* under the name that is not the first, and a request to a name of one's  *)
(* own.                                                                    *)
MCEarlier == {Saved(Both(a1, b), {<<b, a2>>}), Saved(Both(a2, b), {<<a1, a2>>})}

Symmetry == Permutations(Thread)

(* What a thread has computed is garbage once its call is over.            *)
View == <<rel, file, online, at, seen, left, overlaps, raced, mixed, moved, past,
          [t \in Thread |->
              CASE at[t] \in {"called", "add", "block", "remove", "unblock"} -> arg[t]
                [] at[t] \in {"copied", "opened", "read"} -> copy[t]
                [] OTHER -> 0]>>
=============================================================================
