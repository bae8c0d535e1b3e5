------------------------------ MODULE Consent ------------------------------
(***************************************************************************)
(* What the social relations of ea_messenger.py promise the players: two   *)
(* accounts become friends only when one of them accepts what the other    *)
(* has asked for, and whatever the server does to its files and however it *)
(* is stopped, it never comes back with a friendship, a request or a block *)
(* that nobody made.  It does not promise to keep them: a reload or a      *)
(* restart may lose relations, or bring old ones back.                     *)
(***************************************************************************)
CONSTANT Account

VARIABLES asked,        \* <<a, b>>: a has asked b to be friends
          friends,      \* <<a, b>>: b is on a's list
          blocked,      \* <<a, b>>: a ignores b
          past          \* all that were ever in the three above

vars == <<asked, friends, blocked, past>>

Pairs == {p \in Account \X Account : p[1] # p[2]}

Both(a, b) == {<<a, b>>, <<b, a>>}

(* An account has several names, and a command reaches the relations of    *)
(* one of them, so those of the others may stay.                           *)
Shrinks(new, old, S) == (old \ S) \subseteq new /\ new \subseteq old

Recall ==
    past' = [asked |-> past.asked \union asked',
             friends |-> past.friends \union friends',
             blocked |-> past.blocked \union blocked']

Init ==
    /\ past \in [asked : SUBSET Pairs, friends : SUBSET Pairs, blocked : SUBSET Pairs]
    /\ asked \subseteq past.asked
    /\ friends \subseteq past.friends
    /\ blocked \subseteq past.blocked

Ask(a, b) ==
    /\ asked' = asked \union {<<a, b>>}
    /\ UNCHANGED <<friends, blocked>>
    /\ Recall

Accept(a, b) ==
    /\ <<b, a>> \in asked
    /\ friends' = friends \union Both(a, b)
    /\ Shrinks(asked', asked, Both(a, b))
    /\ UNCHANGED blocked
    /\ Recall

Part(a, b) ==
    /\ Shrinks(friends', friends, Both(a, b))
    /\ Shrinks(asked', asked, Both(a, b))
    /\ UNCHANGED <<blocked, past>>

Block(a, b) ==
    /\ blocked' = blocked \union {<<a, b>>}
    /\ Shrinks(friends', friends, Both(a, b))
    /\ Shrinks(asked', asked, Both(a, b))
    /\ Recall

Unblock(a, b) ==
    /\ Shrinks(blocked', blocked, {<<a, b>>})
    /\ UNCHANGED <<asked, friends, past>>

Reload ==
    /\ asked' \subseteq past.asked
    /\ friends' \subseteq past.friends
    /\ blocked' \subseteq past.blocked
    /\ UNCHANGED past

Next ==
    \/ \E p \in Pairs : \/ Ask(p[1], p[2])
                        \/ Accept(p[1], p[2])
                        \/ Part(p[1], p[2])
                        \/ Block(p[1], p[2])
                        \/ Unblock(p[1], p[2])
    \/ Reload

Spec == Init /\ [][Next]_vars
=============================================================================
