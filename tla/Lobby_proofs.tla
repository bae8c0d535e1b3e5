---------------------------- MODULE Lobby_proofs ----------------------------
(***************************************************************************)
(* Theorems about Lobby, for every set of connections, every capacity and  *)
(* both values of every option: what the operations of Games preserve, the *)
(* inductive invariant, what a step may do to the seats, and when those    *)
(* who are marked as racing are in a race. The invariant has three parts   *)
(* that are preserved one after the other: the registry, the games and the *)
(* pointers of the users to their games.                                   *)
(***************************************************************************)
EXTENDS Lobby, FiniteSetTheorems, TLAPS

(***************************************************************************)
(* What the operations of room_manager.py preserve: a well-formed game     *)
(* stays well-formed, and a departure never adds a game to the table.  The *)
(* occurrences of a user among the participants are numbered from 0 on, so *)
(* the seat swap merges nothing.                                           *)
(***************************************************************************)
Numbered(g) == \A e \in g.parts : e[2] < Times(g, e[1])

GameOK(g) ==
    /\ g \in Game
    /\ IsFiniteSet(g.parts)
    /\ Numbered(g)
    /\ g.host \in Members(g)
    /\ g.ready \subseteq Members(g)
    /\ Count(g) <= g.limit

TableOK(t) ==
    /\ t \in [GameId -> Game \union {NoGame}]
    /\ \A i \in Live(t) : GameOK(t[i])

(* The number of participants is a number. *)
LEMMA CountNat ==
    ASSUME NEW g, IsFiniteSet(g.parts)
    PROVE  Count(g) \in Nat
BY FS_CardinalityType DEF Count

(* How often a user occurs among the participants is a number, 0 for those *)
(* who are not members. *)
LEMMA TimesNat ==
    ASSUME NEW g, IsFiniteSet(g.parts), NEW u
    PROVE  /\ IsFiniteSet(Entries(g, u))
           /\ Times(g, u) \in Nat
<1>1. Entries(g, u) \in SUBSET g.parts
  BY DEF Entries
<1>2. IsFiniteSet(Entries(g, u))
  BY <1>1, FS_Subset
<1> QED
  BY <1>2, FS_CardinalityType DEF Times

(* The operations that only take entries away: what is left is well-formed *)
(* as long as the host and the ready players keep a place. *)
LEMMA FewerParts ==
    ASSUME NEW g, GameOK(g),
           NEW P \in SUBSET g.parts, NEW R \in SUBSET Uid,
           \E e \in P : e[1] = g.host,
           \A u \in R : \E e \in P : e[1] = u,
           \A e \in P : e[2] < Cardinality({d \in P : d[1] = e[1]})
    PROVE  GameOK([g EXCEPT !.parts = P, !.ready = R])
<1> DEFINE h == [g EXCEPT !.parts = P, !.ready = R]
<1>1. g \in Game /\ g.limit \in Nat
  BY GamesAssumption DEF GameOK, Game
<1>2. /\ h \in Game
      /\ h.parts = P /\ h.ready = R /\ h.host = g.host /\ h.limit = g.limit
  BY <1>1 DEF Game
<1>3. IsFiniteSet(P) /\ Cardinality(P) <= Cardinality(g.parts)
  BY FS_Subset DEF GameOK
<1>4. Cardinality(P) \in Nat /\ Cardinality(g.parts) \in Nat
  BY <1>3, FS_CardinalityType DEF GameOK
<1>5. Count(h) <= h.limit
  BY <1>1, <1>2, <1>3, <1>4 DEF Count, GameOK
<1> HIDE DEF h
<1>6. h.host \in Members(h) /\ h.ready \subseteq Members(h)
  BY <1>2 DEF Members
<1>7. Numbered(h)
  BY <1>2 DEF Numbered, Times, Entries
<1>8. GameOK(h)
  BY <1>2, <1>3, <1>5, <1>6, <1>7 DEF GameOK
<1> QED
  BY <1>8 DEF h

(* Taking the last occurrence of a user away leaves the numbers dense. *)
LEMMA FewerNumbered ==
    ASSUME NEW g, g \in Game, IsFiniteSet(g.parts), Numbered(g), NEW u
    PROVE  LET P == g.parts \ {<<u, Times(g, u) - 1>>}
           IN  \A e \in P : e[2] < Cardinality({d \in P : d[1] = e[1]})
<1> DEFINE x == <<u, Times(g, u) - 1>>
           P == g.parts \ {x}
           At(v) == {d \in P : d[1] = v}
<1> SUFFICES ASSUME NEW e \in P PROVE e[2] < Cardinality(At(e[1]))
  OBVIOUS
<1>1. /\ e \in g.parts /\ e # x /\ e[2] \in Nat /\ e = <<e[1], e[2]>>
      /\ e[2] < Times(g, e[1])
  BY DEF Game, Entry, Numbered
<1>2. /\ IsFiniteSet(Entries(g, e[1]))
      /\ Times(g, e[1]) \in Nat
      /\ Times(g, e[1]) = Cardinality(Entries(g, e[1]))
  BY TimesNat DEF Times
<1>3. CASE x \in Entries(g, e[1])
  <2>1. e[1] = u /\ e[2] # Times(g, u) - 1
    BY <1>1, <1>3 DEF Entries
  <2>2. At(e[1]) = Entries(g, e[1]) \ {x}
    BY DEF Entries
  <2> HIDE DEF At, x
  <2>3. Cardinality(At(e[1])) = Times(g, u) - 1
    BY <1>2, <1>3, <2>1, <2>2, FS_RemoveElement
  <2> QED
    BY <1>1, <1>2, <2>1, <2>3
<1>4. CASE x \notin Entries(g, e[1])
  <2>1. At(e[1]) = Entries(g, e[1])
    BY <1>4 DEF Entries
  <2> QED
    BY <1>1, <1>2, <2>1
<1> QED
  BY <1>3, <1>4

(* Game.remove_player, of a guest. *)
LEMMA RemovePlayerOK ==
    ASSUME NEW g, GameOK(g), NEW u \in Uid, u # g.host
    PROVE  GameOK(RemovePlayer(g, u))
<1> DEFINE P == g.parts \ {<<u, Times(g, u) - 1>>}
<1>1. g \in Game /\ g.ready \ {u} \in SUBSET Uid
  BY DEF GameOK, Game
<1>2. \A v \in Members(g) : v # u => \E e \in P : e[1] = v
  BY DEF Members
<1>3. GameOK([g EXCEPT !.parts = P, !.ready = g.ready \ {u}])
  <2>1. \E e \in P : e[1] = g.host
    BY <1>2 DEF GameOK
  <2>2. \A v \in g.ready \ {u} : \E e \in P : e[1] = v
    BY <1>2 DEF GameOK
  <2>3. \A e \in P : e[2] < Cardinality({d \in P : d[1] = e[1]})
    BY FewerNumbered DEF GameOK
  <2> QED
    BY <1>1, <2>1, <2>2, <2>3, FewerParts
<1>4. RemovePlayer(g, u) = [g EXCEPT !.parts = P, !.ready = g.ready \ {u}]
  BY <1>1 DEF RemovePlayer, Game
<1> QED
  BY <1>3, <1>4

(* Pruning, of a game whose host is live. *)
LEMMA KeepOK ==
    ASSUME NEW g, GameOK(g), NEW K, g.host \in K
    PROVE  GameOK(Keep(g, K))
<1> DEFINE P == {e \in g.parts : e[1] \in K}
<1>1. g \in Game /\ g.ready \intersect K \in SUBSET Uid
  BY DEF GameOK, Game
<1>2. \A v \in Members(g) : v \in K => \E e \in P : e[1] = v
  BY DEF Members
<1>3. GameOK([g EXCEPT !.parts = P, !.ready = g.ready \intersect K])
  <2>1. \E e \in P : e[1] = g.host
    BY <1>2 DEF GameOK
  <2>2. \A v \in g.ready \intersect K : \E e \in P : e[1] = v
    BY <1>2 DEF GameOK
  <2>3. ASSUME NEW e \in P PROVE e[2] < Cardinality({d \in P : d[1] = e[1]})
    <3>1. {d \in P : d[1] = e[1]} = Entries(g, e[1])
      BY DEF Entries
    <3> QED
      BY <3>1 DEF GameOK, Numbered, Times
  <2> QED
    BY <1>1, <2>1, <2>2, <2>3, FewerParts
<1>4. Keep(g, K) = [g EXCEPT !.parts = P, !.ready = g.ready \intersect K]
  BY <1>1 DEF Keep, Game
<1> QED
  BY <1>3, <1>4

(* Game.add_player: the limit holds because can_join tests it. *)
LEMMA AddPlayerOK ==
    ASSUME NEW g, GameOK(g), NEW u \in Uid
    PROVE  GameOK(AddPlayer(g, u))
<1>1. CASE ~Joins(g, u)
  BY <1>1 DEF AddPlayer
<1>2. CASE Joins(g, u)
  <2> DEFINE e == <<u, 0>>
             h == [g EXCEPT !.parts = g.parts \union {e}]
  <2>1. g \in Game /\ g.limit \in Nat /\ e \in Entry
    BY GamesAssumption DEF GameOK, Game, Entry
  <2>2. /\ h \in Game /\ h.parts = g.parts \union {e}
        /\ h.ready = g.ready /\ h.host = g.host /\ h.limit = g.limit
    BY <2>1 DEF Game
  <2>3. Count(g) < g.limit
    BY <1>2 DEF Joins, CanJoin, GameOK
  <2>4. /\ IsFiniteSet(g.parts \union {e})
        /\ Cardinality(g.parts) \in Nat
        /\ Cardinality(g.parts \union {e}) <= Cardinality(g.parts) + 1
    <3> DEFINE S == g.parts
    <3>1. IsFiniteSet(S)
      BY DEF GameOK
    <3> HIDE DEF S, e
    <3>2. Cardinality(S) \in Nat
      BY <3>1, FS_CardinalityType
    <3>3. /\ IsFiniteSet(S \union {e})
          /\ Cardinality(S \union {e}) =
               IF e \in S THEN Cardinality(S) ELSE Cardinality(S) + 1
      BY <3>1, FS_AddElement
    <3>4. Cardinality(S \union {e}) <= Cardinality(S) + 1
      BY <3>2, <3>3
    <3> QED
      BY <3>2, <3>3, <3>4 DEF S
  <2>5. Cardinality(g.parts \union {e}) \in Nat /\ Cardinality(g.parts) \in Nat
    BY <2>4, FS_CardinalityType DEF GameOK
  <2>6. AddPlayer(g, u) = h
    BY <1>2, <2>1 DEF AddPlayer, Game
  <2> HIDE DEF h
  <2>7. Count(h) <= h.limit
    BY <2>1, <2>2, <2>3, <2>4, <2>5 DEF Count
  <2>8. h.host \in Members(h) /\ h.ready \subseteq Members(h)
    BY <2>2 DEF Members, GameOK
  <2>9. Numbered(h)
    <3>1. /\ Entries(h, u) = {e}
          /\ \A v : v # u => Entries(h, v) = Entries(g, v)
      BY <1>2, <2>2 DEF Entries, Joins, Members
    <3>2. Times(h, u) = 1 /\ \A v : v # u => Times(h, v) = Times(g, v)
      BY <3>1, FS_Singleton DEF Times
    <3>3. e[1] = u /\ e[2] = 0
      OBVIOUS
    <3> HIDE DEF e
    <3>4. SUFFICES ASSUME NEW d \in h.parts PROVE d[2] < Times(h, d[1])
      BY DEF Numbered
    <3>5. CASE d = e
      BY <3>2, <3>3, <3>5
    <3>6. CASE d # e
      BY <1>2, <2>2, <3>2, <3>6 DEF GameOK, Numbered, Joins, Members
    <3> QED
      BY <3>5, <3>6
  <2> QED
    BY <2>2, <2>4, <2>6, <2>7, <2>8, <2>9 DEF GameOK
<1> QED
  BY <1>1, <1>2

(* GameManager.create followed by the host's add_player. *)
LEMMA NewGameOK ==
    ASSUME NEW h \in Uid, NEW l \in Limits
    PROVE  GameOK(AddPlayer(NewGame(h, l), h))
<1> DEFINE e == <<h, 0>>
           g == [host |-> h, limit |-> l, parts |-> {e}, ready |-> {},
                 state |-> "OPEN"]
<1>1. AddPlayer(NewGame(h, l), h) = g
  BY DEF AddPlayer, NewGame, Joins, CanJoin, Members
<1>2. g \in Game
  BY DEF Game, Entry
<1>3. IsFiniteSet(g.parts) /\ Count(g) = 1
  BY FS_Singleton DEF Count
<1>4. Count(g) <= g.limit
  <2>1. l \in Nat /\ l >= 1
    BY GamesAssumption
  <2> QED
    BY <1>3, <2>1
<1>5. g.host \in Members(g) /\ g.ready \subseteq Members(g)
  BY DEF Members
<1>6. Numbered(g)
  <2>1. Entries(g, h) = {e}
    BY DEF Entries
  <2>2. Times(g, h) = 1
    BY <2>1, FS_Singleton DEF Times
  <2> QED
    BY <2>2 DEF Numbered
<1> QED
  BY <1>1, <1>2, <1>3, <1>4, <1>5, <1>6 DEF GameOK

(* Game.set_ready and Game.start, and the readiness gjoi may force. *)
LEMMA ReadyOK ==
    ASSUME NEW g, GameOK(g), NEW R \in SUBSET Members(g)
    PROVE  GameOK([g EXCEPT !.ready = @ \union R])
<1> DEFINE h == [g EXCEPT !.ready = @ \union R]
<1>1. g \in Game /\ Members(g) \subseteq Uid
  BY DEF GameOK, Game, Members, Entry
<1>2. /\ h \in Game /\ h.parts = g.parts /\ h.ready = g.ready \union R
      /\ h.host = g.host /\ h.limit = g.limit
  BY <1>1 DEF Game
<1> HIDE DEF h
<1>3. Count(h) = Count(g) /\ Members(h) = Members(g)
  BY <1>2 DEF Count, Members
<1>4. Numbered(h)
  BY <1>2 DEF Numbered, Times, Entries, GameOK
<1>5. GameOK(h)
  BY <1>2, <1>3, <1>4 DEF GameOK
<1> QED
  BY <1>5 DEF h

LEMMA StartOK ==
    ASSUME NEW g, GameOK(g)
    PROVE  GameOK(Start(g))
<1> DEFINE h == Start(g)
<1>1. g \in Game
  BY DEF GameOK
<1>2. /\ h \in Game /\ h.parts = g.parts /\ h.ready = g.ready
      /\ h.host = g.host /\ h.limit = g.limit
  BY <1>1 DEF Game, Start
<1> HIDE DEF h
<1>3. Count(h) = Count(g) /\ Members(h) = Members(g)
  BY <1>2 DEF Count, Members
<1>4. Numbered(h)
  BY <1>2 DEF Numbered, Times, Entries, GameOK
<1>5. GameOK(h)
  BY <1>2, <1>3, <1>4 DEF GameOK
<1> QED
  BY <1>5 DEF h

(* Exchanging a part of a finite set for something no larger. *)
LEMMA Exchange ==
    ASSUME NEW S, IsFiniteSet(S), NEW E \in SUBSET S,
           NEW B, IsFiniteSet(B), Cardinality(B) <= Cardinality(E)
    PROVE  /\ IsFiniteSet((S \ E) \union B)
           /\ Cardinality((S \ E) \union B) <= Cardinality(S)
<1> DEFINE A == S \ E
<1>1. IsFiniteSet(A) /\ IsFiniteSet(E)
  BY FS_Subset
<1>2. A \union E = S /\ A \intersect E = {}
  OBVIOUS
<1> HIDE DEF A
<1>3. Cardinality(S) = Cardinality(A) + Cardinality(E)
  <2>1. Cardinality(A \union E) =
           Cardinality(A) + Cardinality(E) - Cardinality(A \intersect E)
    BY <1>1, FS_Union
  <2>2. Cardinality(A \intersect E) = 0
    BY <1>2, FS_EmptySet
  <2>3. Cardinality(A \union E) = Cardinality(S)
    BY <1>2
  <2>4. Cardinality(A) \in Nat /\ Cardinality(E) \in Nat
    BY <1>1, FS_CardinalityType
  <2> QED
    BY <2>1, <2>2, <2>3, <2>4
<1>4. /\ IsFiniteSet(A \union B) /\ IsFiniteSet(A \intersect B)
      /\ Cardinality(A \union B) =
           Cardinality(A) + Cardinality(B) - Cardinality(A \intersect B)
  BY <1>1, FS_Union, FS_Intersection
<1>5. /\ Cardinality(A) \in Nat /\ Cardinality(B) \in Nat
      /\ Cardinality(E) \in Nat /\ Cardinality(A \intersect B) \in Nat
  BY <1>1, <1>4, FS_CardinalityType
<1>6. Cardinality(A \union B) <= Cardinality(S)
  BY <1>3, <1>4, <1>5
<1> QED
  BY <1>4, <1>6 DEF A

(* The seat swap hands every occurrence of one user to the other, and      *)
(* nobody else's. *)
LEMMA ReseatHands ==
    ASSUME NEW g, g \in Game, IsFiniteSet(g.parts), Numbered(g),
           NEW old \in Uid, NEW new \in Uid, old # new
    PROVE  LET h == Reseat(g, old, new)
           IN  /\ Entries(h, old) = {}
               /\ Times(h, new) = Times(g, new) + Times(g, old)
               /\ \A v \in Uid \ {old, new} : Entries(h, v) = Entries(g, v)
               /\ Numbered(h)
<1> DEFINE h == Reseat(g, old, new)
           E == Entries(g, old)
           N == Entries(g, new)
           n == Times(g, new)
           B == {<<new, n + e[2]>> : e \in E}
           f == [e \in E |-> <<new, n + e[2]>>]
<1>1. /\ IsFiniteSet(E) /\ IsFiniteSet(N) /\ n \in Nat
      /\ Times(g, old) \in Nat
      /\ n = Cardinality(N) /\ Times(g, old) = Cardinality(E)
  BY TimesNat DEF Times
<1>2. h.parts = (g.parts \ E) \union B
  BY DEF Reseat, Game
<1>3. \A e \in g.parts : e \in Uid \X Nat /\ e[2] < Times(g, e[1])
  BY DEF Game, Entry, Numbered
<1>4. /\ Entries(h, old) = {}
      /\ Entries(h, new) = N \union B
      /\ \A v \in Uid \ {old, new} : Entries(h, v) = Entries(g, v)
  BY <1>2 DEF Entries
<1>5. IsFiniteSet(B) /\ Cardinality(B) = Cardinality(E)
  <2>1. \A d, e \in E : f[d] = f[e] => d = e
    BY <1>1, <1>3 DEF Entries
  <2>2. f \in Bijection(E, B)
    <3>1. f \in [E -> B] /\ \A b \in B : \E e \in E : f[e] = b
      OBVIOUS
    <3> HIDE DEF f, B, E
    <3>2. f \in Injection(E, B) /\ f \in Surjection(E, B)
      BY <2>1, <3>1 DEF Injection, Surjection, IsInjective
    <3> QED
      BY <3>2 DEF Bijection
  <2> HIDE DEF f, B, E
  <2>3. ExistsBijection(E, B)
    BY <2>2 DEF ExistsBijection
  <2> QED
    BY <1>1, <2>3, FS_Bijection
<1>6. N \intersect B = {}
  <2>1. \A d \in N : d[2] < n
    BY <1>3 DEF Entries
  <2>2. \A e \in E : e[2] \in Nat
    BY <1>3 DEF Entries
  <2>3. ASSUME NEW d \in N, NEW e \in E, d = <<new, n + e[2]>> PROVE FALSE
    <3>1. d[2] = n + e[2]
      BY <2>3
    <3> QED
      BY <1>1, <2>1, <2>2, <3>1
  <2> QED
    BY <2>3
<1>7. Times(h, new) = n + Times(g, old)
  <2> HIDE DEF B, E, N, n, h
  <2>1. Cardinality(N \union B) = Cardinality(N) + Cardinality(B)
    <3>1. Cardinality(N \union B) =
             Cardinality(N) + Cardinality(B) - Cardinality(N \intersect B)
      BY <1>1, <1>5, FS_Union
    <3>2. Cardinality(N \intersect B) = 0
      BY <1>6, FS_EmptySet
    <3>3. Cardinality(N) \in Nat /\ Cardinality(B) \in Nat
      BY <1>1, <1>5, FS_CardinalityType
    <3> QED
      BY <3>1, <3>2, <3>3
  <2> QED
    BY <1>1, <1>4, <1>5, <2>1 DEF Times
<1>8. Numbered(h)
  <2> SUFFICES ASSUME NEW d \in h.parts PROVE d[2] < Times(h, d[1])
    BY DEF Numbered
  <2>1. CASE d \in B
    <3>1. PICK e \in E : d = <<new, n + e[2]>>
      BY <2>1
    <3>2. e \in g.parts /\ e[1] = old
      BY DEF Entries
    <3>3. d[1] = new /\ d[2] = n + e[2] /\ e[2] \in Nat
          /\ e[2] < Times(g, old)
      BY <1>3, <3>1, <3>2
    <3> HIDE DEF h, n
    <3> QED
      BY <1>1, <1>7, <3>3
  <2>2. CASE d \in g.parts \ E
    <3>1. d[1] \in Uid /\ d[2] \in Nat /\ d[2] < Times(g, d[1]) /\ d[1] # old
      BY <1>3, <2>2 DEF Entries
    <3>2. CASE d[1] = new
      <4> HIDE DEF h
      <4> QED
        BY <1>1, <1>7, <3>1, <3>2
    <3>3. CASE d[1] # new
      <4>1. Times(h, d[1]) = Times(g, d[1])
        BY <1>4, <3>1, <3>3 DEF Times
      <4> QED
        BY <3>1, <4>1
    <3> QED
      BY <3>2, <3>3
  <2> QED
    BY <1>2, <2>1, <2>2
<1> QED
  BY <1>4, <1>7, <1>8

(* The seat swap keeps the game well-formed also when the returning user   *)
(* had a seat already: the swap adds at most as many entries as it takes.  *)
LEMMA ReseatOK ==
    ASSUME NEW g, GameOK(g), NEW old \in Uid, NEW new \in Uid, old # new
    PROVE  GameOK(Reseat(g, old, new))
<1> DEFINE E == Entries(g, old)
           n == Times(g, new)
           A == g.parts \ E
           B == {<<new, n + e[2]>> : e \in E}
           R == IF old \in g.ready THEN (g.ready \ {old}) \union {new}
                                   ELSE g.ready
           H == IF g.host = old THEN new ELSE g.host
           h == [g EXCEPT !.parts = A \union B, !.host = H, !.ready = R]
<1>1. /\ g \in Game /\ g.limit \in Nat /\ g.parts \subseteq Entry
      /\ g.ready \subseteq Uid /\ g.host \in Uid
  BY GamesAssumption DEF GameOK, Game
<1>2. IsFiniteSet(g.parts) /\ E \subseteq g.parts /\ IsFiniteSet(E) /\ n \in Nat
  BY TimesNat DEF GameOK, Entries
<1>3. B \subseteq Entry /\ A \union B \subseteq Entry
  BY <1>1, <1>2 DEF Entry
<1>4. /\ h \in Game /\ h.parts = A \union B /\ h.ready = R /\ h.host = H
      /\ h.limit = g.limit
  BY <1>1, <1>3 DEF Game
<1>5. Reseat(g, old, new) = h
  BY <1>1 DEF Reseat, Game
<1>6. IsFiniteSet(A \union B) /\ Cardinality(A \union B) <= Cardinality(g.parts)
  <2> DEFINE f == [e \in E |-> <<new, n + e[2]>>]
  <2>1. f \in Surjection(E, B)
    BY DEF Surjection
  <2> HIDE DEF f, B, E
  <2>2. IsFiniteSet(B) /\ Cardinality(B) <= Cardinality(E)
    BY <1>2, <2>1, FS_Surjection
  <2>3. IsFiniteSet((g.parts \ E) \union B)
        /\ Cardinality((g.parts \ E) \union B) <= Cardinality(g.parts)
    BY <1>2, <2>2, Exchange
  <2> QED
    BY <2>3
<1>7. Count(h) <= h.limit
  <2>1. Cardinality(A \union B) \in Nat /\ Cardinality(g.parts) \in Nat
    BY <1>2, <1>6, FS_CardinalityType
  <2>2. Cardinality(g.parts) <= g.limit
    BY DEF GameOK, Count
  <2> QED
    BY <1>1, <1>4, <1>6, <2>1, <2>2 DEF Count
<1>8. \A v \in Members(g) : (v # old => \E e \in A \union B : e[1] = v)
  BY DEF Members, Entries
<1>9. old \in Members(g) => \E e \in A \union B : e[1] = new
  <2> SUFFICES ASSUME old \in Members(g) PROVE \E b \in B : b[1] = new
    OBVIOUS
  <2>1. PICK e \in E : TRUE
    BY DEF Members, Entries
  <2>2. <<new, n + e[2]>> \in B
    BY <2>1
  <2> QED
    BY <2>2
<1>10. Numbered(h)
  BY <1>1, <1>2, <1>5, ReseatHands DEF GameOK
<1> HIDE DEF h, A, B, E
<1>11. h.host \in Members(h) /\ h.ready \subseteq Members(h)
  <2>1. g.host \in Members(g) /\ g.ready \subseteq Members(g)
    BY DEF GameOK
  <2>2. H \in Members(h)
    BY <1>4, <1>8, <1>9, <2>1 DEF Members
  <2>3. \A v \in R : v \in Members(h)
    BY <1>4, <1>8, <1>9, <2>1 DEF Members
  <2> QED
    BY <1>4, <2>2, <2>3
<1> QED
  BY <1>4, <1>5, <1>6, <1>7, <1>10, <1>11 DEF GameOK

(***************************************************************************)
(* The table.                                                              *)
(***************************************************************************)
(* Writing a well-formed game, or None, into the table. *)
LEMMA PutOK ==
    ASSUME NEW t, TableOK(t), NEW i \in GameId, NEW g, g = NoGame \/ GameOK(g)
    PROVE  TableOK([t EXCEPT ![i] = g])
BY NoGameAssumption DEF TableOK, Live, GameOK

(* A live id holds a well-formed game. *)
LEMMA LiveOK ==
    ASSUME NEW t, TableOK(t), NEW i \in GameId, t[i] # NoGame
    PROVE  GameOK(t[i])
BY DEF TableOK, Live

(* GameManager.leave keeps the table well-formed and does not grow it. *)
LEMMA AfterLeaveOK ==
    ASSUME NEW t, TableOK(t), NEW i \in GameId, t[i] # NoGame, NEW u \in Uid
    PROVE  /\ TableOK(AfterLeave(t, i, u))
           /\ Live(AfterLeave(t, i, u)) \subseteq Live(t)
<1> DEFINE g == IF Removes(t[i], u) THEN NoGame ELSE RemovePlayer(t[i], u)
<1>1. GameOK(t[i])
  BY LiveOK
<1>2. g = NoGame \/ GameOK(g)
  BY <1>1, RemovePlayerOK DEF Removes
<1>3. AfterLeave(t, i, u) = [t EXCEPT ![i] = g]
  BY DEF AfterLeave, TableOK
<1> HIDE DEF g
<1>4. TableOK([t EXCEPT ![i] = g])
  BY <1>2, PutOK
<1>5. Live([t EXCEPT ![i] = g]) \subseteq Live(t)
  BY DEF Live, TableOK
<1> QED
  BY <1>3, <1>4, <1>5

(* There are finitely many games, and removing some never raises the count. *)
LEMMA LiveCount ==
    ASSUME NEW s, NEW t, Live(s) \subseteq Live(t)
    PROVE  /\ Cardinality(Live(t)) \in Nat
           /\ Cardinality(Live(s)) \in Nat
           /\ Cardinality(Live(s)) <= Cardinality(Live(t))
<1>1. IsFiniteSet(GameId)
  BY GamesAssumption, FS_Interval DEF GameId
<1>2. IsFiniteSet(Live(t)) /\ IsFiniteSet(Live(s))
  BY <1>1, FS_Subset DEF Live
<1> QED
  BY <1>2, FS_Subset, FS_CardinalityType

(* GameManager.create on a table that is not full. *)
LEMMA CreateOK ==
    ASSUME NEW t, TableOK(t), NEW i \in GameId, NEW g, GameOK(g), ~Full(t)
    PROVE  /\ TableOK([t EXCEPT ![i] = g])
           /\ Cardinality(Live([t EXCEPT ![i] = g])) <= MaxGames
<1> DEFINE s == [t EXCEPT ![i] = g]
<1>1. TableOK(s)
  BY PutOK
<1>2. Live(s) \subseteq Live(t) \union {i}
  BY DEF Live, TableOK
<1> HIDE DEF s
<1>3. IsFiniteSet(Live(t))
  <2>1. IsFiniteSet(GameId)
    BY GamesAssumption, FS_Interval DEF GameId
  <2> QED
    BY <2>1, FS_Subset DEF Live
<1>4. /\ IsFiniteSet(Live(t) \union {i})
      /\ Cardinality(Live(t) \union {i}) <= Cardinality(Live(t)) + 1
      /\ Cardinality(Live(t)) \in Nat
  BY <1>3, FS_AddElement, FS_CardinalityType
<1>5. Cardinality(Live(s)) <= Cardinality(Live(t) \union {i})
  BY <1>2, <1>4, FS_Subset
<1>6. Cardinality(Live(s)) \in Nat /\ Cardinality(Live(t) \union {i}) \in Nat
  BY <1>4, LiveCount, FS_CardinalityType
<1>7. Cardinality(Live(t)) < MaxGames
  BY <1>4, GamesAssumption DEF Full
<1> QED
  BY <1>1, <1>4, <1>5, <1>6, <1>7, GamesAssumption DEF s

(***************************************************************************)
(* Who keeps a place.                                                      *)
(***************************************************************************)
(* Game.remove_player takes no one else's place. *)
LEMMA RemoveKeeps ==
    ASSUME NEW g, GameOK(g), NEW u, NEW v \in Members(g), v # u
    PROVE  v \in Members(RemovePlayer(g, u))
<1>1. PICK e \in g.parts : e[1] = v
  BY DEF Members
<1>2. RemovePlayer(g, u).parts = g.parts \ {<<u, Times(g, u) - 1>>}
  BY DEF RemovePlayer, GameOK, Game
<1>3. e \in RemovePlayer(g, u).parts
  BY <1>1, <1>2
<1> QED
  BY <1>1, <1>3 DEF Members

(* A departure that removes a well-formed game is the host's: nobody else  *)
(* can be the last participant. *)
LEMMA RemovesIsHost ==
    ASSUME NEW g, GameOK(g), NEW u, Removes(g, u)
    PROVE  u = g.host
<1> SUFFICES ASSUME u # g.host PROVE FALSE
  OBVIOUS
<1>1. g.host \in Members(RemovePlayer(g, u))
  BY RemoveKeeps DEF GameOK
<1> QED
  BY <1>1 DEF Removes, Members

(* Game.add_player takes nobody's place. *)
LEMMA AddKeeps ==
    ASSUME NEW g, GameOK(g), NEW u
    PROVE  Members(g) \subseteq Members(AddPlayer(g, u))
<1>1. g.parts \subseteq AddPlayer(g, u).parts
  BY DEF AddPlayer, GameOK, Game
<1> QED
  BY <1>1 DEF Members

(* Pruning takes the places of those who are not live, and no others. *)
LEMMA KeepKeeps ==
    ASSUME NEW g, GameOK(g), NEW K, NEW v \in Members(g), v \in K
    PROVE  v \in Members(Keep(g, K))
<1>1. PICK e \in g.parts : e[1] = v
  BY DEF Members
<1>2. e \in Keep(g, K).parts
  BY <1>1 DEF Keep, GameOK, Game
<1> QED
  BY <1>1, <1>2 DEF Members

(* The seat swap: the one who leaves has no place left, the one who comes  *)
(* has one, nobody else loses theirs. *)
LEMMA ReseatKeeps ==
    ASSUME NEW g, GameOK(g), NEW old \in Uid, NEW new \in Uid, old # new
    PROVE  /\ Members(g) \ {old} \subseteq Members(Reseat(g, old, new))
           /\ old \notin Members(Reseat(g, old, new))
           /\ old \in Members(g) => new \in Members(Reseat(g, old, new))
<1> DEFINE E == Entries(g, old)
           B == {<<new, Times(g, new) + e[2]>> : e \in E}
           h == Reseat(g, old, new)
<1>1. h.parts = (g.parts \ E) \union B
  BY DEF Reseat, GameOK, Game
<1>2. \A b \in B : b[1] = new
  OBVIOUS
<1>3. \A e \in E : e \in g.parts /\ e[1] = old
  BY DEF Entries
<1>4. \A e \in g.parts : e[1] = old => e \in E
  BY DEF Entries
<1>5. old \in Members(g) => \E b \in B : TRUE
  BY <1>4 DEF Members
<1> HIDE DEF h, E, B
<1>6. Members(g) \ {old} \subseteq Members(h)
  BY <1>1, <1>3 DEF Members
<1>7. old \notin Members(h)
  BY <1>1, <1>2, <1>4 DEF Members
<1>8. old \in Members(g) => new \in Members(h)
  BY <1>1, <1>2, <1>5 DEF Members
<1> QED
  BY <1>6, <1>7, <1>8 DEF h

(* What a departure from game i leaves: everybody else's place, and the    *)
(* other games; and if it removes game i, it is the host's. *)
LEMMA AfterLeaveKeeps ==
    ASSUME NEW t, TableOK(t), NEW i \in GameId, t[i] # NoGame, NEW u
    PROVE  /\ \A j \in GameId \ {i} : AfterLeave(t, i, u)[j] = t[j]
           /\ AfterLeave(t, i, u)[i] = NoGame => u = t[i].host
           /\ AfterLeave(t, i, u)[i] # NoGame =>
                \A v \in Members(t[i]) :
                  v # u => v \in Members(AfterLeave(t, i, u)[i])
<1>1. GameOK(t[i])
  BY LiveOK
<1>2. \A j \in GameId \ {i} : AfterLeave(t, i, u)[j] = t[j]
  BY DEF AfterLeave, TableOK
<1>3. AfterLeave(t, i, u)[i] = IF Removes(t[i], u) THEN NoGame
                                                   ELSE RemovePlayer(t[i], u)
  BY DEF AfterLeave, TableOK
<1>4. RemovePlayer(t[i], u) # NoGame
  <2>1. RemovePlayer(t[i], u) \in Game
    BY <1>1 DEF RemovePlayer, GameOK, Game
  <2> QED
    BY <2>1, NoGameAssumption
<1>5. AfterLeave(t, i, u)[i] = NoGame => u = t[i].host
  BY <1>1, <1>3, <1>4, RemovesIsHost
<1>6. ASSUME AfterLeave(t, i, u)[i] # NoGame, NEW v \in Members(t[i]), v # u
      PROVE  v \in Members(AfterLeave(t, i, u)[i])
  BY <1>1, <1>3, <1>6, RemoveKeeps
<1> QED
  BY <1>2, <1>5, <1>6

-----------------------------------------------------------------------------
RegistryInv ==
    /\ conn \in [Uid -> {"new", "up", "gone"}]
    /\ connected \in SUBSET Uid
    /\ detached \in SUBSET Uid
    /\ users \in SUBSET Uid
    /\ IsFiniteSet(users)
    /\ Cardinality(users) <= MaxUsers
    /\ NoLeakedSlot
    /\ \A u \in detached : conn[u] = "gone"

GamesInv ==
    /\ TableOK(table)
    /\ Cardinality(Live(table)) <= MaxGames
    /\ counter \in 1 .. MaxGameId + 1
    /\ \A i \in GameId : i >= counter => table[i] = NoGame

SeatsInv ==
    /\ game \in [Uid -> GameId \union {0}]
    /\ racing \in SUBSET Uid
    /\ \A u \in Uid : game[u] < counter

IInv == RegistryInv /\ GamesInv /\ SeatsInv

(* What every step does to the games: the only id that may come to life is *)
(* the one the counter stands at.                                          *)
GamesNext == /\ GamesInv'
             /\ Live(table') \subseteq Live(table) \union {counter}

-----------------------------------------------------------------------------
(***************************************************************************)
(* Helpers.                                                                *)
(***************************************************************************)
(* The initial state. *)
LEMMA InitOK == Init => IInv
<1> SUFFICES ASSUME Init PROVE IInv
  OBVIOUS
<1>1. Live(table) = {}
  BY DEF Init, Live
<1>2. GamesInv
  <2>1. Cardinality(Live(table)) = 0
    BY <1>1, FS_EmptySet
  <2>2. Cardinality(Live(table)) <= MaxGames
    BY <2>1, GamesAssumption
  <2>3. TableOK(table) /\ \A i \in GameId : table[i] = NoGame
    BY <1>1 DEF Init, TableOK
  <2>4. counter \in 1 .. MaxGameId + 1
    BY GamesAssumption DEF Init
  <2> QED
    BY <2>2, <2>3, <2>4 DEF GamesInv
<1>3. RegistryInv
  BY FS_EmptySet, LobbyAssumption DEF Init, RegistryInv, NoLeakedSlot
<1>4. SeatsInv
  BY DEF Init, SeatsInv
<1> QED
  BY <1>2, <1>3, <1>4 DEF IInv

(* UserManager.add respects the capacity, and only open connections call it. *)
LEMMA RegisteredOK ==
    ASSUME RegistryInv, NEW c \in Up
    PROVE  /\ Registered(c) \in SUBSET Uid
           /\ IsFiniteSet(Registered(c))
           /\ Cardinality(Registered(c)) <= MaxUsers
           /\ \A u \in Registered(c) : u \in Up \/ u \in detached
<1>1. c \in Uid /\ users \in SUBSET Uid
  BY DEF Up, RegistryInv
<1>2. CASE Registered(c) = users
  BY <1>1, <1>2 DEF RegistryInv, NoLeakedSlot
<1>3. CASE /\ Registered(c) = users \union {c}
           /\ ~UsersFull
  <2>1. IsFiniteSet(users) /\ Cardinality(users) \in Nat
    BY FS_CardinalityType DEF RegistryInv
  <2>2. /\ IsFiniteSet(users \union {c})
        /\ Cardinality(users \union {c}) =
             IF c \in users THEN Cardinality(users) ELSE Cardinality(users) + 1
    BY <2>1, FS_AddElement
  <2>3. Cardinality(users) < MaxUsers
    BY <1>3, <2>1, LobbyAssumption DEF UsersFull
  <2>4. Cardinality(users \union {c}) <= MaxUsers
    BY <2>1, <2>2, <2>3, LobbyAssumption
  <2> QED
    BY <1>1, <1>3, <2>2, <2>4 DEF RegistryInv, NoLeakedSlot
<1> QED
  BY <1>2, <1>3 DEF Registered

(* Removing users respects the capacity. *)
LEMMA FewerUsers ==
    ASSUME NEW us \in SUBSET Uid, IsFiniteSet(us), Cardinality(us) <= MaxUsers,
           NEW vs \in SUBSET us
    PROVE  IsFiniteSet(vs) /\ Cardinality(vs) <= MaxUsers
<1>1. IsFiniteSet(vs) /\ Cardinality(vs) <= Cardinality(us)
  BY FS_Subset
<1>2. Cardinality(vs) \in Nat /\ Cardinality(us) \in Nat
  BY <1>1, FS_CardinalityType
<1> QED
  BY <1>1, <1>2, LobbyAssumption

(* A user in a game points to a well-formed game, made before. *)
LEMMA InGameOK ==
    ASSUME GamesInv, SeatsInv, NEW u \in Uid, InGame(u)
    PROVE  /\ game[u] \in GameId /\ table[game[u]] # NoGame
           /\ GameOK(table[game[u]]) /\ game[u] < counter
<1>1. game[u] \in GameId /\ table[game[u]] # NoGame
  BY DEF InGame, SeatsInv
<1> QED
  BY <1>1, LiveOK DEF GamesInv, SeatsInv

(* Any step that writes a table without new games keeps GamesInv. *)
LEMMA NoNewGame ==
    ASSUME GamesInv, TableOK(table'), Live(table') \subseteq Live(table),
           counter' = counter
    PROVE  GamesNext
<1>1. Cardinality(Live(table')) <= MaxGames
  BY LiveCount, GamesAssumption DEF GamesInv
<1>2. \A i \in GameId : i >= counter' => table'[i] = NoGame
  BY DEF GamesInv, Live
<1> QED
  BY <1>1, <1>2 DEF GamesNext, GamesInv

(* ... in particular one that rewrites a single live game. *)
LEMMA Rewrite ==
    ASSUME NEW t, TableOK(t), NEW i \in GameId, t[i] # NoGame, NEW g,
           g = NoGame \/ GameOK(g)
    PROVE  /\ TableOK([t EXCEPT ![i] = g])
           /\ Live([t EXCEPT ![i] = g]) \subseteq Live(t)
<1>1. TableOK([t EXCEPT ![i] = g])
  BY PutOK
<1>2. Live([t EXCEPT ![i] = g]) \subseteq Live(t)
  BY DEF Live, TableOK
<1> QED
  BY <1>1, <1>2

(* _lobby_prune_stale_games keeps the table well-formed and adds no game. *)
LEMMA PrunedOK ==
    ASSUME TableOK(table), NEW us
    PROVE  /\ TableOK(Pruned(us))
           /\ Live(Pruned(us)) \subseteq Live(table)
<1>1. ASSUME NEW i \in GameId
      PROVE  \/ Pruned(us)[i] = NoGame
             \/ table[i] # NoGame /\ GameOK(Pruned(us)[i])
  <2>1. CASE table[i] = NoGame
    BY <2>1 DEF Pruned
  <2>2. CASE table[i] # NoGame
    <3>1. GameOK(table[i])
      BY <2>2, LiveOK
    <3>2. CASE table[i].host \in LiveUsers(us)
      <4>1. GameOK(Keep(table[i], LiveUsers(us)))
        BY <3>1, <3>2, KeepOK
      <4> QED
        BY <2>2, <3>1, <4>1 DEF Pruned
    <3>3. CASE table[i].host \notin LiveUsers(us)
      BY <2>2, <3>1, <3>3 DEF Pruned
    <3> QED
      BY <3>2, <3>3
  <2> QED
    BY <2>1, <2>2
<1>2. Pruned(us) \in [GameId -> Game \union {NoGame}]
  <2>1. \A i \in GameId : Pruned(us)[i] \in Game \union {NoGame}
    BY <1>1 DEF GameOK
  <2>2. Pruned(us) = [i \in GameId |-> Pruned(us)[i]]
    BY DEF Pruned
  <2> QED
    BY <2>1, <2>2
<1> QED
  BY <1>1, <1>2 DEF TableOK, Live

(* gcre starts from the table that the departure left. *)
LEMMA LeftOK ==
    ASSUME GamesInv, SeatsInv, NEW c \in Uid
    PROVE  LET left == IF InGame(c) THEN AfterLeave(table, game[c], c) ELSE table
           IN  /\ TableOK(left)
               /\ Live(left) \subseteq Live(table)
<1>1. CASE InGame(c)
  BY <1>1, InGameOK, AfterLeaveOK DEF GamesInv
<1>2. CASE ~InGame(c)
  BY <1>2 DEF GamesInv
<1> QED
  BY <1>1, <1>2

(* Sending users back to the lobby keeps SeatsInv. *)
LEMMA ToLobbyOK ==
    ASSUME SeatsInv, GamesInv, NEW S, ToLobby(S), counter' = counter
    PROVE  SeatsInv'
BY DEF SeatsInv, GamesInv, ToLobby

(* So does pointing them to a game that has been created. *)
LEMMA ToGameOK ==
    ASSUME SeatsInv, GamesInv, NEW S \in SUBSET Uid, NEW i \in GameId,
           i < counter, ToRoom(S, i) \/ ToRace(S, i), counter' = counter
    PROVE  SeatsInv'
BY DEF SeatsInv, GamesInv, ToRoom, ToRace

(* Ids of live games have been handed out. *)
LEMMA LiveBelow ==
    ASSUME GamesInv, NEW i \in GameId, table[i] # NoGame
    PROVE  i < counter
BY GamesAssumption DEF GamesInv, GameId

-----------------------------------------------------------------------------
(***************************************************************************)
(* The registry.                                                           *)
(***************************************************************************)
LEMMA RegistryStep == RegistryInv /\ [Next]_vars => RegistryInv'
<1> SUFFICES ASSUME RegistryInv, [Next]_vars PROVE RegistryInv'
  OBVIOUS
<1> USE DEF RegistryInv, NoLeakedSlot
(* A command that registers its user and leaves the connections alone. *)
<1> DEFINE Registers(c) == /\ c \in Up
                           /\ users' = Registered(c)
                           /\ UNCHANGED tcpVars
<1>0. ASSUME NEW c \in Uid, Registers(c) PROVE RegistryInv'
  BY <1>0, RegisteredOK DEF Up, tcpVars
(* A step that only takes users out of the registry. *)
<1>00. ASSUME users' \subseteq users, UNCHANGED tcpVars PROVE RegistryInv'
  BY <1>00, FewerUsers DEF Up, tcpVars
<1>1. ASSUME NEW c \in Uid, Connect(c) PROVE RegistryInv'
  BY <1>1 DEF Connect, Up
<1>2. ASSUME NEW c \in Uid, Disconnect(c) PROVE RegistryInv'
  BY <1>2 DEF Disconnect, Up
<1>3. ASSUME NEW c \in Uid, Close(c) PROVE RegistryInv'
  <2>1. CASE users' = users \ {c}
    <3>1. IsFiniteSet(users') /\ Cardinality(users') <= MaxUsers
      BY <2>1, FewerUsers
    <3> QED
      BY <1>3, <2>1, <3>1 DEF Close, Up
  <2>2. CASE users' = users /\ detached' = detached \union {c}
    BY <1>3, <2>2 DEF Close, Up
  <2> QED
    BY <1>3, <2>1, <2>2 DEF Close
<1>4. ASSUME NEW c \in Uid, Login(c) PROVE RegistryInv'
  BY <1>0, <1>4 DEF Login
<1>5. ASSUME NEW c \in Uid, Pers(c) PROVE RegistryInv'
  <2>1. CASE users' = Registered(c) /\ detached' = detached
    BY <1>0, <1>5, <2>1 DEF Pers, tcpVars
  <2>2. ASSUME NEW o \in Ghosts \ {c}, Reattach(c, o) PROVE RegistryInv'
    <3>1. IsFiniteSet(users') /\ Cardinality(users') <= MaxUsers
      BY <1>5, <2>2, RegisteredOK, FewerUsers DEF Pers, Reattach
    <3>2. conn' = conn /\ connected' = connected
      BY <1>5 DEF Pers
    <3>3. users' = Registered(c) \ {o} /\ detached' = detached \ {o}
      BY <2>2 DEF Reattach
    <3> QED
      BY <1>5, <3>1, <3>2, <3>3, RegisteredOK DEF Pers, Up
  <2> QED
    BY <1>5, <2>1, <2>2 DEF Pers
<1>6. ASSUME NEW c \in Uid, Sele(c) PROVE RegistryInv'
  BY <1>6, RegisteredOK DEF Sele, Up
<1>7. ASSUME NEW c \in Uid, Play(c) PROVE RegistryInv'
  <2>1. CASE Search(c) \/ RoomReentry(c) \/ GcreReentry(c) \/ GcreUpdate(c)
    BY <1>0, <2>1
       DEF Search, RoomReentry, GcreReentry, GcreUpdate, tcpVars
  <2>2. CASE (\E l \in Limits : GcreNew(c, l)) \/ \E i \in GameId : Gjoi(c, i)
    BY <1>0, <2>2 DEF GcreNew, Gjoi
  <2>3. CASE Ready(c) \/ Gsta(c) \/ Leave(c)
    BY <1>0, <2>3 DEF Ready, Gsta, Leave
  <2> QED
    BY <1>7, <2>1, <2>2, <2>3 DEF Play
<1>8. ASSUME NEW u \in Uid, Periodic(u) PROVE RegistryInv'
  BY <1>00, <1>8 DEF Periodic, CleanupDetached, KickInactive
<1>9. CASE Admin
  BY <1>00, <1>9 DEF Admin, AdminKickUser, AdminKickFromGame, AdminCloseGame
<1>10. CASE UNCHANGED vars
  BY <1>00, <1>10 DEF vars
<1> QED
  BY <1>1, <1>2, <1>3, <1>4, <1>5, <1>6, <1>7, <1>8, <1>9, <1>10
     DEF Next, Tcp, Command, Identify

-----------------------------------------------------------------------------
(***************************************************************************)
(* The games.                                                              *)
(***************************************************************************)
LEMMA GamesStep == IInv /\ [Next]_vars => GamesNext
<1> SUFFICES ASSUME IInv, [Next]_vars PROVE GamesNext
  OBVIOUS
<1> USE DEF IInv
<1>00. ASSUME UNCHANGED gameVars PROVE GamesNext
  BY <1>00 DEF GamesNext, GamesInv, gameVars
(* A departure, announced or not. *)
<1>0. ASSUME NEW u \in Uid, NEW i \in GameId, table[i] # NoGame,
             table' = AfterLeave(table, i, u), counter' = counter
      PROVE  GamesNext
  BY <1>0, AfterLeaveOK, NoNewGame DEF GamesInv
<1>1. ASSUME NEW c \in Uid, Tcp(c) PROVE GamesNext
  <2>1. CASE UNCHANGED gameVars
    BY <1>00, <2>1
  <2>2. CASE Close(c) /\ InGame(c) /\ table' = AfterLeave(table, game[c], c)
    BY <1>0, <2>2, InGameOK DEF Close
  <2> QED
    BY <1>1, <2>1, <2>2 DEF Tcp, Connect, Disconnect, Close, gameVars
<1>2. ASSUME NEW c \in Uid, Login(c) \/ Sele(c) PROVE GamesNext
  BY <1>00, <1>2 DEF Login, Sele
<1>3. ASSUME NEW c \in Uid, Pers(c) PROVE GamesNext
  <2>1. CASE table' = table
    BY <1>00, <1>3, <2>1 DEF Pers, gameVars
  <2>2. ASSUME NEW o \in Ghosts \ {c}, Reattach(c, o), InGame(o)
        PROVE  GamesNext
    <3>1. o \in Uid /\ o # c
      BY DEF Ghosts, RegistryInv
    <3>2. game[o] \in GameId /\ table[game[o]] # NoGame /\ GameOK(table[game[o]])
      BY <2>2, <3>1, InGameOK
    <3>3. GameOK(Reseat(table[game[o]], o, c))
      BY <3>1, <3>2, ReseatOK
    <3>4. table' = [table EXCEPT ![game[o]] = Reseat(table[game[o]], o, c)]
      BY <2>2, <3>2 DEF Reattach, GamesInv, TableOK
    <3>5. TableOK(table') /\ Live(table') \subseteq Live(table)
      BY <3>2, <3>3, <3>4, Rewrite DEF GamesInv
    <3> QED
      BY <1>3, <3>5, NoNewGame DEF Pers
  <2> QED
    BY <1>3, <2>1, <2>2 DEF Pers, Reattach
<1>4. ASSUME NEW c \in Uid, Search(c) \/ RoomReentry(c) PROVE GamesNext
  <2>1. table' = Pruned(users') /\ counter' = counter
    BY <1>4 DEF Search, RoomReentry
  <2> QED
    BY <2>1, PrunedOK, NoNewGame DEF GamesInv
<1>5. ASSUME NEW c \in Uid, GcreReentry(c) \/ GcreUpdate(c) PROVE GamesNext
  BY <1>00, <1>5 DEF GcreReentry, GcreUpdate
<1>6. ASSUME NEW c \in Uid, NEW l \in Limits, GcreNew(c, l) PROVE GamesNext
  <2> DEFINE left == IF InGame(c) THEN AfterLeave(table, game[c], c) ELSE table
             g == AddPlayer(NewGame(c, l), c)
  <2>1. TableOK(left) /\ Live(left) \subseteq Live(table)
    BY LeftOK
  <2>2. CASE Full(left)
    <3>1. table' = left /\ counter' = counter
      BY <1>6, <2>2 DEF GcreNew
    <3> QED
      BY <2>1, <3>1, NoNewGame
  <2>3. CASE ~Full(left)
    <3>1. /\ counter \in GameId /\ counter' = counter + 1
          /\ table' = [left EXCEPT ![counter] = g]
      BY <1>6, <2>3, GamesAssumption DEF GcreNew, NextId, GamesInv, GameId
    <3>2. GameOK(g)
      BY NewGameOK
    <3> HIDE DEF g
    <3>3. TableOK(table') /\ Cardinality(Live(table')) <= MaxGames
      BY <2>1, <2>3, <3>1, <3>2, CreateOK
    <3>4. ASSUME NEW i \in GameId, i >= counter' PROVE table'[i] = NoGame
      <4>1. i # counter /\ i >= counter
        BY <3>1, <3>4 DEF GameId
      <4>2. left[i] = NoGame
        BY <2>1, <4>1 DEF GamesInv, Live
      <4> QED
        BY <2>1, <3>1, <4>1, <4>2 DEF TableOK
    <3>5. counter' \in 1 .. MaxGameId + 1
      BY <3>1, GamesAssumption DEF GameId
    <3>6. Live(table') \subseteq Live(table) \union {counter}
      BY <2>1, <3>1 DEF Live, TableOK
    <3> QED
      BY <3>3, <3>4, <3>5, <3>6 DEF GamesNext, GamesInv
  <2> QED
    BY <2>2, <2>3
<1>7. ASSUME NEW c \in Uid, NEW i \in GameId, Gjoi(c, i) PROVE GamesNext
  <2> DEFINE t == Pruned(users')
             g == AddPlayer(t[i], c)
             R == Members(g) \intersect users'
  <2>1. TableOK(t) /\ Live(t) \subseteq Live(table)
    BY PrunedOK DEF GamesInv
  <2>2. t[i] # NoGame /\ counter' = counter
    BY <1>7 DEF Gjoi
  <2>3. GameOK(g)
    BY <2>1, <2>2, LiveOK, AddPlayerOK
  <2>4. GameOK([g EXCEPT !.ready = @ \union R])
    BY <2>3, ReadyOK
  <2>5. \/ table' = t
        \/ table' = [t EXCEPT ![i] = g]
        \/ table' = [t EXCEPT ![i] = [g EXCEPT !.ready = @ \union R]]
    BY <1>7 DEF Gjoi
  <2> HIDE DEF t, g, R
  <2>6. TableOK(table') /\ Live(table') \subseteq Live(t)
    BY <2>1, <2>2, <2>3, <2>4, <2>5, Rewrite
  <2> QED
    BY <2>1, <2>2, <2>6, NoNewGame
<1>8. ASSUME NEW c \in Uid, Ready(c) PROVE GamesNext
  <2> DEFINE g == SetReady(table[game[c]], c)
  <2>1. /\ game[c] \in GameId /\ table[game[c]] # NoGame
        /\ GameOK(table[game[c]])
    BY <1>8, InGameOK DEF Ready
  <2>2. GameOK(g)
    BY <2>1, ReadyOK DEF SetReady
  <2>3. table' = [table EXCEPT ![game[c]] = g] /\ counter' = counter
    BY <1>8, <2>1 DEF Ready, GamesInv, TableOK
  <2> HIDE DEF g
  <2> QED
    BY <2>1, <2>2, <2>3, Rewrite, NoNewGame DEF GamesInv
<1>9. ASSUME NEW c \in Uid, Gsta(c) PROVE GamesNext
  <2> DEFINE t == IF InGame(c) THEN table ELSE Pruned(users')
  <2>1. PICK i \in GameId : t[i] # NoGame /\ table' = [t EXCEPT ![i] = Start(@)]
    BY <1>9 DEF Gsta
  <2>2. TableOK(t) /\ Live(t) \subseteq Live(table)
    BY PrunedOK DEF GamesInv
  <2> DEFINE g == Start(t[i])
  <2> HIDE DEF t
  <2>3. GameOK(g)
    BY <2>1, <2>2, LiveOK, StartOK
  <2>4. table' = [t EXCEPT ![i] = g] /\ t[i] # NoGame
    BY <2>1, <2>2 DEF TableOK
  <2> HIDE DEF g
  <2>5. TableOK(table') /\ Live(table') \subseteq Live(t)
    BY <2>2, <2>3, <2>4, Rewrite
  <2> QED
    BY <1>9, <2>2, <2>5, NoNewGame DEF Gsta
<1>10. ASSUME NEW c \in Uid, Leave(c) PROVE GamesNext
  <2>1. CASE InGame(c)
    BY <1>0, <1>10, <2>1, InGameOK DEF Leave
  <2>2. CASE ~InGame(c)
    BY <1>00, <1>10, <2>2 DEF Leave, gameVars
  <2> QED
    BY <2>1, <2>2
<1>11. ASSUME NEW u \in Uid, CleanupDetached(u) \/ AdminKickUser(u)
       PROVE  GamesNext
  <2>1. CASE InGame(u)
    BY <1>0, <1>11, <2>1, InGameOK DEF CleanupDetached, AdminKickUser
  <2>2. CASE ~InGame(u)
    BY <1>00, <1>11, <2>2 DEF CleanupDetached, AdminKickUser, gameVars
  <2> QED
    BY <2>1, <2>2
<1>12. ASSUME NEW u \in Uid, KickInactive(u) PROVE GamesNext
  BY <1>00, <1>12 DEF KickInactive
<1>13. ASSUME NEW i \in GameId, NEW u \in Uid, AdminKickFromGame(i, u)
       PROVE  GamesNext
  BY <1>0, <1>13 DEF AdminKickFromGame
<1>14. ASSUME NEW i \in GameId, AdminCloseGame(i) PROVE GamesNext
  <2>1. /\ table[i] # NoGame /\ counter' = counter
        /\ table' = [table EXCEPT ![i] = NoGame]
    BY <1>14 DEF AdminCloseGame
  <2> QED
    BY <2>1, Rewrite, NoNewGame DEF GamesInv
<1>15. CASE UNCHANGED vars
  BY <1>00, <1>15 DEF vars
<1>16. ASSUME NEW c \in Uid, Play(c) PROVE GamesNext
  BY <1>4, <1>5, <1>6, <1>7, <1>8, <1>9, <1>10, <1>16 DEF Play
<1> QED
  BY <1>1, <1>2, <1>3, <1>11, <1>12, <1>13, <1>14, <1>15, <1>16
     DEF Next, Command, Identify, Periodic, Admin

-----------------------------------------------------------------------------
(***************************************************************************)
(* The pointers of the users to their games.                               *)
(***************************************************************************)
LEMMA SeatsStep == IInv /\ [Next]_vars => SeatsInv'
<1> SUFFICES ASSUME IInv, [Next]_vars PROVE SeatsInv'
  OBVIOUS
<1> USE DEF IInv
<1>00. ASSUME UNCHANGED seatVars, counter' = counter PROVE SeatsInv'
  BY <1>00 DEF SeatsInv, seatVars
(* Pointers are cleared; whoever is sent to the lobby stops racing. *)
<1>0. ASSUME counter' = counter, racing' \in SUBSET Uid,
             \E S : game' = [v \in Uid |-> IF v \in S THEN 0 ELSE game[v]]
      PROVE  SeatsInv'
  BY <1>0 DEF SeatsInv, GamesInv
<1>1. ASSUME NEW c \in Uid, Tcp(c) PROVE SeatsInv'
  <2>1. CASE UNCHANGED seatVars
    BY <1>00, <1>1, <2>1 DEF Tcp, Connect, Disconnect, Close, gameVars
  <2>2. ASSUME Close(c), NEW S, ToLobby(S) PROVE SeatsInv'
    BY <2>2, ToLobbyOK DEF Close
  <2> QED
    BY <1>1, <2>1, <2>2 DEF Tcp, Connect, Disconnect, Close
<1>2. ASSUME NEW c \in Uid, Login(c) \/ Sele(c) PROVE SeatsInv'
  BY <1>00, <1>2 DEF Login, Sele, gameVars
<1>3. ASSUME NEW c \in Uid, Pers(c) PROVE SeatsInv'
  <2>1. CASE UNCHANGED seatVars
    BY <1>00, <1>3, <2>1 DEF Pers
  <2>2. ASSUME NEW o \in Ghosts \ {c}, Reattach(c, o) PROVE SeatsInv'
    <3>1. o \in Uid
      BY DEF Ghosts, RegistryInv
    <3>2. CASE InGame(o)
      <4>1. game[o] \in GameId /\ game[o] < counter
        BY <3>1, <3>2, InGameOK
      <4>2. game' = [game EXCEPT ![c] = game[o], ![o] = 0]
        BY <2>2, <3>2 DEF Reattach
      <4>3. racing' \in SUBSET Uid
        BY <2>2, <3>2 DEF Reattach, SeatsInv
      <4> QED
        BY <1>3, <3>1, <4>1, <4>2, <4>3 DEF Pers, SeatsInv, GamesInv
    <3>3. CASE ~InGame(o)
      BY <1>3, <2>2, <3>3 DEF Pers, Reattach, SeatsInv, GamesInv
    <3> QED
      BY <3>2, <3>3
  <2> QED
    BY <1>3, <2>1, <2>2 DEF Pers
<1>4. ASSUME NEW c \in Uid, RoomReentry(c) \/ GcreReentry(c) PROVE SeatsInv'
  BY <1>4 DEF RoomReentry, GcreReentry, gameVars, SeatsInv
<1>5. ASSUME NEW c \in Uid, Search(c) \/ GcreUpdate(c) \/ Ready(c)
      PROVE  SeatsInv'
  BY <1>00, <1>5 DEF Search, GcreUpdate, Ready, gameVars
<1>6. ASSUME NEW c \in Uid, NEW l \in Limits, GcreNew(c, l) PROVE SeatsInv'
  <2>1. CASE \E S : ToLobby(S) /\ counter' = counter
    BY <2>1, ToLobbyOK
  <2>2. CASE \E S : /\ counter' = counter + 1
                    /\ game' = [u \in Uid |-> IF u = c THEN counter
                                              ELSE IF u \in S THEN 0
                                              ELSE game[u]]
                    /\ racing' = racing \ (S \union {c})
    <3>1. counter \in GameId
      BY <1>6, GamesAssumption DEF GcreNew, GamesInv, GameId
    <3> QED
      BY <2>2, <3>1 DEF SeatsInv, GameId
  <2> QED
    BY <1>6, <2>1, <2>2 DEF GcreNew, NextId
<1>7. ASSUME NEW c \in Uid, NEW i \in GameId, Gjoi(c, i) PROVE SeatsInv'
  <2>1. i < counter /\ counter' = counter
    <3>1. Pruned(users')[i] # NoGame
      BY <1>7 DEF Gjoi
    <3>2. table[i] # NoGame
      BY <3>1, PrunedOK DEF GamesInv, Live
    <3> QED
      BY <1>7, <3>2, LiveBelow DEF Gjoi
  <2>2. CASE UNCHANGED seatVars
    BY <1>00, <2>1, <2>2
  <2>3. CASE ToRoom({c}, i) \/ ToRace({c}, i)
    BY <2>1, <2>3, ToGameOK
  <2> QED
    BY <1>7, <2>2, <2>3 DEF Gjoi
<1>8. ASSUME NEW c \in Uid, Gsta(c) PROVE SeatsInv'
  <2> DEFINE t == IF InGame(c) THEN table ELSE Pruned(users')
  <2>1. PICK i \in GameId :
               /\ t[i] # NoGame
               /\ ToRace((Members(t[i]) \union {t[i].host}) \intersect users', i)
    BY <1>8 DEF Gsta
  <2>2. i < counter
    <3>1. table[i] # NoGame
      BY <2>1, PrunedOK DEF GamesInv, Live
    <3> QED
      BY <3>1, LiveBelow
  <2>3. users' \in SUBSET Uid
    BY RegistryStep DEF RegistryInv
  <2>4. PICK S \in SUBSET Uid : ToRace(S, i)
    BY <2>1, <2>3
  <2> QED
    BY <1>8, <2>2, <2>4, ToGameOK DEF Gsta
<1>9. ASSUME NEW c \in Uid, Leave(c) PROVE SeatsInv'
  BY <1>9, ToLobbyOK DEF Leave
<1>10. ASSUME NEW u \in Uid, CleanupDetached(u) \/ KickInactive(u) PROVE SeatsInv'
  <2>1. CASE UNCHANGED seatVars
    BY <1>00, <1>10, <2>1 DEF CleanupDetached, KickInactive, gameVars
  <2>2. CASE CleanupDetached(u) /\ InGame(u)
    <3>1. racing' \in SUBSET Uid
      BY <2>2 DEF CleanupDetached, SeatsInv
    <3>2. \E S : game' = [v \in Uid |-> IF v \in S THEN 0 ELSE game[v]]
      BY <2>2 DEF CleanupDetached
    <3> QED
      BY <1>0, <2>2, <3>1, <3>2 DEF CleanupDetached
  <2> QED
    BY <1>10, <2>1, <2>2 DEF CleanupDetached, KickInactive
<1>11. ASSUME NEW u \in Uid, AdminKickUser(u) PROVE SeatsInv'
  BY <1>00, <1>11, ToLobbyOK DEF AdminKickUser
<1>12. ASSUME NEW i \in GameId, NEW u \in Uid, AdminKickFromGame(i, u)
       PROVE  SeatsInv'
  BY <1>12, ToLobbyOK DEF AdminKickFromGame
<1>13. ASSUME NEW i \in GameId, AdminCloseGame(i) PROVE SeatsInv'
  <2>1. racing' \in SUBSET Uid /\ counter' = counter
    BY <1>13 DEF AdminCloseGame, SeatsInv
  <2>2. \A v \in Uid : game'[v] = 0 \/ game'[v] = game[v]
    BY <1>13 DEF AdminCloseGame
  <2>3. game' \in [Uid -> GameId \union {0}]
    BY <1>13 DEF AdminCloseGame, SeatsInv
  <2> QED
    BY <2>1, <2>2, <2>3 DEF SeatsInv, GamesInv
<1>14. CASE UNCHANGED vars
  BY <1>00, <1>14 DEF vars, gameVars
<1>15. ASSUME NEW c \in Uid, Play(c) PROVE SeatsInv'
  BY <1>4, <1>5, <1>6, <1>7, <1>8, <1>9, <1>15 DEF Play
<1> QED
  BY <1>1, <1>2, <1>3, <1>10, <1>11, <1>12, <1>13, <1>14, <1>15
     DEF Next, Command, Identify, Periodic, Admin

(* The inductive invariant. *)
THEOREM Invariance == Spec => []IInv
<1>1. IInv /\ [Next]_vars => IInv'
  BY RegistryStep, GamesStep, SeatsStep DEF IInv, GamesNext
<1> QED
  BY InitOK, <1>1, PTL DEF Spec

-----------------------------------------------------------------------------
(***************************************************************************)
(* The theorems.                                                           *)
(***************************************************************************)
(* Every variable of the lobby keeps its type. *)
THEOREM TypeCorrect == Spec => []TypeOK
<1>1. IInv => TypeOK
  BY DEF IInv, RegistryInv, GamesInv, SeatsInv, TableOK, TypeOK
<1> QED
  BY Invariance, <1>1, PTL

(* The registry and the game table never exceed their capacities, however  *)
(* users register, return for their seats, or disappear. *)
THEOREM CapacityCorrect == Spec => []Capacity
<1>1. IInv => Capacity
  BY DEF IInv, RegistryInv, GamesInv, Capacity
<1> QED
  BY Invariance, <1>1, PTL

(* Every game has its host among its players, marks only players ready and *)
(* respects its limit. *)
THEOREM GamesCorrect == Spec => []GamesWellFormed
<1>1. IInv => GamesWellFormed
  BY DEF IInv, GamesInv, TableOK, GameOK, GamesWellFormed
<1> QED
  BY Invariance, <1>1, PTL

(* No slot of the registry is lost: an open connection or a ghost has it. *)
THEOREM SlotsCorrect == Spec => []NoLeakedSlot
<1>1. IInv => NoLeakedSlot
  BY DEF IInv, RegistryInv
<1> QED
  BY Invariance, <1>1, PTL

(* A game is created under an id that no user points to: stale pointers    *)
(* never lead into another game. *)
THEOREM FreshIds == Spec => FreshGame
<1>1. ASSUME IInv, [Next]_vars, NEW i \in GameId,
             table[i] = NoGame, table'[i] # NoGame
      PROVE  \A u \in Uid : game[u] # i
  <2>1. i = counter
    BY <1>1, GamesStep DEF GamesNext, Live
  <2> QED
    BY <1>1, <2>1, GamesAssumption DEF IInv, SeatsInv, GameId
<1>2. IInv /\ [Next]_vars =>
        [\A i \in GameId : table[i] = NoGame /\ table'[i] # NoGame =>
           \A u \in Uid : game[u] # i]_vars
  BY <1>1
<1> QED
  BY Invariance, <1>2, PTL DEF Spec, FreshGame

-----------------------------------------------------------------------------
(***************************************************************************)
(* What a step of the lobby may do to the seats and the races that exist.  *)
(* These theorems are about single steps from states that satisfy the      *)
(* inductive invariant.                                                    *)
(***************************************************************************)
(***************************************************************************)
(* Races end with their hosts.                                             *)
(***************************************************************************)
(* Whoever is in a game and leaves it may be the host of the game that     *)
(* disappears, but of no other one. *)
LEMMA LeaveEnds ==
    ASSUME IInv, NEW u \in Uid, InGame(u),
           NEW i \in GameId, AfterLeave(table, game[u], u)[i] = NoGame,
           table[i] # NoGame
    PROVE  game[u] = i /\ u = table[i].host
<1>1. game[u] \in GameId /\ table[game[u]] # NoGame
  BY InGameOK DEF IInv
<1> QED
  BY <1>1, AfterLeaveKeeps DEF IInv, GamesInv

(* Pruning leaves the races alone. *)
LEMMA PruneKeepsRaces ==
    ASSUME NEW i \in GameId, table[i] # NoGame, table[i].state = "ACTIVE", NEW us
    PROVE  Pruned(us)[i] = table[i]
BY DEF Pruned

(* Theorem RaceEndsWithHost, for one race. *)
LEMMA RaceEnds ==
    ASSUME IInv, [Next]_vars, NEW i \in GameId, table[i] # NoGame,
           table[i].state = "ACTIVE", table'[i] = NoGame
    PROVE  HostEnds(i, table[i].host)
<1> USE DEF IInv
<1>1. table' # table
  BY DEF GamesInv
<1>2. ASSUME NEW c \in Uid, Tcp(c) PROVE HostEnds(i, table[i].host)
  <2>1. Close(c)
    BY <1>1, <1>2 DEF Tcp, Connect, Disconnect, gameVars
  <2>2. InGame(c) /\ table' = AfterLeave(table, game[c], c)
    BY <1>1, <2>1 DEF Close
  <2>3. c = table[i].host
    BY <2>2, LeaveEnds
  <2> QED
    BY <2>1, <2>3 DEF HostEnds
<1>3. ASSUME NEW c \in Uid, Identify(c) PROVE FALSE
  <2>1. PICK o \in Ghosts \ {c} : Reattach(c, o) /\ InGame(o)
    BY <1>1, <1>3 DEF Identify, Login, Pers, Sele, gameVars, Reattach
  <2>2. c \in Uid /\ o \in Uid /\ o # c
    BY DEF Ghosts, RegistryInv
  <2>3. GameOK(table[game[o]]) /\ game[o] \in GameId
    BY <2>1, <2>2, InGameOK
  <2>4. GameOK(Reseat(table[game[o]], o, c))
    BY <2>2, <2>3, ReseatOK
  <2>5. table'[i] = table[i] \/ table'[i] = Reseat(table[game[o]], o, c)
    BY <2>1, <2>3 DEF Reattach, GamesInv, TableOK
  <2> QED
    BY <2>4, <2>5, NoGameAssumption DEF GameOK
<1>4. ASSUME NEW c \in Uid, Search(c) \/ RoomReentry(c) PROVE FALSE
  BY <1>4, PruneKeepsRaces DEF Search, RoomReentry
<1>5. ASSUME NEW c \in Uid, GcreReentry(c) \/ GcreUpdate(c) PROVE FALSE
  BY <1>1, <1>5 DEF GcreReentry, GcreUpdate, gameVars
<1>6. ASSUME NEW c \in Uid, NEW l \in Limits, GcreNew(c, l) PROVE FALSE
  <2> DEFINE left == IF InGame(c) THEN AfterLeave(table, game[c], c) ELSE table
             g == AddPlayer(NewGame(c, l), c)
  <2>1. left[i] # NoGame
    BY <1>6, LeaveEnds DEF GcreNew
  <2>2. TableOK(left)
    BY LeftOK
  <2>3. table' = left \/ table' = [left EXCEPT ![counter] = g]
    BY <1>6 DEF GcreNew
  <2>4. g # NoGame
    BY NewGameOK, NoGameAssumption DEF GameOK
  <2> HIDE DEF left, g
  <2> QED
    BY <2>1, <2>2, <2>3, <2>4 DEF TableOK
<1>7. ASSUME NEW c \in Uid, NEW j \in GameId, Gjoi(c, j) PROVE FALSE
  <2> DEFINE t == Pruned(users')
             g == AddPlayer(t[j], c)
  <2>1. t[i] = table[i]
    BY PruneKeepsRaces
  <2>2. t[j].state = "OPEN"
    BY <1>7 DEF Gjoi
  <2>3. i # j
    BY <2>1, <2>2
  <2>4. \E h : table' = t \/ table' = [t EXCEPT ![j] = h]
    BY <1>7 DEF Gjoi
  <2>5. TableOK(t)
    BY PrunedOK DEF GamesInv
  <2> HIDE DEF t
  <2>6. table'[i] = t[i]
    BY <2>3, <2>4, <2>5 DEF TableOK
  <2> QED
    BY <2>1, <2>6
<1>8. ASSUME NEW c \in Uid, Ready(c) PROVE FALSE
  <2>1. game[c] \in GameId /\ table' = [table EXCEPT ![game[c]] = SetReady(@, c)]
    BY <1>8, InGameOK DEF Ready
  <2>2. table'[i] = table[i] \/ table'[i] = SetReady(table[i], c)
    BY <2>1 DEF GamesInv, TableOK
  <2>3. GameOK(SetReady(table[i], c))
    BY LiveOK, ReadyOK DEF SetReady, GamesInv
  <2> QED
    BY <2>2, <2>3, NoGameAssumption DEF GameOK
<1>9. ASSUME NEW c \in Uid, Gsta(c) PROVE FALSE
  <2> DEFINE t == IF InGame(c) THEN table ELSE Pruned(users')
  <2>1. PICK j \in GameId : table' = [t EXCEPT ![j] = Start(@)]
    BY <1>9 DEF Gsta
  <2>2. t[i] = table[i] /\ TableOK(t)
    BY PruneKeepsRaces, PrunedOK DEF GamesInv
  <2> HIDE DEF t
  <2>3. table'[i] = table[i] \/ table'[i] = Start(table[i])
    BY <2>1, <2>2 DEF TableOK
  <2>4. GameOK(Start(table[i]))
    BY LiveOK, StartOK DEF GamesInv
  <2> QED
    BY <2>3, <2>4, NoGameAssumption DEF GameOK
<1>10. ASSUME NEW c \in Uid, Leave(c) PROVE HostEnds(i, table[i].host)
  BY <1>1, <1>10, LeaveEnds DEF Leave, HostEnds
<1>11. ASSUME NEW u \in Uid, Periodic(u) PROVE HostEnds(i, table[i].host)
  BY <1>1, <1>11, LeaveEnds
     DEF Periodic, CleanupDetached, KickInactive, gameVars, HostEnds
<1>12. CASE Admin
  <2>1. ASSUME NEW u \in Uid, AdminKickUser(u) PROVE HostEnds(i, table[i].host)
    BY <1>1, <2>1, LeaveEnds DEF AdminKickUser, HostEnds
  <2>2. ASSUME NEW j \in GameId, NEW u \in Uid, AdminKickFromGame(j, u)
        PROVE  HostEnds(i, table[i].host)
    <3>1. table[j] # NoGame /\ table' = AfterLeave(table, j, u)
      BY <2>2 DEF AdminKickFromGame
    <3>2. i = j /\ u = table[i].host
      BY <3>1, AfterLeaveKeeps DEF GamesInv
    <3> QED
      BY <2>2, <3>2 DEF HostEnds
  <2>3. ASSUME NEW j \in GameId, AdminCloseGame(j) PROVE HostEnds(i, table[i].host)
    <3>1. i = j
      BY <2>3 DEF AdminCloseGame, GamesInv, TableOK
    <3> QED
      BY <2>3, <3>1 DEF HostEnds
  <2> QED
    BY <1>12, <2>1, <2>2, <2>3 DEF Admin
<1>13. CASE UNCHANGED vars
  BY <1>1, <1>13 DEF vars, gameVars
<1> QED
  BY <1>2, <1>3, <1>4, <1>5, <1>6, <1>7, <1>8, <1>9, <1>10, <1>11, <1>12, <1>13
     DEF Next, Command, Play

(* What the guests of a race do, pruning included, never ends it. *)
THEOREM RacesCorrect == Spec => RaceEndsWithHost
<1>1. IInv /\ [Next]_vars =>
        [\A i \in Live(table) :
           table[i].state = "ACTIVE" /\ table'[i] = NoGame =>
             HostEnds(i, table[i].host)]_vars
  BY RaceEnds DEF Live
<1> QED
  BY Invariance, <1>1, PTL DEF Spec, RaceEndsWithHost

(***************************************************************************)
(* Seats.                                                                  *)
(***************************************************************************)
(* User v keeps a seat in game i, unless the game is gone. *)
Keeps(v, i) == table'[i] # NoGame => v \in Members(table'[i])

(* A departure takes nobody else's seat. *)
LEMMA LeaveSeats ==
    ASSUME IInv, NEW u, NEW j \in GameId, table[j] # NoGame,
           NEW i \in GameId, NEW v \in Members(table[i]), v # u,
           AfterLeave(table, j, u)[i] # NoGame
    PROVE  v \in Members(AfterLeave(table, j, u)[i])
<1>1. TableOK(table)
  BY DEF IInv, GamesInv
<1>2. CASE i = j
  BY <1>1, <1>2, AfterLeaveKeeps
<1>3. CASE i # j
  <2>1. AfterLeave(table, j, u)[i] = table[i]
    BY <1>1, <1>3, AfterLeaveKeeps
  <2> QED
    BY <2>1
<1> QED
  BY <1>2, <1>3

(* Pruning takes the seat of no live user. *)
LEMMA PruneSeats ==
    ASSUME IInv, NEW us, NEW i \in GameId, table[i] # NoGame,
           NEW v \in Members(table[i]),
           (v \in us /\ v \in connected) \/ table[i].state = "ACTIVE",
           Pruned(us)[i] # NoGame
    PROVE  v \in Members(Pruned(us)[i])
<1>1. GameOK(table[i])
  BY LiveOK DEF IInv, GamesInv
<1>2. \/ Pruned(us)[i] = table[i]
      \/ /\ table[i].state # "ACTIVE"
         /\ Pruned(us)[i] = Keep(table[i], LiveUsers(us))
  BY DEF Pruned
<1>3. v \in us /\ v \in connected => v \in Members(Keep(table[i], LiveUsers(us)))
  BY <1>1, KeepKeeps DEF LiveUsers
<1> QED
  BY <1>2, <1>3

(* gcre takes nobody else's seat. *)
LEMMA GcreSeats ==
    ASSUME IInv, NEW c \in Uid, NEW l \in Limits, GcreNew(c, l),
           NEW i \in GameId, table[i] # NoGame,
           NEW v \in Members(table[i]), v # c
    PROVE  Keeps(v, i)
<1> DEFINE left == IF InGame(c) THEN AfterLeave(table, game[c], c) ELSE table
           g == AddPlayer(NewGame(c, l), c)
<1>1. left[i] # NoGame => v \in Members(left[i])
  <2>1. CASE InGame(c)
    <3>1. game[c] \in GameId /\ table[game[c]] # NoGame
      BY <2>1, InGameOK DEF IInv
    <3> QED
      BY <2>1, <3>1, LeaveSeats
  <2>2. CASE ~InGame(c)
    BY <2>2
  <2> QED
    BY <2>1, <2>2
<1>2. TableOK(left)
  BY LeftOK DEF IInv
<1>3. table' = left \/ table' = [left EXCEPT ![counter] = g]
  BY DEF GcreNew
<1>4. i # counter
  BY LiveBelow, GamesAssumption DEF IInv, GamesInv, GameId
<1> HIDE DEF left, g
<1>5. table'[i] = left[i]
  BY <1>2, <1>3, <1>4 DEF TableOK
<1> QED
  BY <1>1, <1>5 DEF Keeps

(* gjoi takes the seat of no live user, and of no racer. *)
LEMMA GjoiSeats ==
    ASSUME IInv, NEW c \in Uid, NEW j \in GameId, Gjoi(c, j),
           NEW i \in GameId, table[i] # NoGame,
           NEW v \in Members(table[i]),
           (v \in users' /\ v \in connected) \/ table[i].state = "ACTIVE"
    PROVE  Keeps(v, i)
<1> DEFINE t == Pruned(users')
           g == AddPlayer(t[j], c)
           R == Members(g) \intersect users'
<1>1. t[i] # NoGame => v \in Members(t[i])
  BY PruneSeats
<1>2. TableOK(t)
  BY PrunedOK DEF IInv, GamesInv
<1>3. t[j] # NoGame /\ GameOK(t[j])
  BY <1>2, LiveOK DEF Gjoi
<1>4. GameOK(g) /\ Members(t[j]) \subseteq Members(g)
  BY <1>3, AddPlayerOK, AddKeeps
<1>5. \/ table' = t
      \/ table' = [t EXCEPT ![j] = g]
      \/ table' = [t EXCEPT ![j] = [g EXCEPT !.ready = @ \union R]]
  BY DEF Gjoi
<1>6. Members([g EXCEPT !.ready = @ \union R]) = Members(g)
  BY <1>4 DEF GameOK, Game, Members
<1> HIDE DEF t, g, R
<1>7. \/ table'[i] = t[i]
      \/ i = j /\ Members(table'[i]) = Members(g)
  BY <1>2, <1>5, <1>6 DEF TableOK
<1> QED
  BY <1>1, <1>3, <1>4, <1>7 DEF Keeps

(* Nor do mesg and gsta take a seat. *)
LEMMA ReadySeats ==
    ASSUME IInv, NEW c \in Uid, Ready(c),
           NEW i \in GameId, table[i] # NoGame, NEW v \in Members(table[i])
    PROVE  Keeps(v, i)
<1>1. game[c] \in GameId /\ table' = [table EXCEPT ![game[c]] = SetReady(@, c)]
  BY InGameOK DEF Ready, IInv
<1>2. table'[i] = table[i] \/ table'[i] = SetReady(table[i], c)
  BY <1>1 DEF IInv, GamesInv, TableOK
<1>3. GameOK(table[i])
  BY LiveOK DEF IInv, GamesInv
<1>4. Members(SetReady(table[i], c)) = Members(table[i])
  BY <1>3 DEF SetReady, Members, GameOK, Game
<1> QED
  BY <1>2, <1>4 DEF Keeps

LEMMA GstaSeats ==
    ASSUME IInv, NEW c \in Uid, Gsta(c),
           NEW i \in GameId, table[i] # NoGame, NEW v \in Members(table[i]),
           (v \in users' /\ v \in connected) \/ table[i].state = "ACTIVE"
    PROVE  Keeps(v, i)
<1> DEFINE t == IF InGame(c) THEN table ELSE Pruned(users')
<1>1. PICK j \in GameId : t[j] # NoGame /\ table' = [t EXCEPT ![j] = Start(@)]
  BY DEF Gsta
<1>2. TableOK(t)
  BY PrunedOK DEF IInv, GamesInv
<1>3. t[i] # NoGame => v \in Members(t[i])
  BY PruneSeats
<1> HIDE DEF t
<1>4. table'[i] = t[i] \/ (i = j /\ table'[i] = Start(t[j]))
  BY <1>1, <1>2 DEF TableOK
<1>5. GameOK(t[j])
  BY <1>1, <1>2, LiveOK
<1>6. Members(Start(t[j])) = Members(t[j])
  BY <1>5 DEF Start, Members, GameOK, Game
<1> QED
  BY <1>1, <1>3, <1>4, <1>6 DEF Keeps

(* A reattachment takes the seat of the ghost only. *)
LEMMA ReattachSeats ==
    ASSUME IInv, NEW c \in Uid, NEW o \in Ghosts \ {c}, Reattach(c, o),
           NEW i \in GameId, table[i] # NoGame,
           NEW v \in Members(table[i]), v # o
    PROVE  Keeps(v, i)
<1>1. CASE ~InGame(o)
  BY <1>1 DEF Reattach, Keeps
<1>2. CASE InGame(o)
  <2>1. o \in Uid /\ o # c
    BY DEF Ghosts, IInv, RegistryInv
  <2>2. game[o] \in GameId /\ GameOK(table[game[o]])
    BY <1>2, <2>1, InGameOK DEF IInv
  <2>3. Members(table[game[o]]) \ {o} \subseteq Members(Reseat(table[game[o]], o, c))
    BY <2>1, <2>2, ReseatKeeps
  <2>4. \/ table'[i] = table[i]
        \/ game[o] = i /\ table'[i] = Reseat(table[game[o]], o, c)
    BY <1>2, <2>2 DEF Reattach, IInv, GamesInv, TableOK
  <2> QED
    BY <2>3, <2>4 DEF Keeps
<1> QED
  BY <1>1, <1>2

(* Theorem SeatKept, for one player. *)
LEMMA SeatStep ==
    ASSUME IInv, [Next]_vars, NEW v \in Uid, Player(v), InGame(v),
           Seated(v, game[v])
    PROVE  SeatStays(v)
<1> DEFINE i == game[v]
<1>1. i \in GameId /\ table[i] # NoGame /\ v \in Members(table[i])
  BY InGameOK DEF IInv, Seated
<1>2. v \in Up /\ v \in connected /\ v \in users
  BY DEF Player
<1> SUFFICES ASSUME game'[v] = i PROVE Keeps(v, i)
  BY DEF SeatStays, Keeps
<1> HIDE DEF i
<1>3. i # 0
  BY <1>1, GamesAssumption DEF GameId
<1>0. CASE table' = table
  BY <1>0, <1>1 DEF Keeps
<1>4. ASSUME NEW u, u # v, NEW j \in GameId, table[j] # NoGame,
             table' = AfterLeave(table, j, u)
      PROVE  Keeps(v, i)
  BY <1>1, <1>4, LeaveSeats DEF Keeps
<1>5. ASSUME NEW c \in Uid, Tcp(c) PROVE Keeps(v, i)
  <2>1. CASE Close(c) /\ InGame(c) /\ table' # table
    <3>1. c # v
      BY <1>3, <2>1 DEF Close, ToLobby
    <3> QED
      BY <1>4, <2>1, <3>1, InGameOK, <1>0 DEF Close, IInv
  <2> QED
    BY <1>0, <1>5, <2>1 DEF Tcp, Connect, Disconnect, Close, gameVars
<1>6. ASSUME NEW c \in Uid, Identify(c) PROVE Keeps(v, i)
  <2>1. ASSUME NEW o \in Ghosts \ {c}, Reattach(c, o) PROVE Keeps(v, i)
    <3>1. v # o
      BY <1>2 DEF Ghosts
    <3> QED
      BY <1>1, <2>1, <3>1, ReattachSeats
  <2> QED
    BY <1>0, <1>6, <2>1 DEF Identify, Login, Pers, Sele, gameVars
<1>7. ASSUME NEW c \in Uid, users' = Registered(c) PROVE v \in users'
  BY <1>2, <1>7 DEF Registered
<1>8. ASSUME NEW c \in Uid, Search(c) \/ RoomReentry(c) PROVE Keeps(v, i)
  <2>1. table' = Pruned(users') /\ users' = Registered(c)
    BY <1>8 DEF Search, RoomReentry
  <2> QED
    BY <1>1, <1>2, <1>7, <2>1, PruneSeats DEF Keeps
<1>9. ASSUME NEW c \in Uid, GcreReentry(c) \/ GcreUpdate(c) PROVE Keeps(v, i)
  BY <1>0, <1>9 DEF GcreReentry, GcreUpdate, gameVars
<1>10. ASSUME NEW c \in Uid, NEW l \in Limits, GcreNew(c, l) PROVE Keeps(v, i)
  <2>1. CASE c = v
    <3>1. game'[v] = 0 \/ game'[v] = counter
      BY <1>10, <2>1 DEF GcreNew, ToLobby
    <3>2. i < counter
      BY <1>1, LiveBelow DEF IInv
    <3> QED
      BY <1>1, <1>3, <3>1, <3>2, GamesAssumption DEF GameId
  <2>2. CASE c # v
    BY <1>1, <1>10, <2>2, GcreSeats
  <2> QED
    BY <2>1, <2>2
<1>11. ASSUME NEW c \in Uid, NEW j \in GameId, Gjoi(c, j) PROVE Keeps(v, i)
  <2>1. v \in users'
    BY <1>7, <1>11 DEF Gjoi
  <2> QED
    BY <1>1, <1>2, <1>11, <2>1, GjoiSeats
<1>12. ASSUME NEW c \in Uid, Ready(c) PROVE Keeps(v, i)
  BY <1>1, <1>12, ReadySeats
<1>13. ASSUME NEW c \in Uid, Gsta(c) PROVE Keeps(v, i)
  <2>1. v \in users'
    BY <1>7, <1>13 DEF Gsta
  <2> QED
    BY <1>1, <1>2, <1>13, <2>1, GstaSeats
<1>14. ASSUME NEW c \in Uid, Leave(c) PROVE Keeps(v, i)
  <2>1. c # v
    BY <1>3, <1>14 DEF Leave, ToLobby
  <2> QED
    BY <1>0, <1>4, <1>14, <2>1, InGameOK DEF Leave, IInv
<1>15. ASSUME NEW u \in Uid, Periodic(u) PROVE Keeps(v, i)
  <2>1. CASE CleanupDetached(u) /\ InGame(u)
    <3>1. u # v
      BY <1>2, <2>1 DEF CleanupDetached
    <3> QED
      BY <1>4, <2>1, <3>1, InGameOK DEF CleanupDetached, IInv
  <2> QED
    BY <1>0, <1>15, <2>1 DEF Periodic, CleanupDetached, KickInactive, gameVars
<1>16. CASE Admin
  <2>1. ASSUME NEW u \in Uid, AdminKickUser(u) PROVE Keeps(v, i)
    <3>1. u # v
      BY <1>2, <2>1 DEF AdminKickUser
    <3> QED
      BY <1>0, <1>4, <2>1, <3>1, InGameOK DEF AdminKickUser, IInv
  <2>2. ASSUME NEW j \in GameId, NEW u \in Uid, AdminKickFromGame(j, u)
        PROVE  Keeps(v, i)
    <3>1. u # v
      BY <1>2, <1>3, <2>2 DEF AdminKickFromGame, ToLobby
    <3> QED
      BY <1>4, <2>2, <3>1 DEF AdminKickFromGame
  <2>3. ASSUME NEW j \in GameId, AdminCloseGame(j) PROVE Keeps(v, i)
    BY <1>1, <2>3 DEF AdminCloseGame, IInv, GamesInv, TableOK, Keeps
  <2> QED
    BY <1>16, <2>1, <2>2, <2>3 DEF Admin
<1>17. CASE UNCHANGED vars
  BY <1>0, <1>17 DEF vars, gameVars
<1> QED
  BY <1>5, <1>6, <1>8, <1>9, <1>10, <1>11, <1>12, <1>13, <1>14, <1>15, <1>16,
     <1>17 DEF Next, Command, Play

(* No step of anybody takes a connected player's seat and leaves the player *)
(* believing to be in the game. *)
THEOREM SeatsCorrect == Spec => SeatKept
<1>1. IInv /\ [Next]_vars =>
        [\A u \in Uid : Player(u) /\ InGame(u) /\ Seated(u, game[u]) =>
                        SeatStays(u)]_vars
  BY SeatStep
<1> QED
  BY Invariance, <1>1, PTL DEF Spec, SeatKept

(***************************************************************************)
(* Reservations.                                                           *)
(***************************************************************************)
(* Theorem RacerReserved, for the ghost v of a race and a command of c:    *)
(* the handler of v has ended, so c is another user, and the only command  *)
(* that takes v's place is the reattachment that comes for it. *)
LEMMA ReservedStep ==
    ASSUME IInv, NEW v \in Ghosts, InGame(v), Seated(v, game[v]),
           table[game[v]].state = "ACTIVE", NEW c \in Uid, Command(c)
    PROVE  StaysReserved(v)
<1> DEFINE i == game[v]
<1>1. /\ v \in Uid /\ i \in GameId /\ table[i] # NoGame
      /\ v \in Members(table[i]) /\ table[i].state = "ACTIVE"
  BY InGameOK DEF IInv, RegistryInv, Seated, Ghosts
<1>2. v \in users /\ v \in detached /\ v \notin connected
  BY DEF Ghosts
<1>3. v \notin Up
  BY <1>1, <1>2 DEF IInv, RegistryInv, Up
<1>4. c \in Up /\ c # v
  BY <1>3 DEF Command, Identify, Play, Login, Pers, Sele, Search, RoomReentry,
              GcreReentry, GcreUpdate, GcreNew, Gjoi, Ready, Gsta, Leave
<1>5. ASSUME v \in users', Keeps(v, i) PROVE StaysReserved(v)
  BY <1>5 DEF StaysReserved, Keeps
<1>6. users' = Registered(c) => v \in users'
  BY <1>2 DEF Registered
<1>7. table' = table => Keeps(v, i)
  BY <1>1 DEF Keeps
<1>8. CASE Login(c) \/ Sele(c)
  BY <1>5, <1>6, <1>7, <1>8 DEF Login, Sele, gameVars
<1>9. CASE Pers(c)
  <2>1. CASE users' = Registered(c) /\ table' = table
    BY <1>5, <1>6, <1>7, <2>1
  <2>2. ASSUME NEW o \in Ghosts \ {c}, Reattach(c, o), o # v
        PROVE  StaysReserved(v)
    <3>1. v \in users'
      BY <1>2, <2>2 DEF Reattach, Registered
    <3>2. Keeps(v, i)
      BY <1>1, <2>2, ReattachSeats
    <3> QED
      BY <1>5, <3>1, <3>2
  <2>3. CASE Reattach(c, v)
    <3>1. GameOK(table[i])
      BY <1>1, LiveOK DEF IInv, GamesInv
    <3>2. table'[i] = Reseat(table[i], v, c) /\ game'[c] = i
      BY <1>1, <1>4, <2>3 DEF Reattach, IInv, GamesInv, SeatsInv, TableOK
    <3>3. /\ v \notin users'
          /\ v \in racing => c \in racing'
      BY <1>1, <1>4, <2>3 DEF Reattach
    <3>4. /\ Entries(table'[i], v) = {}
          /\ Times(table'[i], c) = Times(table[i], c) + Times(table[i], v)
          /\ \A w \in Uid \ {v, c} :
                Entries(table'[i], w) = Entries(table[i], w)
      BY <1>1, <1>4, <3>1, <3>2, ReseatHands DEF GameOK
    <3>5. /\ v = table[i].host => table'[i].host = c
          /\ v \in table[i].ready => c \in table'[i].ready
      BY <3>1, <3>2 DEF Reseat, GameOK, Game
    <3>6. TakenOver(v, c)
      BY <3>2, <3>3, <3>4, <3>5 DEF TakenOver
    <3> QED
      BY <1>4, <3>6 DEF StaysReserved
  <2> QED
    BY <1>9, <2>1, <2>2, <2>3 DEF Pers
<1>10. CASE Search(c) \/ RoomReentry(c)
  <2>1. table'[i] = table[i] /\ users' = Registered(c)
    BY <1>1, <1>10, PruneKeepsRaces DEF Search, RoomReentry
  <2> QED
    BY <1>1, <1>5, <1>6, <2>1 DEF Keeps
<1>11. CASE GcreReentry(c) \/ GcreUpdate(c)
  BY <1>5, <1>6, <1>7, <1>11 DEF GcreReentry, GcreUpdate, gameVars
<1>12. ASSUME NEW l \in Limits, GcreNew(c, l) PROVE StaysReserved(v)
  <2>1. Keeps(v, i)
    BY <1>1, <1>4, <1>12, GcreSeats
  <2> QED
    BY <1>5, <1>6, <1>12, <2>1 DEF GcreNew
<1>13. ASSUME NEW j \in GameId, Gjoi(c, j) PROVE StaysReserved(v)
  <2>1. Keeps(v, i)
    BY <1>1, <1>13, GjoiSeats
  <2> QED
    BY <1>5, <1>6, <1>13, <2>1 DEF Gjoi
<1>14. CASE Ready(c)
  <2>1. Keeps(v, i)
    BY <1>1, <1>14, ReadySeats
  <2> QED
    BY <1>5, <1>6, <1>14, <2>1 DEF Ready
<1>15. CASE Gsta(c)
  <2>1. Keeps(v, i)
    BY <1>1, <1>15, GstaSeats
  <2> QED
    BY <1>5, <1>6, <1>15, <2>1 DEF Gsta
<1>16. CASE Leave(c)
  <2>1. CASE InGame(c)
    <3>1. /\ game[c] \in GameId /\ table[game[c]] # NoGame
          /\ table' = AfterLeave(table, game[c], c)
      BY <1>16, <2>1, InGameOK DEF Leave, IInv
    <3>2. Keeps(v, i)
      BY <1>1, <1>4, <3>1, LeaveSeats DEF Keeps
    <3> QED
      BY <1>5, <1>6, <1>16, <3>2 DEF Leave
  <2>2. CASE ~InGame(c)
    BY <1>5, <1>6, <1>7, <1>16, <2>2 DEF Leave
  <2> QED
    BY <2>1, <2>2
<1> QED
  BY <1>8, <1>9, <1>10, <1>11, <1>12, <1>13, <1>14, <1>15, <1>16
     DEF Command, Identify, Play

(* The place of a racer who has lost the connection survives every command *)
(* of the others. *)
THEOREM ReservationsCorrect == Spec => RacerReserved
<1>1. IInv /\ [Next]_vars =>
        [\A u \in Ghosts :
           /\ InGame(u) /\ Seated(u, game[u]) /\ table[game[u]].state = "ACTIVE"
           /\ \E c \in Uid : Command(c)
           => StaysReserved(u)]_vars
  BY ReservedStep
<1> QED
  BY Invariance, <1>1, PTL DEF Spec, RacerReserved

-----------------------------------------------------------------------------
(***************************************************************************)
(* Racers.                                                                 *)
(***************************************************************************)
(* A user who is marked as racing and has a connection is registered and   *)
(* in a game; the game that a registered one is in is a race with a seat   *)
(* of theirs.                                                              *)
Rides(v) == table[game[v]].state = "ACTIVE" /\ v \in Members(table[game[v]])

RaceOK(v) ==
    v \in racing =>
        /\ conn[v] # "new"
        /\ v \in Up => v \in users /\ InGame(v)
        /\ v \in users /\ InGame(v) => Rides(v)

RaceInv == \A v \in Uid : RaceOK(v)

(* There is a slot in the registry for everyone who has a connection. *)
RoomForAll == UsersFull => Up \subseteq users

(* Connections come and go; only they register, and what takes a user out  *)
(* of the registry finds no connection or ends it.                         *)
LEMMA RegistryMoves ==
    ASSUME IInv, [Next]_vars, NEW v \in Uid
    PROVE  /\ conn'[v] \in {conn[v], "gone"} \/ (conn[v] = "new" /\ conn'[v] = "up")
           /\ v \in users' => v \in users \/ v \in Up
           /\ v \in users /\ conn'[v] = "up" => v \in users'
<1> DEFINE Goal ==
           /\ conn'[v] \in {conn[v], "gone"} \/ (conn[v] = "new" /\ conn'[v] = "up")
           /\ v \in users' => v \in users \/ v \in Up
           /\ v \in users /\ conn'[v] = "up" => v \in users'
<1>0. RegistryInv
  BY DEF IInv
<1>1. ASSUME NEW c \in Up, users' = Registered(c), conn' = conn PROVE Goal
  BY <1>1 DEF Registered
<1>2. ASSUME users' = users, conn' = conn PROVE Goal
  BY <1>2
<1>3. ASSUME NEW d \in Uid, conn[d] # "up", users' = users \ {d}, conn' = conn PROVE Goal
  BY <1>3
<1>4. ASSUME NEW c \in Uid, Connect(c) PROVE Goal
  BY <1>0, <1>4 DEF Connect, RegistryInv
<1>5. ASSUME NEW c \in Uid, Disconnect(c) PROVE Goal
  BY <1>2, <1>5 DEF Disconnect
<1>6. ASSUME NEW c \in Uid, Close(c) PROVE Goal
  <2>1. conn' = [conn EXCEPT ![c] = "gone"] /\ users' \in {users, users \ {c}}
    BY <1>6 DEF Close
  <2> QED
    BY <1>0, <2>1 DEF RegistryInv
<1>7. ASSUME NEW c \in Uid, Pers(c) PROVE Goal
  <2>1. CASE users' = Registered(c)
    BY <1>1, <1>7, <2>1 DEF Pers
  <2>2. ASSUME NEW o \in Ghosts \ {c}, Reattach(c, o) PROVE Goal
    <3>1. conn[o] # "up" /\ c \in Up /\ conn' = conn
      BY <1>0, <1>7 DEF Ghosts, RegistryInv, Pers
    <3>2. users' = Registered(c) \ {o}
      BY <2>2 DEF Reattach
    <3> QED
      BY <3>1, <3>2 DEF Registered
  <2> QED
    BY <1>7, <2>1, <2>2 DEF Pers
<1>8. ASSUME NEW c \in Uid, Login(c) \/ Sele(c) \/ Play(c) PROVE Goal
  <2>1. c \in Up /\ users' = Registered(c) /\ conn' = conn
    BY <1>8 DEF Login, Sele, Play, Search, RoomReentry, GcreReentry, GcreUpdate,
                GcreNew, Gjoi, Ready, Gsta, Leave, tcpVars
  <2> QED
    BY <1>1, <2>1
<1>9. ASSUME NEW u \in Uid, Periodic(u) PROVE Goal
  <2>1. conn[u] # "up" /\ users' = users \ {u} /\ conn' = conn
    BY <1>0, <1>9 DEF Periodic, CleanupDetached, KickInactive, Ghosts, RegistryInv, tcpVars
  <2> QED
    BY <1>3, <2>1
<1>10. ASSUME NEW u \in Uid, AdminKickUser(u) PROVE Goal
  <2>1. conn[u] # "up" /\ users' = users \ {u} /\ conn' = conn
    BY <1>10 DEF AdminKickUser, Up, tcpVars
  <2> QED
    BY <1>3, <2>1
<1>11. ASSUME \/ \E i \in GameId : AdminCloseGame(i)
              \/ \E i \in GameId, u \in Uid : AdminKickFromGame(i, u)
       PROVE  Goal
  BY <1>2, <1>11 DEF AdminCloseGame, AdminKickFromGame, tcpVars
<1>12. CASE UNCHANGED vars
  BY <1>2, <1>12 DEF vars, tcpVars
<1> QED
  BY <1>4, <1>5, <1>6, <1>7, <1>8, <1>9, <1>10, <1>11, <1>12
     DEF Next, Tcp, Command, Identify, Admin

(* Who races on keeps the race, and a place in it.                         *)
Carries(v) ==
    LET i == game[v]
    IN  /\ game'[v] = i
        /\ InGame(v) => /\ table'[i] # NoGame
                        /\ table'[i].state = "ACTIVE"
                        /\ v \in Members(table'[i])

LEMMA StillRacing ==
    ASSUME IInv, [Next]_vars, NEW v \in Uid, RaceOK(v), v \in racing,
           v \in users /\ v \in users' => Carries(v)
    PROVE  RaceOK(v)'
<1>1. /\ conn'[v] \in {conn[v], "gone"} \/ (conn[v] = "new" /\ conn'[v] = "up")
      /\ v \in users' => v \in users \/ v \in Up
      /\ v \in users /\ conn'[v] = "up" => v \in users'
  BY RegistryMoves
<1>2. conn[v] # "new" /\ (v \in Up => v \in users /\ InGame(v))
  BY DEF RaceOK
<1>3. conn'[v] # "new"
  BY <1>1, <1>2
<1>4. v \in Up' => v \in users' /\ InGame(v)'
  <2> SUFFICES ASSUME v \in Up' PROVE v \in users' /\ InGame(v)'
    OBVIOUS
  <2>1. conn'[v] = "up" /\ v \in Up
    BY <1>1, <1>2 DEF Up
  <2>2. v \in users /\ v \in users' /\ InGame(v)
    BY <1>1, <1>2, <2>1
  <2> QED
    BY <2>2 DEF Carries, InGame
<1>5. v \in users' /\ InGame(v)' => Rides(v)'
  <2> SUFFICES ASSUME v \in users', InGame(v)' PROVE Rides(v)'
    OBVIOUS
  <2>1. v \in users /\ Carries(v)
    BY <1>1, <1>2
  <2>2. game'[v] = game[v]
    BY <2>1 DEF Carries
  <2>3. InGame(v)
    <3>1. game[v] \in GameId /\ table'[game[v]] # NoGame
      BY <2>2 DEF InGame, IInv, SeatsInv
    <3>2. game[v] \in Live(table) \union {counter}
      BY <3>1, GamesStep DEF GamesNext, Live
    <3>3. game[v] # counter
      BY GamesAssumption DEF IInv, SeatsInv, GamesInv, GameId
    <3> QED
      BY <3>1, <3>2, <3>3, GamesAssumption DEF Live, InGame, GameId
  <2> QED
    BY <2>1, <2>2, <2>3 DEF Carries, Rides
<1> QED
  BY <1>3, <1>4, <1>5 DEF RaceOK

(* Where nothing happens to the games.                                     *)
LEMMA SameGames ==
    ASSUME RaceInv, NEW v \in Uid, v \in racing, v \in users,
           table' = table, game'[v] = game[v]
    PROVE  Carries(v)
  BY DEF RaceInv, RaceOK, Rides, Carries, InGame

(* A departure ends the race of nobody who is not told.                    *)
LEMMA DepartureCarries ==
    ASSUME IInv, RaceInv, NEW j \in GameId, table[j] # NoGame, NEW d,
           table' = AfterLeave(table, j, d),
           NEW v \in Uid, v \in racing, v \in users, v # d, game'[v] = game[v],
           NEW us, v \in us, v \notin Evicted(j, d, us)
    PROVE  Carries(v)
<1> DEFINE i == game[v]
<1>1. TableOK(table)
  BY DEF IInv, GamesInv
<1>2. CASE ~InGame(v)
  BY <1>2 DEF Carries
<1>3. CASE InGame(v) /\ i # j
  <2>1. i \in GameId
    BY <1>3, InGameOK DEF IInv
  <2>2. table'[i] = table[i]
    BY <1>1, <1>3, <2>1, AfterLeaveKeeps
  <2> QED
    BY <1>3, <2>2 DEF RaceInv, RaceOK, Rides, Carries, InGame
<1>4. CASE InGame(v) /\ i = j
  <2>1. GameOK(table[j]) /\ v \in Members(table[j]) /\ table[j].state = "ACTIVE"
    BY <1>1, <1>4, LiveOK DEF RaceInv, RaceOK, Rides
  <2>2. v \in Members(RemovePlayer(table[j], d))
    BY <2>1, RemoveKeeps
  <2>3. ~Removes(table[j], d)
    BY <2>2 DEF Evicted
  <2>4. table'[j] = RemovePlayer(table[j], d)
    BY <1>1, <2>3 DEF AfterLeave, TableOK
  <2>5. RemovePlayer(table[j], d) \in Game /\ RemovePlayer(table[j], d).state = "ACTIVE"
    BY <2>1 DEF RemovePlayer, GameOK, Game
  <2> QED
    BY <1>4, <2>2, <2>4, <2>5, NoGameAssumption DEF Carries
<1> QED
  BY <1>2, <1>3, <1>4

(* gcre by a guest ends no race.                                           *)
LEMMA GcreCarries ==
    ASSUME IInv, RaceInv, NEW c \in Uid, NEW l \in Limits, GcreNew(c, l),
           NEW v \in Uid, v \in racing, v \in racing', v \in users
    PROVE  Carries(v)
<1> DEFINE left == IF InGame(c) THEN AfterLeave(table, game[c], c) ELSE table
           g == AddPlayer(NewGame(c, l), c)
<1>1. v # c /\ game'[v] = game[v]
  <2> DEFINE cleared == IF InGame(c)
                          THEN (IF table[game[c]].state = "OPEN"
                                  THEN Evicted(game[c], c, users') ELSE {}) \union {c}
                          ELSE {}
  <2>1. \/ ToLobby(cleared)
        \/ /\ game' = [u \in Uid |-> IF u = c THEN counter
                                      ELSE IF u \in cleared THEN 0 ELSE game[u]]
           /\ racing' = racing \ (cleared \union {c})
    BY DEF GcreNew
  <2>2. v = c => c \in cleared
    BY DEF GcreNew, RaceInv, RaceOK
  <2> HIDE DEF cleared
  <2>3. v \notin cleared
    BY <2>1 DEF ToLobby
  <2> QED
    BY <2>1, <2>2, <2>3 DEF ToLobby
<1>2. CASE ~InGame(v)
  BY <1>1, <1>2 DEF Carries
<1>3. CASE InGame(v)
  <2> DEFINE i == game[v]
  <2>1. i \in GameId /\ table[i] # NoGame /\ GameOK(table[i]) /\ i # counter
    BY <1>3, InGameOK, GamesAssumption DEF IInv, GameId
  <2>2. v \in Members(table[i]) /\ table[i].state = "ACTIVE"
    BY <1>3 DEF RaceInv, RaceOK, Rides
  <2>3. left[i] # NoGame /\ left[i].state = "ACTIVE" /\ v \in Members(left[i])
    <3>1. CASE ~InGame(c) \/ game[c] # i
      <4>1. left[i] = table[i]
        BY <2>1, <3>1, InGameOK, AfterLeaveKeeps DEF IInv, GamesInv
      <4> QED
        BY <2>1, <2>2, <4>1
    <3>2. CASE InGame(c) /\ game[c] = i
      <4>1. c # table[i].host
        BY <3>2 DEF GcreNew
      <4>2. ~Removes(table[i], c)
        BY <2>1, <4>1, RemovesIsHost
      <4>3. left[i] = RemovePlayer(table[i], c)
        BY <2>1, <3>2, <4>2 DEF AfterLeave, IInv, GamesInv, TableOK
      <4>4. RemovePlayer(table[i], c) \in Game /\ RemovePlayer(table[i], c).state = "ACTIVE"
        BY <2>1, <2>2 DEF RemovePlayer, GameOK, Game
      <4>5. v \in Members(RemovePlayer(table[i], c))
        BY <1>1, <2>1, <2>2, RemoveKeeps
      <4> QED
        BY <4>3, <4>4, <4>5, NoGameAssumption
    <3> QED
      BY <3>1, <3>2
  <2>4. TableOK(left)
    BY LeftOK DEF IInv
  <2>5. table' = left \/ table' = [left EXCEPT ![counter] = g]
    BY DEF GcreNew
  <2> HIDE DEF left, g
  <2>6. table'[i] = left[i]
    BY <2>1, <2>4, <2>5 DEF TableOK
  <2> QED
    BY <1>1, <2>3, <2>6 DEF Carries
<1> QED
  BY <1>2, <1>3

(* Pruning ends no race.                                                   *)
LEMMA PruneCarries ==
    ASSUME IInv, RaceInv, NEW us,
           NEW v \in Uid, v \in racing, v \in users, InGame(v)
    PROVE  /\ Pruned(us)[game[v]] = table[game[v]]
           /\ table[game[v]] # NoGame /\ table[game[v]].state = "ACTIVE"
           /\ v \in Members(table[game[v]])
<1>1. game[v] \in GameId /\ table[game[v]] # NoGame
  BY InGameOK DEF IInv
<1>2. table[game[v]].state = "ACTIVE" /\ v \in Members(table[game[v]])
  BY DEF RaceInv, RaceOK, Rides
<1> QED
  BY <1>1, <1>2, PruneKeepsRaces

LEMMA GjoiCarries ==
    ASSUME IInv, RaceInv, NEW c \in Uid, NEW j \in GameId, Gjoi(c, j),
           NEW v \in Uid, v \in racing, v \in users, game'[v] = game[v]
    PROVE  Carries(v)
<1> DEFINE i == game[v]
           t == Pruned(users')
           g == AddPlayer(t[j], c)
           R == Members(g) \intersect users'
<1>1. CASE ~InGame(v)
  BY <1>1 DEF Carries
<1>2. CASE InGame(v)
  <2>1. /\ t[i] = table[i] /\ table[i] # NoGame /\ table[i].state = "ACTIVE"
        /\ v \in Members(table[i]) /\ i \in GameId
    BY <1>2, PruneCarries, InGameOK DEF IInv
  <2>2. t[j].state = "OPEN"
    BY DEF Gjoi
  <2>3. \/ table' = t
        \/ table' = [t EXCEPT ![j] = g]
        \/ table' = [t EXCEPT ![j] = [g EXCEPT !.ready = @ \union R]]
    BY DEF Gjoi
  <2>4. TableOK(t)
    BY PrunedOK DEF IInv, GamesInv
  <2> HIDE DEF t, g, R
  <2>5. i # j
    BY <2>1, <2>2
  <2>6. table'[i] = t[i]
    BY <2>1, <2>3, <2>4, <2>5 DEF TableOK
  <2> QED
    BY <2>1, <2>6 DEF Carries
<1> QED
  BY <1>1, <1>2

(* gsta: all whom it marks are registered and have a seat in the race.     *)
LEMMA GstaRaces ==
    ASSUME IInv, RaceInv, NEW c \in Uid, Gsta(c), [Next]_vars, NEW v \in Uid
    PROVE  RaceOK(v)'
<1> DEFINE t == IF InGame(c) THEN table ELSE Pruned(users')
<1>1. PICK j \in GameId :
         /\ t[j] # NoGame
         /\ table' = [t EXCEPT ![j] = Start(@)]
         /\ ToRace((Members(t[j]) \union {t[j].host}) \intersect users', j)
  BY DEF Gsta
<1>2. TableOK(t)
  BY PrunedOK DEF IInv, GamesInv
<1> DEFINE S == (Members(t[j]) \union {t[j].host}) \intersect users'
<1>3. GameOK(t[j])
  BY <1>1, <1>2, LiveOK
<1>4. Members(Start(t[j])) = Members(t[j]) /\ Start(t[j]) \in Game /\ Start(t[j]).state = "ACTIVE"
  BY <1>3 DEF Start, Members, GameOK, Game
<1>5. \A i \in GameId : table'[i] = IF i = j THEN Start(t[j]) ELSE t[i]
  BY <1>1, <1>2 DEF TableOK
<1>6. conn' = conn /\ c \in Up /\ users' = Registered(c)
  BY DEF Gsta, tcpVars
<1>7. CASE v \in S
  <2>1. game'[v] = j /\ v \in users'
    BY <1>1, <1>7 DEF ToRace
  <2>2. v \in Members(table'[j]) /\ table'[j] # NoGame /\ table'[j].state = "ACTIVE"
    BY <1>3, <1>4, <1>5, <1>7, NoGameAssumption DEF GameOK
  <2>3. conn'[v] # "new"
    <3>1. v \in Up \/ v \in detached
      BY <1>6, <2>1, RegisteredOK DEF IInv
    <3> QED
      BY <1>6, <3>1 DEF Up, IInv, RegistryInv
  <2>4. j # 0
    BY DEF GameId
  <2> QED
    BY <2>1, <2>2, <2>3, <2>4 DEF RaceOK, InGame, Rides
<1>8. CASE v \notin S /\ v \in racing
  <2>1. game'[v] = game[v]
    BY <1>1, <1>8 DEF ToRace
  <2>2. ASSUME v \in users, InGame(v)
        PROVE  /\ table'[game[v]] # NoGame /\ table'[game[v]].state = "ACTIVE"
               /\ v \in Members(table'[game[v]])
    <3>1. /\ t[game[v]] = table[game[v]] /\ table[game[v]] # NoGame /\ game[v] \in GameId
          /\ table[game[v]].state = "ACTIVE" /\ v \in Members(table[game[v]])
      BY <1>8, <2>2, PruneCarries, InGameOK DEF IInv
    <3> HIDE DEF t
    <3>2. CASE game[v] = j
      BY <1>4, <1>5, <3>1, <3>2, NoGameAssumption
    <3>3. CASE game[v] # j
      BY <1>5, <3>1, <3>3
    <3> QED
      BY <3>2, <3>3
  <2>3. v \in users => Carries(v)
    BY <2>1, <2>2 DEF Carries
  <2> QED
    BY <1>8, <2>3, StillRacing DEF RaceInv
<1>9. CASE v \notin S /\ v \notin racing
  <2>1. v \notin racing'
    BY <1>1, <1>9 DEF ToRace
  <2> QED
    BY <2>1 DEF RaceOK
<1> QED
  BY <1>7, <1>8, <1>9

(* A returning racer has the seat and the race of the ghost, and is        *)
(* registered if there is a slot.                                          *)
LEMMA ReattachRaces ==
    ASSUME IInv, RaceInv, NEW c \in Uid, Pers(c), NEW o \in Ghosts \ {c}, Reattach(c, o),
           RoomForAll, [Next]_vars, NEW v \in Uid
    PROVE  RaceOK(v)'
<1>1. /\ o \in Uid /\ o \in users /\ o # c /\ c \in Up /\ conn' = conn
      /\ users' = (users \union {c}) \ {o}
  BY DEF Ghosts, IInv, RegistryInv, Pers, Reattach, Registered, RoomForAll
<1>2. CASE InGame(o)
  <2>1. /\ table' = [table EXCEPT ![game[o]] = Reseat(@, o, c)]
        /\ game' = [game EXCEPT ![c] = game[o], ![o] = 0]
        /\ racing' = IF o \in racing THEN racing \union {c} ELSE racing \ {c}
    BY <1>2 DEF Reattach
  <2>2. game[o] \in GameId /\ GameOK(table[game[o]]) /\ table[game[o]] # NoGame
    BY <1>1, <1>2, InGameOK DEF IInv
  <2> DEFINE g == table[game[o]]
             h == Reseat(g, o, c)
  <2>3. /\ Members(g) \ {o} \subseteq Members(h)
        /\ o \in Members(g) => c \in Members(h)
    BY <1>1, <2>2, ReseatKeeps
  <2>4. h.state = g.state /\ GameOK(h)
    <3>1. h.state = g.state
      BY <2>2 DEF Reseat, GameOK, Game
    <3> QED
      BY <1>1, <2>2, <3>1, ReseatOK
  <2>5. \A i \in GameId : table'[i] = IF i = game[o] THEN h ELSE table[i]
    BY <2>1, <2>2 DEF IInv, GamesInv, TableOK
  <2>6. \A u \in Uid : game'[u] = IF u = o THEN 0 ELSE IF u = c THEN game[o] ELSE game[u]
    BY <1>1, <2>1 DEF IInv, SeatsInv
  <2> HIDE DEF g, h
  <2>7. h # NoGame
    BY <2>4, NoGameAssumption DEF GameOK
  <2>8. CASE v = c
    <3> SUFFICES ASSUME c \in racing' PROVE RaceOK(c)'
      BY <2>8 DEF RaceOK
    <3>1. o \in racing
      BY <2>1
    <3>2. g.state = "ACTIVE" /\ o \in Members(g)
      BY <1>1, <1>2, <3>1 DEF RaceInv, RaceOK, Rides, g
    <3>3. game'[c] = game[o] /\ table'[game[o]] = h /\ game[o] # 0
      BY <1>1, <2>2, <2>5, <2>6 DEF GameId
    <3>4. InGame(c)' /\ Rides(c)'
      BY <2>3, <2>4, <2>7, <3>2, <3>3 DEF InGame, Rides
    <3>5. c \in users' /\ conn'[c] # "new"
      BY <1>1 DEF Up
    <3> QED
      BY <3>4, <3>5 DEF RaceOK
  <2>9. CASE v = o
    <3>1. conn[o] = "gone" /\ v \notin users'
      BY <1>1, <2>9 DEF Ghosts, IInv, RegistryInv
    <3> QED
      BY <1>1, <2>9, <3>1 DEF RaceOK, Up
  <2>10. CASE v # o /\ v # c /\ v \in racing
    <3>1. v \in users => Carries(v)
      <4> SUFFICES ASSUME v \in users PROVE Carries(v)
        OBVIOUS
      <4>1. game'[v] = game[v]
        BY <2>6, <2>10
      <4>2. CASE ~InGame(v)
        BY <4>1, <4>2 DEF Carries
      <4>3. CASE InGame(v)
        <5>1. /\ table[game[v]].state = "ACTIVE" /\ v \in Members(table[game[v]])
              /\ game[v] \in GameId /\ table[game[v]] # NoGame
          BY <2>10, <4>3, InGameOK DEF RaceInv, RaceOK, Rides, IInv
        <5>2. CASE game[v] = game[o]
          <6>1. table'[game[v]] = h /\ g = table[game[v]]
            BY <2>5, <5>1, <5>2 DEF g
          <6>2. v \in Members(h) /\ h.state = "ACTIVE"
            BY <2>3, <2>4, <2>10, <5>1, <6>1
          <6> QED
            BY <2>7, <4>1, <6>1, <6>2 DEF Carries
        <5>3. CASE game[v] # game[o]
          BY <2>5, <4>1, <5>1, <5>3 DEF Carries
        <5> QED
          BY <5>2, <5>3
      <4> QED
        BY <4>2, <4>3
    <3> QED
      BY <2>10, <3>1, StillRacing DEF RaceInv
  <2>11. CASE v # o /\ v # c /\ v \notin racing
    BY <2>1, <2>11 DEF RaceOK
  <2> QED
    BY <2>8, <2>9, <2>10, <2>11
<1>3. CASE ~InGame(o)
  <2>1. game' = [game EXCEPT ![o] = 0] /\ table' = table /\ racing' = racing
    BY <1>3 DEF Reattach
  <2>2. CASE v \in racing
    <3>1. v \in users /\ v \in users' => Carries(v)
      <4>1. v # o => game'[v] = game[v]
        BY <1>1, <2>1 DEF IInv, SeatsInv
      <4> QED
        BY <1>1, <2>1, <2>2, <4>1, SameGames
    <3> QED
      BY <2>2, <3>1, StillRacing DEF RaceInv
  <2>3. CASE v \notin racing
    BY <2>1, <2>3 DEF RaceOK
  <2> QED
    BY <2>2, <2>3
<1> QED
  BY <1>2, <1>3

(* The operations that take user u out of game j: u, and whom the departure *)
(* evicts, race no more; with nobody connected nobody is told, and those    *)
(* who still count as racing have no connection and no game.                *)
LEMMA DepartureRaces ==
    ASSUME IInv, RaceInv, [Next]_vars, NEW j \in GameId, table[j] # NoGame, NEW d,
           table' = AfterLeave(table, j, d),
           NEW v \in Uid, v \in racing, v \in racing',
           v \in users /\ v \in users' => v # d /\ game'[v] = game[v],
           NEW us, us = users \/ us = users',
           v \notin Evicted(j, d, us) \/ Up = {}, conn' = conn \/ v \notin Evicted(j, d, us)
    PROVE  RaceOK(v)'
<1>1. CASE v \notin Evicted(j, d, us)
  <2>1. v \in users /\ v \in users' => Carries(v)
    BY <1>1, DepartureCarries
  <2> QED
    BY <2>1, StillRacing DEF RaceInv
<1>2. CASE v \in Evicted(j, d, us) /\ Up = {} /\ conn' = conn
  <2>1. conn[v] # "new" /\ v \notin Up'
    BY <1>2 DEF RaceInv, RaceOK, Up
  <2>2. ASSUME v \in users', InGame(v)' PROVE Rides(v)'
    <3>1. v \in users
      BY <1>2, <2>2, RegistryMoves
    <3>2. v # d /\ game'[v] = game[v]
      BY <2>2, <3>1
    <3>3. Removes(table[j], d)
      BY <1>2 DEF Evicted
    <3>4. TableOK(table)
      BY DEF IInv, GamesInv
    <3>5. table'[j] = NoGame
      BY <3>3, <3>4 DEF AfterLeave, TableOK
    <3>6. game[v] # j /\ game[v] \in GameId
      BY <2>2, <3>2, <3>5 DEF InGame, IInv, SeatsInv
    <3>7. table'[game[v]] = table[game[v]]
      BY <3>4, <3>6, AfterLeaveKeeps
    <3>8. InGame(v)
      BY <2>2, <3>2, <3>7 DEF InGame
    <3> QED
      BY <3>1, <3>2, <3>7, <3>8 DEF RaceInv, RaceOK, Rides
  <2> QED
    BY <1>2, <2>1, <2>2 DEF RaceOK
<1> QED
  BY <1>1, <1>2

(* The inductive step, with a slot for everyone and gjoi as it is shipped.  *)
LEMMA RaceStep ==
    ASSUME IInv, RaceInv, RoomForAll, ~ForceReady, [Next]_vars, NEW v \in Uid
    PROVE  RaceOK(v)'
<1>0. CASE v \notin racing'
  BY <1>0 DEF RaceOK
<1> DEFINE Goal == RaceOK(v)'
<1>1. ASSUME v \in racing, table' = table, game' = game PROVE Goal
  <2>1. v \in users => Carries(v)
    BY <1>1, SameGames
  <2> QED
    BY <1>1, <2>1, StillRacing DEF RaceInv
<1>2. ASSUME v \in racing, NEW us, table' = Pruned(us), game' = game PROVE Goal
  <2>1. v \in users => Carries(v)
    BY <1>2, PruneCarries DEF Carries
  <2> QED
    BY <1>2, <2>1, StillRacing DEF RaceInv
<1> SUFFICES ASSUME v \in racing' PROVE Goal
  BY <1>0
<1> HIDE DEF Goal
<1>3. ASSUME NEW c \in Uid, Tcp(c) PROVE Goal
  <2>1. CASE table' = table /\ UNCHANGED seatVars
    BY <1>1, <2>1 DEF seatVars
  <2>2. CASE /\ Close(c)
             /\ InGame(c)
             /\ table' = AfterLeave(table, game[c], c)
             /\ ToLobby({c} \union Evicted(game[c], c, users))
             /\ users' = users \ {c}
    <3>1. /\ v \in racing /\ v # c /\ game'[v] = game[v]
          /\ v \notin Evicted(game[c], c, users)
      BY <2>2 DEF ToLobby
    <3> QED
      BY <2>2, <3>1, InGameOK, DepartureRaces DEF IInv, Goal
  <2> QED
    BY <1>3, <2>1, <2>2 DEF Tcp, Connect, Disconnect, Close, gameVars
<1>4. ASSUME NEW c \in Uid, Identify(c) PROVE Goal
  <2>1. ASSUME Pers(c), NEW o \in Ghosts \ {c}, Reattach(c, o) PROVE Goal
    BY <2>1, ReattachRaces DEF Goal
  <2>2. CASE table' = table /\ UNCHANGED seatVars
    BY <1>1, <2>2 DEF seatVars
  <2> QED
    BY <1>4, <2>1, <2>2 DEF Identify, Login, Pers, Sele, gameVars
<1>5. ASSUME NEW c \in Uid, Search(c) \/ RoomReentry(c) PROVE Goal
  <2>1. table' = Pruned(users') /\ game' = game /\ v \in racing
    BY <1>5 DEF Search, RoomReentry, seatVars
  <2> QED
    BY <1>2, <2>1
<1>6. ASSUME NEW c \in Uid, GcreReentry(c) \/ GcreUpdate(c) PROVE Goal
  <2>1. table' = table /\ game' = game /\ v \in racing
    BY <1>6 DEF GcreReentry, GcreUpdate, seatVars, gameVars
  <2> QED
    BY <1>1, <2>1
<1>7. ASSUME NEW c \in Uid, NEW l \in Limits, GcreNew(c, l) PROVE Goal
  <2>1. v \in racing
    BY <1>7 DEF GcreNew, ToLobby
  <2>2. v \in users => Carries(v)
    BY <1>7, <2>1, GcreCarries
  <2> QED
    BY <2>1, <2>2, StillRacing DEF RaceInv, Goal
<1>8. ASSUME NEW c \in Uid, NEW j \in GameId, Gjoi(c, j) PROVE Goal
  <2>1. v \in racing /\ game'[v] = game[v]
    BY <1>8 DEF Gjoi, ToRoom, seatVars
  <2>2. v \in users => Carries(v)
    BY <1>8, <2>1, GjoiCarries
  <2> QED
    BY <2>1, <2>2, StillRacing DEF RaceInv, Goal
<1>9. ASSUME NEW c \in Uid, Ready(c) PROVE Goal
  <2>1. v \in racing /\ game' = game
    BY <1>9 DEF Ready, seatVars
  <2>2. ASSUME v \in users, InGame(v) PROVE Carries(v)
    <3>1. /\ game[v] \in GameId /\ GameOK(table[game[v]])
          /\ table[game[v]].state = "ACTIVE" /\ v \in Members(table[game[v]])
      BY <2>1, <2>2, InGameOK DEF RaceInv, RaceOK, Rides, IInv
    <3>2. game[c] \in GameId /\ table' = [table EXCEPT ![game[c]] = SetReady(@, c)]
      BY <1>9, InGameOK DEF Ready, IInv
    <3>3. table'[game[v]] = table[game[v]] \/ table'[game[v]] = SetReady(table[game[v]], c)
      BY <3>1, <3>2 DEF IInv, GamesInv, TableOK
    <3>4. /\ Members(SetReady(table[game[v]], c)) = Members(table[game[v]])
          /\ SetReady(table[game[v]], c).state = table[game[v]].state
          /\ SetReady(table[game[v]], c) \in Game
      BY <1>9, <3>1 DEF SetReady, Members, GameOK, Game
    <3> QED
      BY <2>1, <3>1, <3>3, <3>4, NoGameAssumption DEF Carries, GameOK
  <2>3. v \in users => Carries(v)
    BY <2>1, <2>2 DEF Carries
  <2> QED
    BY <2>1, <2>3, StillRacing DEF RaceInv, Goal
<1>10. ASSUME NEW c \in Uid, Gsta(c) PROVE Goal
  BY <1>10, GstaRaces DEF Goal
<1>11. ASSUME NEW c \in Uid, Leave(c) PROVE Goal
  <2>1. CASE InGame(c)
    <3>1. /\ v \in racing /\ v # c /\ game'[v] = game[v]
          /\ v \notin Evicted(game[c], c, users')
      BY <1>11, <2>1 DEF Leave, ToLobby
    <3> QED
      BY <1>11, <2>1, <3>1, InGameOK, DepartureRaces DEF IInv, Leave, Goal
  <2>2. CASE ~InGame(c)
    <3>1. v \in racing /\ table' = table /\ game'[v] = game[v]
      BY <1>11, <2>2 DEF Leave, ToLobby
    <3>2. v \in users => Carries(v)
      BY <3>1, SameGames
    <3> QED
      BY <3>1, <3>2, StillRacing DEF RaceInv, Goal
  <2> QED
    BY <2>1, <2>2
<1>12. ASSUME NEW u \in Uid, Periodic(u) PROVE Goal
  <2>1. CASE CleanupDetached(u) /\ InGame(u)
    <3> DEFINE out == IF Up = {} THEN {} ELSE Evicted(game[u], u, users')
    <3>1. /\ game' = [w \in Uid |-> IF w \in out \union {u} THEN 0 ELSE game[w]]
          /\ racing' = racing \ out
          /\ users' = users \ {u}
          /\ conn' = conn
          /\ table' = AfterLeave(table, game[u], u)
      BY <2>1 DEF CleanupDetached, tcpVars
    <3>2. v \in racing /\ v \notin out
      BY <3>1
    <3>3. v \in users /\ v \in users' => v # u /\ game'[v] = game[v]
      BY <3>1, <3>2
    <3>4. v \notin Evicted(game[u], u, users') \/ Up = {}
      BY <3>2
    <3> HIDE DEF out
    <3> QED
      BY <2>1, <3>1, <3>2, <3>3, <3>4, InGameOK, DepartureRaces DEF IInv, Goal
  <2>2. CASE table' = table /\ UNCHANGED seatVars
    BY <1>1, <2>2 DEF seatVars
  <2> QED
    BY <1>12, <2>1, <2>2 DEF Periodic, CleanupDetached, KickInactive, gameVars
<1>13. ASSUME NEW u \in Uid, AdminKickUser(u) PROVE Goal
  <2>1. CASE InGame(u)
    <3>1. /\ ToLobby(IF Up = {} THEN {} ELSE Evicted(game[u], u, users))
          /\ users' = users \ {u}
          /\ conn' = conn
          /\ table' = AfterLeave(table, game[u], u)
      BY <1>13, <2>1 DEF AdminKickUser, tcpVars
    <3>2. /\ v \in racing /\ game'[v] = game[v]
          /\ v \notin Evicted(game[u], u, users) \/ Up = {}
      BY <3>1 DEF ToLobby
    <3>3. v \in users' => v # u
      BY <3>1
    <3> QED
      BY <2>1, <3>1, <3>2, <3>3, InGameOK, DepartureRaces DEF IInv, Goal
  <2>2. CASE ~InGame(u)
    BY <1>1, <1>13, <2>2 DEF AdminKickUser, seatVars
  <2> QED
    BY <2>1, <2>2
<1>14. ASSUME NEW j \in GameId, NEW u \in Uid, AdminKickFromGame(j, u) PROVE Goal
  <2>1. /\ ToLobby(({u} \intersect users) \union
                    (IF Up = {} THEN {} ELSE Evicted(j, u, users)))
        /\ conn' = conn /\ table[j] # NoGame
        /\ table' = AfterLeave(table, j, u)
    BY <1>14 DEF AdminKickFromGame, tcpVars
  <2>2. /\ v \in racing /\ game'[v] = game[v]
        /\ v \in users => v # u
        /\ v \notin Evicted(j, u, users) \/ Up = {}
    BY <2>1 DEF ToLobby
  <2> QED
    BY <2>1, <2>2, DepartureRaces DEF Goal
<1>15. ASSUME NEW j \in GameId, AdminCloseGame(j) PROVE Goal
  <2>1. /\ v \in racing /\ v \notin (Members(table[j]) \union {table[j].host}) \intersect users
        /\ table' = [table EXCEPT ![j] = NoGame]
    BY <1>15 DEF AdminCloseGame
  <2>2. ASSUME v \in users PROVE Carries(v)
    <3>1. v \notin Members(table[j])
      BY <2>1, <2>2
    <3>2. game'[v] = game[v]
      BY <1>15, <2>1, <3>1 DEF AdminCloseGame
    <3>3. ASSUME InGame(v)
          PROVE  /\ table'[game[v]] = table[game[v]] /\ table[game[v]] # NoGame
                 /\ table[game[v]].state = "ACTIVE" /\ v \in Members(table[game[v]])
      <4>1. /\ table[game[v]].state = "ACTIVE" /\ v \in Members(table[game[v]])
            /\ game[v] \in GameId /\ table[game[v]] # NoGame
        BY <2>1, <2>2, <3>3, InGameOK DEF RaceInv, RaceOK, Rides, IInv
      <4>2. game[v] # j
        BY <3>1, <4>1
      <4> QED
        BY <2>1, <4>1, <4>2 DEF IInv, GamesInv, TableOK
    <3> QED
      BY <3>2, <3>3 DEF Carries
  <2> QED
    BY <2>1, <2>2, StillRacing DEF RaceInv, Goal
<1>16. CASE UNCHANGED vars
  BY <1>1, <1>16 DEF vars, seatVars, gameVars
<1> QED
  BY <1>3, <1>4, <1>5, <1>6, <1>7, <1>8, <1>9, <1>10, <1>11, <1>12, <1>13, <1>14,
     <1>15, <1>16 DEF Next, Command, Play, Admin

(* A connected user whose status is "racing" is in a race, in every         *)
(* behaviour in which a slot is left for whoever connects, and with gjoi    *)
(* not forced to start the race (LOBBY_GJOI_FORCE_READY is off unless the   *)
(* administrator turns it on).  Both premises are needed: a racer who comes *)
(* back to a full registry takes the seat and the status of the ghost       *)
(* without being registered, and what ends the race then misses the racer.  *)
THEOREM RacersRaceCorrect ==
    ~ForceReady /\ Spec /\ []RoomForAll => []RacersRace
<1>1. Init => RaceInv
  BY DEF Init, RaceInv, RaceOK
<1>2. ~ForceReady /\ IInv /\ RoomForAll /\ RaceInv /\ [Next]_vars => RaceInv'
  BY RaceStep DEF RaceInv
<1>3. IInv /\ RaceInv => RacersRace
  BY DEF RaceInv, RaceOK, Rides, RacersRace, Player, IInv, SeatsInv
<1>4. CASE ForceReady
  BY <1>4
<1>5. CASE ~ForceReady
  <2>1. IInv /\ RoomForAll /\ RaceInv /\ [Next]_vars => RaceInv'
    BY <1>2, <1>5
  <2> QED
    BY Invariance, <1>1, <1>3, <2>1, PTL DEF Spec
<1> QED
  BY <1>4, <1>5

(* In particular with no more clients than SERVER_MAX_PLAYERS. *)
COROLLARY FewRacersRace ==
    ASSUME ~ForceReady, IsFiniteSet(Uid), Cardinality(Uid) <= MaxUsers
    PROVE  Spec => []RacersRace
<1>1. IInv => RoomForAll
  <2> SUFFICES ASSUME IInv, UsersFull PROVE users = Uid
    BY DEF RoomForAll, Up
  <2>1. users \in SUBSET Uid /\ IsFiniteSet(users)
    BY DEF IInv, RegistryInv
  <2>2. Cardinality(Uid) \in Nat /\ Cardinality(users) \in Nat
    BY <2>1, FS_CardinalityType
  <2>3. Cardinality(users) = Cardinality(Uid)
    <3>1. Cardinality(users) <= Cardinality(Uid)
      BY <2>1, FS_Subset
    <3> QED
      BY <2>2, <3>1, LobbyAssumption DEF UsersFull
  <2> QED
    BY <2>1, <2>3, FS_Subset
<1> QED
  BY Invariance, <1>1, RacersRaceCorrect, PTL
=============================================================================
