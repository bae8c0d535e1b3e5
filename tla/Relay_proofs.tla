---------------------------- MODULE Relay_proofs ----------------------------
(***************************************************************************)
(* Theorems about the UDP relay: Relay, for any endpoints, rooms, games    *)
(* and limits, and at the end RawOrder, for all clients and opcodes.       *)
(***************************************************************************)
EXTENDS Relay, RawOrder, FiniteSetTheorems, TLAPS

(* The tables agree, and no room without members has started.              *)
Sound(s) ==
    /\ \A r \in Room : s.rooms[r] = {c \in Client : s.where[c] = r}
    /\ \A r \in s.started : s.rooms[r] # {}

Fits(s) ==
    /\ Cardinality(Known(s)) <= MaxClients
    /\ Cardinality(Pending(s.saved)) <= MaxPending
    /\ Cardinality(s.raw) <= MaxPending

(* Who is let into a room r on the way from tables s to t, and what goes   *)
(* out to them: a room that gets somebody new does not end overfull, and   *)
(* with two in it, nothing is kept for it any more.                        *)
Lets(s, t) ==
    \A r \in Room :
        /\ t.saved[r] \subseteq s.saved[r]
        /\ \/ t.rooms[r] \subseteq s.rooms[r]
           \/ /\ players[r] > 0 => Expected(r) \in Nat /\ Cardinality(t.rooms[r]) <= Expected(r)
              /\ Cardinality(t.rooms[r]) < 2 \/ t.saved[r] = {}

(* What every operation of the relay but one does to tables s: they keep   *)
(* their types and their limits, and stay sound if they were.              *)
Keeps(s, t) == t \in State /\ Fits(t) /\ (Sound(s) => Sound(t)) /\ Lets(s, t)

(* The exception is that at the end of a probe one packet may be kept.     *)
Ends(s, t) ==
    /\ t \in State /\ Fits(t) /\ (Sound(s) => Sound(t))
    /\ \A r \in Room :
          /\ \/ t.rooms[r] \subseteq s.rooms[r]
             \/ players[r] > 0 => Expected(r) \in Nat /\ Cardinality(t.rooms[r]) <= Expected(r)
          /\ \/ s.saved[r] = {}
             \/ ~(t.rooms[r] \subseteq s.rooms[r]) /\ ~(Cardinality(t.rooms[r]) < 2)
             => Cardinality(t.saved[r]) <= 1

(* Most know no more clients afterwards and keep nothing more for rooms.   *)
NoMore(s, t) ==
    /\ t \in State
    /\ Known(t) \subseteq Known(s)
    /\ Pending(t.saved) \subseteq Pending(s.saved)
    /\ t.raw \subseteq s.raw
    /\ Sound(s) => Sound(t)

LEMMA Limits ==
    ASSUME NEW S, NEW T, NEW n \in Nat, IsFiniteSet(S), T \subseteq S, Cardinality(S) <= n
    PROVE  IsFiniteSet(T) /\ Cardinality(T) <= n
<1>1. IsFiniteSet(T) /\ Cardinality(T) <= Cardinality(S)
  BY FS_Subset
<1>2. Cardinality(T) \in Nat /\ Cardinality(S) \in Nat
  BY <1>1, FS_CardinalityType
<1> QED
  BY <1>1, <1>2

LEMMA RoomsFinite ==
    ASSUME NEW s \in State, NEW r \in Room, NEW T \in SUBSET s.rooms[r]
    PROVE  /\ IsFiniteSet(s.rooms[r]) /\ IsFiniteSet(T)
           /\ Cardinality(T) \in Nat /\ Cardinality(s.rooms[r]) \in Nat
           /\ Cardinality(T) <= Cardinality(s.rooms[r])
<1>1. s.rooms[r] \subseteq Client
  BY DEF State
<1>2. IsFiniteSet(s.rooms[r])
  BY <1>1, FS_Subset, RelayAssumption
<1> QED
  BY <1>2, FS_Subset, FS_CardinalityType

LEMMA QuietLets ==
    ASSUME NEW s, NEW t,
           \A r \in Room : t.rooms[r] \subseteq s.rooms[r] /\ t.saved[r] \subseteq s.saved[r]
    PROVE  Lets(s, t)
  BY DEF Lets

LEMMA LetsTransitive ==
    ASSUME NEW s, NEW t \in State, NEW u, Lets(s, t), Lets(t, u)
    PROVE  Lets(s, u)
<1> SUFFICES ASSUME NEW r \in Room
             PROVE  /\ u.saved[r] \subseteq s.saved[r]
                    /\ \/ u.rooms[r] \subseteq s.rooms[r]
                       \/ /\ players[r] > 0 => Expected(r) \in Nat
                                                 /\ Cardinality(u.rooms[r]) <= Expected(r)
                          /\ Cardinality(u.rooms[r]) < 2 \/ u.saved[r] = {}
  BY DEF Lets
<1>1. u.saved[r] \subseteq t.saved[r] /\ t.saved[r] \subseteq s.saved[r]
  BY DEF Lets
<1>2. CASE u.rooms[r] \subseteq t.rooms[r] /\ ~(t.rooms[r] \subseteq s.rooms[r])
  <2>1. /\ Cardinality(u.rooms[r]) \in Nat /\ Cardinality(t.rooms[r]) \in Nat
        /\ Cardinality(u.rooms[r]) <= Cardinality(t.rooms[r])
    BY <1>2, RoomsFinite
  <2>2. /\ players[r] > 0 => Expected(r) \in Nat /\ Cardinality(t.rooms[r]) <= Expected(r)
        /\ Cardinality(t.rooms[r]) < 2 \/ t.saved[r] = {}
    BY <1>2 DEF Lets
  <2>3. players[r] > 0 => Expected(r) \in Nat /\ Cardinality(u.rooms[r]) <= Expected(r)
    BY <2>1, <2>2
  <2>4. Cardinality(u.rooms[r]) < 2 \/ u.saved[r] = {}
    BY <1>1, <2>1, <2>2
  <2> QED
    BY <1>1, <2>3, <2>4
<1>3. CASE ~(u.rooms[r] \subseteq t.rooms[r])
  BY <1>1, <1>3 DEF Lets
<1> QED
  BY <1>1, <1>2, <1>3

LEMMA KeepsEnds ==
    ASSUME NEW s, NEW t, Keeps(s, t)
    PROVE  Ends(s, t)
<1> SUFFICES ASSUME NEW r \in Room,
                    \/ s.saved[r] = {}
                    \/ ~(t.rooms[r] \subseteq s.rooms[r]) /\ ~(Cardinality(t.rooms[r]) < 2)
             PROVE  Cardinality(t.saved[r]) <= 1
  BY DEF Keeps, Lets, Ends
<1>1. t.saved[r] = {}
  BY DEF Keeps, Lets
<1> QED
  BY <1>1, FS_EmptySet

LEMMA EndsAfterKeeps ==
    ASSUME NEW s, NEW t, NEW u, Keeps(s, t), Ends(t, u)
    PROVE  Ends(s, u)
<1>1. u \in State /\ Fits(u) /\ (Sound(s) => Sound(u))
  BY DEF Keeps, Ends
<1>2. ASSUME NEW r \in Room, ~(u.rooms[r] \subseteq s.rooms[r]), players[r] > 0
      PROVE  Expected(r) \in Nat /\ Cardinality(u.rooms[r]) <= Expected(r)
  <2>1. CASE ~(u.rooms[r] \subseteq t.rooms[r])
    BY <1>2, <2>1 DEF Ends
  <2>2. CASE u.rooms[r] \subseteq t.rooms[r]
    <3>1. Expected(r) \in Nat /\ Cardinality(t.rooms[r]) <= Expected(r)
      BY <1>2, <2>2 DEF Keeps, Lets
    <3>2. /\ Cardinality(u.rooms[r]) \in Nat /\ Cardinality(t.rooms[r]) \in Nat
          /\ Cardinality(u.rooms[r]) <= Cardinality(t.rooms[r])
      BY <2>2, RoomsFinite DEF Keeps
    <3> QED
      BY <3>1, <3>2
  <2> QED
    BY <2>1, <2>2
<1>3. ASSUME NEW r \in Room,
             \/ s.saved[r] = {}
             \/ ~(u.rooms[r] \subseteq s.rooms[r]) /\ ~(Cardinality(u.rooms[r]) < 2)
      PROVE  Cardinality(u.saved[r]) <= 1
  <2>1. CASE s.saved[r] = {}
    BY <2>1 DEF Keeps, Lets, Ends
  <2>2. CASE s.saved[r] # {} /\ ~(u.rooms[r] \subseteq t.rooms[r])
    BY <1>3, <2>2 DEF Ends
  <2>3. CASE s.saved[r] # {} /\ u.rooms[r] \subseteq t.rooms[r]
    <3>1. /\ Cardinality(u.rooms[r]) \in Nat /\ Cardinality(t.rooms[r]) \in Nat
          /\ Cardinality(u.rooms[r]) <= Cardinality(t.rooms[r])
      BY <2>3, RoomsFinite DEF Keeps
    <3>2. ~(Cardinality(t.rooms[r]) < 2) /\ ~(t.rooms[r] \subseteq s.rooms[r])
      BY <1>3, <2>3, <3>1
    <3>3. t.saved[r] = {}
      BY <3>2 DEF Keeps, Lets
    <3> QED
      BY <3>3 DEF Ends
  <2> QED
    BY <2>1, <2>2, <2>3
<1> QED
  BY <1>1, <1>2, <1>3 DEF Ends

LEMMA NoMoreKeeps ==
    ASSUME NEW s, NEW t, s \in State, Fits(s), NoMore(s, t), Lets(s, t)
    PROVE  Keeps(s, t)
<1>1. IsFiniteSet(Known(s)) /\ IsFiniteSet(Pending(s.saved)) /\ IsFiniteSet(s.raw)
  <2>1. Known(s) \subseteq Client /\ Pending(s.saved) \subseteq Room /\ s.raw \subseteq Room
    BY DEF State, Pending, Known
  <2> QED
    BY <2>1, FS_Subset, RelayAssumption
<1>2. /\ Cardinality(Known(t)) <= MaxClients
      /\ Cardinality(Pending(t.saved)) <= MaxPending
      /\ Cardinality(t.raw) <= MaxPending
  BY <1>1, Limits, RelayAssumption DEF NoMore, Fits
<1> QED
  BY <1>2 DEF NoMore, Keeps, Fits

LEMMA NoMoreTransitive ==
    ASSUME NEW s, NEW t, NEW u, NoMore(s, t), NoMore(t, u)
    PROVE  NoMore(s, u)
  BY DEF NoMore

LEMMA NoMoreReflexive ==
    ASSUME NEW s \in State
    PROVE  NoMore(s, s) /\ Lets(s, s)
  BY DEF NoMore, Lets

-----------------------------------------------------------------------------
(* Moving a client.                                                        *)
LEMMA LeftType ==
    ASSUME NEW s \in State, NEW c \in Client
    PROVE  /\ Left(s, c) \in State
           /\ Left(s, c).where = s.where
           /\ Left(s, c).saved = s.saved
           /\ Left(s, c).raw = s.raw
           /\ \A r \in Room : Left(s, c).rooms[r] \subseteq s.rooms[r]
           /\ Sound(s) =>
                /\ \A r \in Room : Left(s, c).rooms[r] = {x \in Client : s.where[x] = r} \ {c}
                /\ \A r \in Left(s, c).started : Left(s, c).rooms[r] # {}
<1> DEFINE q == s.where[c]
<1>1. CASE q \notin Room
  <2>1. Left(s, c) = s
    BY <1>1 DEF Left
  <2> QED
    BY <1>1, <2>1 DEF Sound, State
<1>2. CASE q \in Room
  <2>1. Left(s, c) =
          [s EXCEPT !.rooms = Put(s.rooms, q, s.rooms[q] \ {c}),
                    !.started = IF s.rooms[q] = {c} THEN s.started \ {q} ELSE s.started]
    BY <1>2 DEF Left
  <2>2. /\ Put(s.rooms, q, s.rooms[q] \ {c}) \in [Room -> SUBSET Client]
        /\ \A r \in Room : Put(s.rooms, q, s.rooms[q] \ {c})[r] =
              IF r = q THEN s.rooms[q] \ {c} ELSE s.rooms[r]
    <3>1. s.rooms \in [Room -> SUBSET Client] /\ s.rooms[q] \ {c} \in SUBSET Client
      BY <1>2 DEF State
    <3> HIDE DEF q
    <3> QED
      BY <1>2, <3>1 DEF Put
  <2>3. Left(s, c) \in State
    BY <2>1, <2>2 DEF State
  <2>4. /\ Left(s, c).where = s.where
        /\ Left(s, c).saved = s.saved
        /\ Left(s, c).raw = s.raw
        /\ Left(s, c).rooms = Put(s.rooms, q, s.rooms[q] \ {c})
        /\ Left(s, c).started = IF s.rooms[q] = {c} THEN s.started \ {q} ELSE s.started
    BY <2>1 DEF State
  <2>5. ASSUME Sound(s)
        PROVE  /\ \A r \in Room : Left(s, c).rooms[r] = {x \in Client : s.where[x] = r} \ {c}
               /\ \A r \in Left(s, c).started : Left(s, c).rooms[r] # {}
    <3>1. \A r \in Room : Left(s, c).rooms[r] = IF r = q THEN s.rooms[q] \ {c} ELSE s.rooms[r]
      BY <2>2, <2>4
    <3>2. \A r \in Room : r # q => c \notin s.rooms[r]
      BY <2>5 DEF Sound
    <3>3. \A r \in Room : Left(s, c).rooms[r] = s.rooms[r] \ {c}
      BY <3>1, <3>2
    <3>4. ASSUME NEW r \in Left(s, c).started PROVE Left(s, c).rooms[r] # {}
      <4>1. r \in s.started /\ r \in Room
        BY <2>3, <2>4 DEF State
      <4>2. s.rooms[r] # {}
        BY <2>5, <4>1 DEF Sound
      <4>3. r = q => s.rooms[r] # {c}
        BY <2>4, <3>4
      <4> QED
        BY <3>2, <3>3, <4>1, <4>2, <4>3
    <3> QED
      BY <2>5, <3>3, <3>4 DEF Sound
  <2>6. \A r \in Room : Left(s, c).rooms[r] \subseteq s.rooms[r]
    BY <2>2, <2>4
  <2> QED
    BY <2>3, <2>4, <2>5, <2>6
<1> QED
  BY <1>1, <1>2

LEMMA JoinedKeeps ==
    ASSUME NEW s \in State, NEW c \in Known(s), NEW r \in Room
    PROVE  /\ NoMore(s, Joined(Left(s, c), c, r))
           /\ Joined(Left(s, c), c, r).saved = s.saved
           /\ \A x \in Room \ {r} : Joined(Left(s, c), c, r).rooms[x] \subseteq s.rooms[x]
<1> DEFINE l == Left(s, c)
           t == Joined(l, c, r)
<1>0. c \in Client
  BY DEF Known
<1>1. /\ l \in State /\ l.where = s.where /\ l.saved = s.saved /\ l.raw = s.raw
      /\ Sound(s) =>
           /\ \A x \in Room : l.rooms[x] = {y \in Client : s.where[y] = x} \ {c}
           /\ \A x \in l.started : l.rooms[x] # {}
  BY <1>0, LeftType
<1>9. \A x \in Room : l.rooms[x] \subseteq s.rooms[x]
  BY <1>0, LeftType
<1> HIDE DEF l
<1>2. t = [l EXCEPT !.where = Put(l.where, c, r),
                    !.rooms = Put(l.rooms, r, l.rooms[r] \union {c})]
  BY DEF Joined
<1>3. /\ Put(l.where, c, r) \in [Client -> Room \union {NoRoom, Unknown}]
      /\ \A y \in Client : Put(l.where, c, r)[y] = IF y = c THEN r ELSE l.where[y]
  BY <1>0, <1>1 DEF State, Put
<1>4. /\ Put(l.rooms, r, l.rooms[r] \union {c}) \in [Room -> SUBSET Client]
      /\ \A x \in Room : Put(l.rooms, r, l.rooms[r] \union {c})[x] =
                            IF x = r THEN l.rooms[r] \union {c} ELSE l.rooms[x]
  <2>1. l.rooms \in [Room -> SUBSET Client] /\ l.rooms[r] \union {c} \in SUBSET Client
    BY <1>0, <1>1 DEF State
  <2> QED
    BY <2>1 DEF Put
<1>5. /\ t \in State
      /\ t.where = Put(l.where, c, r)
      /\ t.rooms = Put(l.rooms, r, l.rooms[r] \union {c})
      /\ t.saved = l.saved /\ t.raw = l.raw /\ t.started = l.started
  BY <1>1, <1>2, <1>3, <1>4 DEF State
<1> HIDE DEF t
<1>6. Known(t) = Known(s)
  BY <1>1, <1>3, <1>5, RelayAssumption DEF Known
<1>7. ASSUME Sound(s) PROVE Sound(t)
  <2>1. \A x \in Room : t.rooms[x] = {y \in Client : t.where[y] = x}
    <3>1. ASSUME NEW x \in Room, NEW y \in Client
          PROVE  y \in t.rooms[x] <=> t.where[y] = x
      <4>1. y \in l.rooms[x] <=> s.where[y] = x /\ y # c
        BY <1>1, <1>7
      <4>2. y \in t.rooms[x] <=> y \in l.rooms[x] \/ (x = r /\ y = c)
        BY <1>4, <1>5
      <4>3. t.where[y] = IF y = c THEN r ELSE s.where[y]
        BY <1>1, <1>3, <1>5
      <4> QED
        BY <4>1, <4>2, <4>3
    <3>2. \A x \in Room : t.rooms[x] \subseteq Client
      BY <1>5 DEF State
    <3> QED
      BY <3>1, <3>2
  <2>2. \A x \in t.started : t.rooms[x] # {}
    <3>1. t.started \subseteq Room
      BY <1>5 DEF State
    <3> QED
      BY <1>1, <1>4, <1>5, <1>7, <3>1
  <2> QED
    BY <2>1, <2>2 DEF Sound
<1>8. \A x \in Room \ {r} : t.rooms[x] \subseteq s.rooms[x]
  BY <1>4, <1>5, <1>9
<1> QED
  BY <1>1, <1>5, <1>6, <1>7, <1>8 DEF NoMore, t, l

-----------------------------------------------------------------------------
(* What is kept for a room goes out.                                       *)
LEMMA ClearedKeeps ==
    ASSUME NEW s \in State, NEW r \in Room
    PROVE  /\ NoMore(s, [s EXCEPT !.saved = Put(s.saved, r, {})])
           /\ Lets(s, [s EXCEPT !.saved = Put(s.saved, r, {})])
           /\ [s EXCEPT !.saved = Put(s.saved, r, {})].saved[r] = {}
<1> DEFINE t == [s EXCEPT !.saved = Put(s.saved, r, {})]
<1>1. /\ Put(s.saved, r, {}) \in [Room -> SUBSET Client]
      /\ \A x \in Room : Put(s.saved, r, {})[x] = IF x = r THEN {} ELSE s.saved[x]
  <2>1. s.saved \in [Room -> SUBSET Client]
    BY DEF State
  <2> QED
    BY <2>1 DEF Put
<1>2. /\ t \in State /\ t.saved = Put(s.saved, r, {})
      /\ t.where = s.where /\ t.rooms = s.rooms /\ t.raw = s.raw /\ t.started = s.started
  BY <1>1 DEF State
<1> HIDE DEF t
<1>3. Lets(s, t)
  BY <1>1, <1>2, QuietLets
<1> QED
  BY <1>1, <1>2, <1>3 DEF NoMore, Known, Pending, Sound, t

LEMMA RawReplayedKeeps ==
    ASSUME NEW s \in State, NEW r \in Room, NEW t \in RawReplayed(s, r)
    PROVE  /\ NoMore(s, t) /\ Lets(s, t)
           /\ t.rooms = s.rooms /\ t.where = s.where /\ t.saved = s.saved
<1>1. PICK K \in {s.raw, s.raw \ {r}} : t = [s EXCEPT !.raw = K]
  BY DEF RawReplayed
<1>2. K \in SUBSET Room /\ K \subseteq s.raw
  BY DEF State
<1>3. /\ t \in State /\ t.raw = K /\ t.saved = s.saved
      /\ t.where = s.where /\ t.rooms = s.rooms /\ t.started = s.started
  BY <1>1, <1>2 DEF State
<1>4. Lets(s, t)
  BY <1>3, QuietLets
<1>5. NoMore(s, t)
  BY <1>2, <1>3 DEF NoMore, Known, Pending, Sound
<1> QED
  BY <1>3, <1>4, <1>5

LEMMA ReplayedKeeps ==
    ASSUME NEW s \in State, NEW r \in Room, NEW t \in Replayed(s, r)
    PROVE  /\ NoMore(s, t) /\ t.rooms = s.rooms /\ Lets(s, t)
           /\ Cardinality(s.rooms[r]) > 1 => t.saved[r] = {}
<1> DEFINE u == [s EXCEPT !.saved = Put(s.saved, r, {})]
<1>0. NoMore(s, u) /\ Lets(s, u) /\ u.saved[r] = {}
  BY ClearedKeeps
<1>1. u \in State /\ u.rooms = s.rooms
  BY <1>0 DEF NoMore, State
<1>2. IF Cardinality(s.rooms[r]) > 1 THEN t \in RawReplayed(u, r) ELSE t = s
  BY DEF Replayed
<1> HIDE DEF u
<1>3. CASE Cardinality(s.rooms[r]) > 1
  <2>1. NoMore(u, t) /\ Lets(u, t) /\ t.rooms = u.rooms /\ t.saved = u.saved
    BY <1>1, <1>2, <1>3, RawReplayedKeeps
  <2> QED
    BY <1>0, <1>1, <2>1, NoMoreTransitive, LetsTransitive
<1>4. CASE ~(Cardinality(s.rooms[r]) > 1)
  BY <1>2, <1>4, NoMoreReflexive
<1> QED
  BY <1>3, <1>4

LEMMA FlushedKeeps ==
    ASSUME NEW s \in State, NEW r \in Room
    PROVE  NoMore(s, Flushed(s, r)) /\ Lets(s, Flushed(s, r)) /\ Flushed(s, r).rooms = s.rooms
  BY ClearedKeeps, NoMoreReflexive DEF Flushed, State

(* A room may start that has members.                                      *)
LEMMA StartedKeeps ==
    ASSUME NEW s \in State, NEW r \in Room, NEW t \in Started(s, r),
           Sound(s) => s.rooms[r] # {}
    PROVE  NoMore(s, t) /\ Lets(s, t)
<1> DEFINE u == [s EXCEPT !.started = s.started \union {r}]
<1>1. CASE r \in s.started
  BY <1>1, NoMoreReflexive DEF Started
<1>2. CASE r \notin s.started
  <2>1. /\ u \in State /\ u.started = s.started \union {r} /\ u.where = s.where
        /\ u.rooms = s.rooms /\ u.saved = s.saved /\ u.raw = s.raw
    BY DEF State
  <2>2. t \in RawReplayed(u, r)
    BY <1>2 DEF Started
  <2> HIDE DEF u
  <2>3. NoMore(s, u) /\ Lets(s, u)
    BY <2>1, QuietLets DEF NoMore, Known, Pending, Sound
  <2> QED
    BY <2>1, <2>2, <2>3, RawReplayedKeeps, NoMoreTransitive, LetsTransitive
<1> QED
  BY <1>1, <1>2

-----------------------------------------------------------------------------
(* Too many are in a room: at least two stay.                              *)
LEMMA PrunedKeeps ==
    ASSUME players \in [Room -> Players],
           NEW s \in State, NEW r \in Room, NEW t \in Pruned(s, r)
    PROVE  /\ NoMore(s, t) /\ (s.rooms[r] # {} => t.rooms[r] # {})
           /\ t.saved = s.saved /\ \A x \in Room : t.rooms[x] \subseteq s.rooms[x]
           /\ players[r] > 0 => Expected(r) \in Nat /\ Cardinality(t.rooms[r]) <= Expected(r)
<1>0. Expected(r) \in Nat
  <2>1. players[r] \in Nat
    BY RelayAssumption
  <2> QED
    BY <2>1 DEF Expected
<1>1. CASE players[r] = 0 \/ Cardinality(s.rooms[r]) <= Expected(r)
  <2>1. t = s
    BY <1>1 DEF Pruned
  <2> QED
    BY <1>0, <1>1, <2>1, NoMoreReflexive
<1>2. CASE ~(players[r] = 0 \/ Cardinality(s.rooms[r]) <= Expected(r))
  <2>1. PICK K \in kSubset(Expected(r), s.rooms[r]) : t = TakenOut(s, r, s.rooms[r] \ K)
    BY <1>2 DEF Pruned
  <2>2. K \subseteq s.rooms[r] /\ Cardinality(K) = Expected(r)
    BY <2>1 DEF kSubset
  <2>3. K # {}
    <3>1. players[r] \in Nat
      BY RelayAssumption
    <3>2. Expected(r) # 0
      BY <3>1 DEF Expected
    <3> QED
      BY <2>2, <3>2, FS_EmptySet
  <2> DEFINE D == s.rooms[r] \ K
             w == [c \in Client |-> IF c \in D \intersect Known(s) THEN NoRoom ELSE s.where[c]]
             m == Put(s.rooms, r, s.rooms[r] \ D)
  <2>4. D \subseteq Client /\ s.rooms[r] \ D = K
    BY <2>2 DEF State
  <2>5. /\ m \in [Room -> SUBSET Client]
        /\ \A x \in Room : m[x] = IF x = r THEN K ELSE s.rooms[x]
    <3>1. s.rooms \in [Room -> SUBSET Client] /\ K \in SUBSET Client
      BY <2>2 DEF State
    <3> HIDE DEF D
    <3> QED
      BY <2>4, <3>1 DEF Put
  <2>6. t = [s EXCEPT !.where = w, !.rooms = m]
    BY <2>1 DEF TakenOut
  <2>7. w \in [Client -> Room \union {NoRoom, Unknown}]
    BY DEF State
  <2>8. /\ t \in State /\ t.where = w /\ t.rooms = m /\ t.saved = s.saved
        /\ t.raw = s.raw /\ t.started = s.started
    <3> HIDE DEF w, m
    <3> QED
      BY <2>5, <2>6, <2>7 DEF State
  <2>9. Known(t) \subseteq Known(s)
    BY <2>8, RelayAssumption DEF Known
  <2>10. ASSUME Sound(s) PROVE Sound(t)
    <3>1. ASSUME NEW x \in Room, NEW y \in Client
          PROVE  y \in m[x] <=> w[y] = x
      <4>1. \A z \in Room : y \in s.rooms[z] <=> s.where[y] = z
        BY <2>10 DEF Sound
      <4>2. y \in D => y \in Known(s) /\ s.where[y] = r
        BY <4>1, RelayAssumption DEF Known
      <4>3. CASE y \in D
        <5>1. w[y] # x
          BY <4>2, <4>3, RelayAssumption
        <5>2. y \notin m[x]
          BY <2>5, <4>1, <4>2, <4>3
        <5> QED
          BY <5>1, <5>2
      <4>4. CASE y \notin D
        <5>1. w[y] = s.where[y]
          BY <4>4
        <5>2. y \in m[x] <=> y \in s.rooms[x]
          BY <2>2, <2>5, <4>4
        <5> QED
          BY <4>1, <5>1, <5>2
      <4> QED
        BY <4>3, <4>4
    <3>2. \A x \in Room : m[x] \subseteq Client
      BY <2>5
    <3>3. \A x \in Room : m[x] = {y \in Client : w[y] = x}
      <4> HIDE DEF m, w
      <4> QED
        BY <3>1, <3>2
    <3>4. \A x \in t.started : m[x] # {}
      <4>1. t.started \subseteq Room
        BY <2>8 DEF State
      <4> HIDE DEF m, w
      <4> QED
        BY <2>3, <2>5, <2>8, <2>10, <4>1 DEF Sound
    <3> HIDE DEF m, w
    <3> QED
      BY <2>8, <3>3, <3>4 DEF Sound
  <2>11. /\ \A x \in Room : m[x] \subseteq s.rooms[x]
         /\ Cardinality(m[r]) = Expected(r)
    <3> HIDE DEF m
    <3> QED
      BY <2>2, <2>5
  <2> HIDE DEF m, w
  <2>12. Cardinality(t.rooms[r]) <= Expected(r)
    BY <1>0, <2>8, <2>11
  <2> QED
    BY <1>0, <2>3, <2>5, <2>8, <2>9, <2>10, <2>11, <2>12 DEF NoMore
<1> QED
  BY <1>1, <1>2

LEMMA MovedKeeps ==
    ASSUME players \in [Room -> Players],
           NEW s \in State, NEW r \in Room, NEW c \in Known(s), NEW t \in Moved(s, c, r)
    PROVE  NoMore(s, t) /\ Lets(s, t) /\ (Sound(t) => t.rooms[r] # {})
<1>0. c \in Client
  BY DEF Known
<1>1. CASE s.where[c] = r
  <2>1. t = s
    BY <1>1 DEF Moved
  <2> QED
    BY <1>0, <1>1, <2>1, NoMoreReflexive DEF Sound
<1>2. CASE s.where[c] # r
  <2> DEFINE j == Joined(Left(s, c), c, r)
  <2>1. PICK u \in Replayed(j, r) : t \in Pruned(u, r)
    BY <1>2 DEF Moved
  <2>2. NoMore(s, j) /\ j \in State
    BY JoinedKeeps DEF NoMore
  <2>3. j.rooms[r] # {}
    <3>1. /\ Left(s, c).rooms \in [Room -> SUBSET Client]
          /\ Left(s, c) \in State
      BY <1>0, LeftType DEF State
    <3>2. j.rooms = Put(Left(s, c).rooms, r, Left(s, c).rooms[r] \union {c})
      BY <3>1 DEF Joined, State
    <3> QED
      BY <3>1, <3>2 DEF Put
  <2>4. j.saved = s.saved /\ \A x \in Room \ {r} : j.rooms[x] \subseteq s.rooms[x]
    BY JoinedKeeps
  <2> HIDE DEF j
  <2>5. /\ NoMore(j, u) /\ u \in State /\ u.rooms = j.rooms /\ u.rooms[r] # {} /\ Lets(j, u)
        /\ Cardinality(j.rooms[r]) > 1 => u.saved[r] = {}
    BY <2>1, <2>2, <2>3, ReplayedKeeps DEF NoMore
  <2>6. /\ NoMore(u, t) /\ t.rooms[r] # {}
        /\ t.saved = u.saved /\ \A x \in Room : t.rooms[x] \subseteq u.rooms[x]
        /\ players[r] > 0 => Expected(r) \in Nat /\ Cardinality(t.rooms[r]) <= Expected(r)
    BY <2>1, <2>5, PrunedKeeps
  <2>7. Cardinality(t.rooms[r]) < 2 \/ t.saved[r] = {}
    <3>1. /\ Cardinality(t.rooms[r]) \in Nat /\ Cardinality(j.rooms[r]) \in Nat
          /\ Cardinality(t.rooms[r]) <= Cardinality(j.rooms[r])
      BY <2>2, <2>5, <2>6, RoomsFinite
    <3> QED
      BY <2>5, <2>6, <3>1
  <2>8. ASSUME NEW x \in Room
        PROVE  /\ t.saved[x] \subseteq s.saved[x]
               /\ x # r => t.rooms[x] \subseteq s.rooms[x]
    BY <2>4, <2>5, <2>6 DEF Lets
  <2>9. Lets(s, t)
    BY <2>6, <2>7, <2>8 DEF Lets
  <2> QED
    BY <2>2, <2>5, <2>6, <2>9, NoMoreTransitive
<1> QED
  BY <1>1, <1>2

LEMMA GuessedKeeps ==
    ASSUME players \in [Room -> Players],
           NEW s \in State, NEW r \in Room, NEW c, NEW t \in Guessed(s, c, r)
    PROVE  NoMore(s, t) /\ Lets(s, t)
<1>1. CASE t = s
  BY <1>1, NoMoreReflexive
<1>2. CASE t # s
  <2>1. PICK b \in Known(s) \ {c} : t \in Moved(s, b, r)
    BY <1>2 DEF Guessed
  <2> QED
    BY <2>1, MovedKeeps
<1> QED
  BY <1>1, <1>2

-----------------------------------------------------------------------------
(* Clients and packets that are too old.                                   *)
LEMMA ExpiredKeeps ==
    ASSUME NEW s \in State, NEW t \in Expired(s)
    PROVE  NoMore(s, t) /\ Lets(s, t) /\ t.where = s.where
<1>1. PICK P \in SUBSET Pending(s.saved), Q \in SUBSET s.raw : t = Without(s, P, Q)
  BY DEF Expired
<1> DEFINE k == [r \in Room |-> IF r \in P THEN {} ELSE s.saved[r]]
<1>2. k \in [Room -> SUBSET Client]
  BY DEF State
<1>3. Pending(k) \subseteq Pending(s.saved)
  BY DEF Pending
<1>4. /\ t \in State /\ t.saved = k /\ t.raw = s.raw \ Q
      /\ t.where = s.where /\ t.rooms = s.rooms /\ t.started = s.started
  <2> HIDE DEF k
  <2> QED
    BY <1>1, <1>2 DEF State, Without, k
<1>5. Lets(s, t)
  BY <1>4, QuietLets
<1> HIDE DEF k
<1> QED
  BY <1>3, <1>4, <1>5 DEF NoMore, Known, Sound

LEMMA DroppedKeeps ==
    ASSUME NEW s \in State, NEW D \in SUBSET Known(s)
    PROVE  NoMore(s, Dropped(s, D)) /\ Lets(s, Dropped(s, D))
<1> DEFINE in(r)   == {c \in D : s.where[c] = r}
           gone(r) == in(r) # {} /\ s.rooms[r] # {} /\ s.rooms[r] \subseteq in(r)
           w == [c \in Client |-> IF c \in D THEN Unknown ELSE s.where[c]]
           m == [r \in Room |-> s.rooms[r] \ in(r)]
           k == [r \in Room |-> IF gone(r) THEN {} ELSE s.saved[r]]
           t == Dropped(s, D)
<1>1. t = [where |-> w, rooms |-> m, saved |-> k,
           raw |-> {r \in s.raw : ~gone(r)}, started |-> {r \in s.started : ~gone(r)}]
  BY DEF Dropped
<1>2. w \in [Client -> Room \union {NoRoom, Unknown}]
  BY DEF State
<1>3. m \in [Room -> SUBSET Client]
  BY DEF State
<1>4. k \in [Room -> SUBSET Client]
  BY DEF State
<1>5. /\ t \in State /\ t.where = w /\ t.rooms = m /\ t.saved = k
      /\ t.raw = {r \in s.raw : ~gone(r)} /\ t.started = {r \in s.started : ~gone(r)}
  <2> HIDE DEF w, m, k, gone, t
  <2> QED
    BY <1>1, <1>2, <1>3, <1>4 DEF State
<1>6. Pending(k) \subseteq Pending(s.saved)
  BY DEF Pending
<1>7. Known(t) \subseteq Known(s)
  BY <1>5 DEF Known
<1>8. ASSUME Sound(s) PROVE Sound(t)
  <2>1. ASSUME NEW r \in Room, NEW c \in Client
        PROVE  c \in m[r] <=> w[c] = r
    BY <1>8, RelayAssumption DEF Sound
  <2>2. \A r \in Room : m[r] = {c \in Client : w[c] = r}
    <3>1. \A r \in Room : m[r] \subseteq Client
      BY <1>3
    <3> HIDE DEF m, w
    <3> QED
      BY <2>1, <3>1
  <2>3. ASSUME NEW r \in t.started PROVE m[r] # {}
    <3>1. r \in Room /\ r \in s.started /\ ~gone(r)
      BY <1>5 DEF State
    <3>2. s.rooms[r] # {}
      BY <1>8, <3>1 DEF Sound
    <3>3. ~(s.rooms[r] \subseteq in(r))
      BY <3>1, <3>2
    <3> QED
      BY <3>1, <3>3
  <2> HIDE DEF m, w
  <2> QED
    BY <1>5, <2>2, <2>3 DEF Sound
<1>9. Lets(s, t)
  <2>1. \A r \in Room : m[r] \subseteq s.rooms[r] /\ k[r] \subseteq s.saved[r]
    OBVIOUS
  <2> HIDE DEF w, m, k, gone, in, t
  <2> QED
    BY <1>5, <2>1, QuietLets
<1> HIDE DEF w, m, k, gone, in, t
<1> QED
  BY <1>5, <1>6, <1>7, <1>8, <1>9 DEF NoMore, t

LEMMA CleanedKeeps ==
    ASSUME NEW s \in State, NEW t \in Cleaned(s)
    PROVE  NoMore(s, t) /\ Lets(s, t)
<1>1. PICK D \in SUBSET Known(s) : t \in Expired(Dropped(s, D))
  BY DEF Cleaned
<1>2. NoMore(s, Dropped(s, D)) /\ Lets(s, Dropped(s, D)) /\ Dropped(s, D) \in State
  BY DroppedKeeps DEF NoMore
<1> QED
  BY <1>1, <1>2, ExpiredKeeps, NoMoreTransitive, LetsTransitive

-----------------------------------------------------------------------------
(* A client, or a packet, for which there is place.                        *)
LEMMA OneMore ==
    ASSUME NEW S, NEW T, NEW x, NEW n \in Nat,
           IsFiniteSet(S), T \subseteq S \union {x}, Cardinality(S) < n
    PROVE  Cardinality(T) <= n
<1>1. /\ IsFiniteSet(S \union {x}) /\ Cardinality(S) \in Nat
      /\ Cardinality(S \union {x}) =
            IF x \in S THEN Cardinality(S) ELSE Cardinality(S) + 1
  BY FS_AddElement, FS_CardinalityType
<1> QED
  BY <1>1, Limits

LEMMA AddedKeeps ==
    ASSUME NEW s \in State, Fits(s), NEW c \in Client \ Known(s),
           Cardinality(Known(s)) < MaxClients
    PROVE  Keeps(s, Added(s, c))
<1> DEFINE w == Put(s.where, c, NoRoom)
           t == Added(s, c)
<1>1. /\ w \in [Client -> Room \union {NoRoom, Unknown}]
      /\ \A x \in Client : w[x] = IF x = c THEN NoRoom ELSE s.where[x]
  BY DEF State, Put
<1> HIDE DEF w
<1>2. /\ t \in State /\ t.where = w /\ t.rooms = s.rooms /\ t.saved = s.saved
      /\ t.raw = s.raw /\ t.started = s.started
  BY <1>1 DEF State, Added, w
<1>3. Cardinality(Known(t)) <= MaxClients
  <2>1. Known(t) \subseteq Known(s) \union {c}
    BY <1>1, <1>2 DEF Known
  <2>2. IsFiniteSet(Known(s))
    BY FS_Subset, RelayAssumption DEF Known
  <2> QED
    BY <2>1, <2>2, OneMore, RelayAssumption
<1>4. ASSUME Sound(s) PROVE Sound(t)
  <2>1. \A r \in Room : c \notin s.rooms[r]
    BY <1>4, RelayAssumption DEF Sound, Known
  <2>2. ASSUME NEW r \in Room, NEW x \in Client
        PROVE  x \in s.rooms[r] <=> w[x] = r
    BY <1>1, <1>4, <2>1, RelayAssumption DEF Sound
  <2>3. \A r \in Room : s.rooms[r] \subseteq Client
    BY DEF State
  <2> QED
    BY <1>2, <1>4, <2>2, <2>3 DEF Sound
<1>5. Lets(s, t)
  BY <1>2, QuietLets
<1> HIDE DEF t
<1> QED
  BY <1>2, <1>3, <1>4, <1>5 DEF Keeps, Fits, t

LEMMA KeepsTransitive ==
    ASSUME NEW s, NEW t, NEW u, Keeps(s, t), Keeps(t, u)
    PROVE  Keeps(s, u)
  BY LetsTransitive DEF Keeps

LEMMA TouchedKeeps ==
    ASSUME NEW s \in State, Fits(s), NEW c \in Client, NEW t \in Touched(s, c)
    PROVE  Keeps(s, t)
<1>1. CASE c \in Known(s)
  BY <1>1, NoMoreReflexive DEF Touched, Keeps
<1>2. CASE c \notin Known(s) /\ Cardinality(Known(s)) < MaxClients
  BY <1>2, AddedKeeps DEF Touched
<1>3. CASE c \notin Known(s) /\ ~(Cardinality(Known(s)) < MaxClients)
  <2>1. PICK u \in Cleaned(s) :
          t = IF Cardinality(Known(u)) < MaxClients THEN Added(u, c) ELSE u
    BY <1>3 DEF Touched
  <2>2. Keeps(s, u) /\ c \notin Known(u)
    BY <1>3, CleanedKeeps, NoMoreKeeps DEF NoMore
  <2>3. Keeps(u, t)
    BY <2>1, <2>2, AddedKeeps, NoMoreReflexive DEF Keeps
  <2> QED
    BY <2>2, <2>3, KeepsTransitive
<1> QED
  BY <1>1, <1>2, <1>3

LEMMA SavedEnds ==
    ASSUME NEW s \in State, Fits(s), NEW c \in Client, NEW r \in Room, NEW t \in Saved(s, c, r)
    PROVE  Ends(s, t)
<1>1. ASSUME NEW u \in State, Fits(u), NEW K \in SUBSET Client,
             \/ u.saved[r] # {}
             \/ Cardinality(Pending(u.saved)) < MaxPending /\ Cardinality(K) <= 1
      PROVE  Ends(u, [u EXCEPT !.saved = Put(u.saved, r, K)])
  <2> DEFINE v == [u EXCEPT !.saved = Put(u.saved, r, K)]
  <2>1. /\ Put(u.saved, r, K) \in [Room -> SUBSET Client]
        /\ \A x \in Room : Put(u.saved, r, K)[x] = IF x = r THEN K ELSE u.saved[x]
    <3>1. u.saved \in [Room -> SUBSET Client]
      BY DEF State
    <3> QED
      BY <3>1 DEF Put
  <2>2. /\ v \in State /\ v.saved = Put(u.saved, r, K) /\ v.where = u.where
        /\ v.rooms = u.rooms /\ v.raw = u.raw /\ v.started = u.started
    BY <2>1 DEF State
  <2> HIDE DEF v
  <2>3. Cardinality(Pending(v.saved)) <= MaxPending
    <3>1. Pending(u.saved) \subseteq Room /\ IsFiniteSet(Pending(u.saved))
      BY FS_Subset, RelayAssumption DEF Pending
    <3>2. CASE u.saved[r] # {}
      <4>1. Pending(v.saved) \subseteq Pending(u.saved)
        BY <2>1, <2>2, <3>2 DEF Pending
      <4> QED
        BY <3>1, <4>1, <1>1, Limits, RelayAssumption DEF Fits
    <3>3. CASE Cardinality(Pending(u.saved)) < MaxPending
      <4>1. Pending(v.saved) \subseteq Pending(u.saved) \union {r}
        BY <2>1, <2>2 DEF Pending
      <4> QED
        BY <3>1, <3>3, <4>1, OneMore, RelayAssumption
    <3> QED
      BY <1>1, <3>2, <3>3
  <2>4. \A x \in Room : u.saved[x] = {} => Cardinality(v.saved[x]) <= 1
    <3> SUFFICES ASSUME NEW x \in Room, u.saved[x] = {} PROVE Cardinality(v.saved[x]) <= 1
      OBVIOUS
    <3>1. CASE x = r
      BY <1>1, <2>1, <2>2, <3>1
    <3>2. CASE x # r
      <4>1. v.saved[x] = {}
        BY <2>1, <2>2, <3>2
      <4> QED
        BY <4>1, FS_EmptySet
    <3> QED
      BY <3>1, <3>2
  <2>5. Fits(v) /\ (Sound(u) => Sound(v))
    BY <1>1, <2>2, <2>3 DEF Fits, Known, Sound
  <2> QED
    BY <2>2, <2>4, <2>5 DEF Ends, v
<1>2. CASE t = s
  BY <1>2, NoMoreReflexive, KeepsEnds DEF Keeps
<1>3. CASE s.saved[r] # {} /\ t = [s EXCEPT !.saved = Put(s.saved, r, s.saved[r] \union {c})]
  <2>1. s.saved[r] \union {c} \in SUBSET Client
    BY DEF State
  <2> QED
    BY <1>1, <1>3, <2>1
<1>4. ASSUME NEW u \in Expired(s),
             t = IF Cardinality(Pending(u.saved)) < MaxPending
                 THEN [u EXCEPT !.saved = Put(u.saved, r, {c})] ELSE u
      PROVE  Ends(s, t)
  <2>1. Keeps(s, u)
    BY ExpiredKeeps, NoMoreKeeps
  <2>2. Ends(u, t)
    <3>1. CASE Cardinality(Pending(u.saved)) < MaxPending
      <4>1. {c} \in SUBSET Client /\ Cardinality({c}) = 1
        BY FS_Singleton
      <4> QED
        BY <1>1, <1>4, <2>1, <3>1, <4>1 DEF Keeps
    <3>2. CASE ~(Cardinality(Pending(u.saved)) < MaxPending)
      BY <1>4, <2>1, <3>2, NoMoreReflexive, KeepsEnds DEF Keeps
    <3> QED
      BY <3>1, <3>2
  <2> QED
    BY <2>1, <2>2, EndsAfterKeeps
<1> QED
  BY <1>2, <1>3, <1>4 DEF Saved

LEMMA StashedKeeps ==
    ASSUME NEW s \in State, Fits(s), NEW r \in Room, NEW t \in Stashed(s, r)
    PROVE  Keeps(s, t)
<1>1. CASE t = s
  BY <1>1, NoMoreReflexive DEF Keeps
<1>2. CASE t # s
  <2>1. PICK u \in Expired(s) : t = IF Cardinality(u.raw) < MaxPending
                                    THEN [u EXCEPT !.raw = u.raw \union {r}] ELSE u
    BY <1>2 DEF Stashed
  <2>2. Keeps(s, u)
    BY ExpiredKeeps, NoMoreKeeps
  <2>3. CASE Cardinality(u.raw) < MaxPending
    <3>1. /\ t \in State /\ t.raw = u.raw \union {r} /\ t.where = u.where
          /\ t.rooms = u.rooms /\ t.saved = u.saved /\ t.started = u.started
      BY <2>1, <2>2, <2>3 DEF Keeps, State
    <3>2. IsFiniteSet(u.raw)
      BY <2>2, FS_Subset, RelayAssumption DEF Keeps, State
    <3>3. Cardinality(t.raw) <= MaxPending
      BY <2>3, <3>1, <3>2, OneMore, RelayAssumption
    <3>4. Lets(u, t)
      BY <3>1, QuietLets
    <3>5. Keeps(u, t)
      BY <2>2, <3>1, <3>3, <3>4 DEF Keeps, Fits, Known, Sound
    <3> QED
      BY <2>2, <3>5, KeepsTransitive
  <2>4. CASE ~(Cardinality(u.raw) < MaxPending)
    BY <2>1, <2>2, <2>4
  <2> QED
    BY <2>3, <2>4
<1> QED
  BY <1>1, <1>2

-----------------------------------------------------------------------------
(* What packets do.                                                        *)
LEMMA NoMoreTwice ==
    ASSUME NEW s \in State, Fits(s), NEW t, NEW u, Keeps(s, t), NoMore(t, u), Lets(t, u)
    PROVE  Keeps(s, u)
<1>1. Keeps(t, u)
  BY NoMoreKeeps DEF Keeps
<1> QED
  BY <1>1, KeepsTransitive

LEMMA ProbeEnds ==
    ASSUME players \in [Room -> Players],
           NEW s \in State, Fits(s), NEW c \in Known(s), NEW r \in Room,
           NEW t \in ProbeEffect(s, c, r)
    PROVE  Ends(s, t)
<1>0. c \in Client
  BY DEF Known
<1>1. ASSUME NEW v \in Moved(s, c, r)
      PROVE  Keeps(s, Flushed(v, r))
  <2>1. Keeps(s, v) /\ v \in State
    BY MovedKeeps, NoMoreKeeps DEF Keeps
  <2> QED
    BY <2>1, FlushedKeeps, NoMoreTwice
<1>2. ASSUME NEW v, Keeps(s, v), NEW u \in Guessed(v, c, r)
      PROVE  Keeps(s, u)
  BY <1>2, GuessedKeeps, NoMoreTwice DEF Keeps
<1>3. CASE \E v \in Moved(s, c, r) : t \in Guessed(Flushed(v, r), c, r)
  BY <1>1, <1>2, <1>3, KeepsEnds
<1>4. CASE \E v \in Moved(s, c, r) : \E u \in Guessed(Flushed(v, r), c, r) :
              \E w \in Guessed(u, c, r) : t \in Saved(w, c, r)
  <2>1. PICK w : Keeps(s, w) /\ t \in Saved(w, c, r)
    BY <1>1, <1>2, <1>4
  <2>2. Ends(w, t)
    BY <1>0, <2>1, SavedEnds DEF Keeps
  <2> QED
    BY <2>1, <2>2, EndsAfterKeeps
<1> DEFINE arrived == {Flushed(v, r) : v \in Moved(s, c, r)}
           alone   == {v \in arrived : Peers(v, c) = {}}
           twice   == UNION {Guessed(v, c, r) : v \in alone}
           booted  == UNION {Guessed(u, c, r) : u \in twice}
           near    == {Guessed(v, c, r) : v \in arrived}
           kept    == {Saved(w, c, r) : w \in booted}
<1>5. t \in UNION (near \union kept)
  BY Zenon DEF ProbeEffect
<1>6. \/ \E v \in arrived : t \in Guessed(v, c, r)
      \/ \E w \in booted : t \in Saved(w, c, r)
  <2>1. (\E S \in near : t \in S) \/ (\E S \in kept : t \in S)
    <3> HIDE DEF near, kept
    <3> QED
      BY <1>5
  <2> HIDE DEF arrived, booted
  <2> QED
    BY <2>1
<1>7. ASSUME NEW w \in booted
      PROVE  \E v \in Moved(s, c, r) : \E u \in Guessed(Flushed(v, r), c, r) :
                w \in Guessed(u, c, r)
  OBVIOUS
<1> QED
  BY <1>3, <1>4, <1>6, <1>7

LEMMA RawKeeps ==
    ASSUME players \in [Room -> Players],
           NEW s \in State, Fits(s), NEW c \in Known(s), NEW r \in Room,
           NEW t \in RawEffect(s, c, r)
    PROVE  Keeps(s, t)
<1>1. PICK u \in Moved(s, c, r) : \E x \in Started(u, r) : t \in Passed(Flushed(x, r), c, r)
  BY DEF RawEffect
<1>2. PICK v \in Started(u, r) : t \in Passed(Flushed(v, r), c, r)
  BY <1>1
<1>3. Keeps(s, u) /\ u \in State /\ (Sound(u) => u.rooms[r] # {})
  BY MovedKeeps, NoMoreKeeps DEF Keeps
<1>4. Keeps(s, v) /\ v \in State
  BY <1>3, StartedKeeps, NoMoreTwice DEF Keeps
<1>5. Keeps(s, Flushed(v, r))
  BY <1>4, FlushedKeeps, NoMoreTwice
<1> DEFINE w == Flushed(v, r)
<1> HIDE DEF w
<1>6. ASSUME NEW x \in Guessed(w, c, r) PROVE Keeps(s, x)
  BY <1>5, GuessedKeeps, NoMoreTwice DEF Keeps, w
<1>7. ASSUME NEW x \in Stashed(w, r) PROVE Keeps(s, x)
  <2>1. Keeps(w, x)
    BY <1>5, StashedKeeps DEF Keeps, w
  <2> QED
    BY <1>5, <2>1, KeepsTransitive DEF w
<1> QED
  BY <1>2, <1>5, <1>6, <1>7 DEF Passed, w

LEMMA PrestartKeeps ==
    ASSUME players \in [Room -> Players],
           NEW s \in State, Fits(s), NEW c \in Known(s), NEW r \in Room,
           NEW t \in PrestartEffect(s, c, r)
    PROVE  Keeps(s, t)
  BY RawKeeps, MovedKeeps, NoMoreKeeps DEF PrestartEffect

LEMMA OtherKeeps ==
    ASSUME players \in [Room -> Players],
           NEW s \in State, Fits(s), NEW c \in Client, NEW q \in Room,
           NEW t \in OtherEffect(s, c, q)
    PROVE  Keeps(s, t)
  BY FlushedKeeps, GuessedKeeps, NoMoreKeeps DEF OtherEffect

LEMMA TinyKeeps ==
    ASSUME players \in [Room -> Players],
           NEW s \in State, Fits(s), NEW c \in Client, NEW q \in Room, s.where[c] = q,
           NEW t \in TinyEffect(s, c, q)
    PROVE  Keeps(s, t)
<1>1. ASSUME NEW u, Keeps(s, u), u.where[c] = q, NEW v \in Started(u, q)
      PROVE  Keeps(s, v)
  <2>1. u \in State /\ (Sound(u) => u.rooms[q] # {})
    BY <1>1 DEF Keeps, Sound
  <2> QED
    BY <1>1, <2>1, StartedKeeps, NoMoreTwice
<1>2. Keeps(s, s)
  BY NoMoreReflexive DEF Keeps
<1>3. CASE t \in Started(s, q)
  BY <1>1, <1>2, <1>3
<1>4. CASE \E u \in Guessed(s, c, q) :
              t \in IF u.where[c] = q THEN Started(u, q) ELSE {u}
  <2>1. PICK u \in Guessed(s, c, q) :
              t \in IF u.where[c] = q THEN Started(u, q) ELSE {u}
    BY <1>4
  <2>2. Keeps(s, u)
    BY GuessedKeeps, NoMoreKeeps
  <2> QED
    BY <1>1, <2>1, <2>2
<1>5. CASE \E u \in Started(s, q) : t \in Stashed(u, q)
  <2>1. PICK u \in Started(s, q) : t \in Stashed(u, q)
    BY <1>5
  <2>2. Keeps(s, u)
    BY <1>1, <1>2, <2>1
  <2>3. Keeps(u, t)
    BY <2>1, <2>2, StashedKeeps DEF Keeps
  <2> QED
    BY <2>2, <2>3, KeepsTransitive
<1> DEFINE found == {IF u.where[c] = q THEN Started(u, q) ELSE {u} : u \in Guessed(s, c, q)}
           kept  == {Stashed(u, q) : u \in Started(s, q)}
<1>6. t \in Started(s, q) \/ t \in UNION (found \union kept)
  BY Zenon DEF TinyEffect
<1>7. t \in Started(s, q) \/ (\E S \in found : t \in S) \/ (\E S \in kept : t \in S)
  <2> HIDE DEF found, kept
  <2> QED
    BY <1>6
<1> QED
  BY <1>3, <1>4, <1>5, <1>7

LEMMA InferredType ==
    ASSUME active \in SUBSET Room, NEW s \in State, NEW c \in Client
    PROVE  Inferred(s, c) \subseteq Room
<1> DEFINE clues == <<active, {r \in Room : players[r] >= 2}, {s.where[c]} \intersect Room,
                      Pending(s.saved), s.raw, Pending(s.rooms)>>
           clear == {i \in DOMAIN clues : Cardinality(clues[i]) = 1}
           best  == CHOOSE i \in clear : \A j \in clear : i <= j
<1>1. \A i \in DOMAIN clues : clues[i] \subseteq Room
  BY DEF State, Pending
<1>2. CASE clear = {}
  BY <1>2 DEF Inferred
<1>3. CASE clear # {}
  <2>1. clear \subseteq 1 .. 6
    OBVIOUS
  <2>2. \E i \in clear : \A j \in clear : i <= j
    <3> HIDE DEF clear
    <3>1. PICK k \in clear : TRUE
      BY <1>3
    <3>2. \A i \in clear : i \in {1, 2, 3, 4, 5, 6}
      BY <2>1
    <3>3. \/ 1 \in clear
          \/ 1 \notin clear /\ 2 \in clear
          \/ {1, 2} \intersect clear = {} /\ 3 \in clear
          \/ {1, 2, 3} \intersect clear = {} /\ 4 \in clear
          \/ {1, 2, 3, 4} \intersect clear = {} /\ 5 \in clear
          \/ {1, 2, 3, 4, 5} \intersect clear = {} /\ 6 \in clear
      BY <3>1, <3>2
    <3> QED
      BY <3>2, <3>3
  <2>3. best \in clear
    BY <2>2
  <2>4. Inferred(s, c) = clues[best]
    BY <1>3 DEF Inferred
  <2> QED
    BY <1>1, <2>3, <2>4
<1> QED
  BY <1>2, <1>3
-----------------------------------------------------------------------------
(* The invariant.  It is inductive as it stands: while nothing happens in  *)
(* the middle of a reset, what the relay's thread finds is Sound.          *)
IInv == TypeOK /\ RoomsMatch /\ StartedLive /\ Caps

LEMMA InitIInv == Init => IInv
<1> SUFFICES ASSUME Init PROVE IInv
  OBVIOUS
<1>1. TypeOK
  BY RelayAssumption DEF Init, TypeOK, State
<1>2. Known(relay) = {} /\ Pending(relay.saved) = {} /\ relay.raw = {}
  BY DEF Init, Known, Pending
<1>3. Caps
  BY <1>2, FS_EmptySet, RelayAssumption DEF Caps
<1>4. RoomsMatch /\ StartedLive
  BY RelayAssumption DEF Init, RoomsMatch, StartedLive
<1> QED
  BY <1>1, <1>3, <1>4 DEF IInv

(* The relay's thread.                                                     *)
LEMMA StepKeepsIInv ==
    ASSUME IInv, Stepped, Ends(relay, relay')
    PROVE  IInv'
<1>1. TypeOK'
  BY DEF IInv, TypeOK, Stepped, Ends
<1>2. Caps'
  BY DEF Caps, Fits, Ends
<1>3. ASSUME ~overlapped'
      PROVE  /\ resetting = NoRoom /\ resetting' = NoRoom
             /\ Sound(relay) /\ Sound(relay')
  <2>1. ~overlapped /\ resetting = NoRoom /\ resetting' = NoRoom
    BY <1>3 DEF Stepped, IInv, TypeOK
  <2>2. \A r \in Room : relay.rooms[r] = {c \in Client : relay.where[c] = r}
    BY <2>1, RelayAssumption DEF IInv, RoomsMatch
  <2>3. \A r \in relay.started : relay.rooms[r] # {}
    BY <2>1, RelayAssumption DEF IInv, TypeOK, State, StartedLive
  <2> QED
    BY <2>1, <2>2, <2>3 DEF Ends, Sound
<1>4. RoomsMatch'
  BY <1>3, RelayAssumption DEF RoomsMatch, Sound
<1>5. StartedLive'
  BY <1>3 DEF StartedLive, Sound
<1> QED
  BY <1>1, <1>2, <1>4, <1>5 DEF IInv

LEMMA PacketEnds ==
    ASSUME IInv, NEW c \in Client,
           (\E r \in Room : Probe(c, r)) \/ Raw(c) \/ Other(c)
    PROVE  Ends(relay, relay')
<1>1. /\ relay \in State /\ Fits(relay) /\ players \in [Room -> Players]
      /\ active \in SUBSET Room
  BY DEF IInv, TypeOK, Caps, Fits
<1>2. ASSUME NEW s \in Touched(relay, c)
      PROVE  Keeps(relay, s) /\ s \in State /\ Fits(s)
  BY <1>1, TouchedKeeps DEF Keeps
<1>3. ASSUME NEW r \in Room, Probe(c, r)
      PROVE  Ends(relay, relay')
  <2>1. PICK s \in Touched(relay, c) :
            relay' \in IF c \in Known(s) THEN ProbeEffect(s, c, r) ELSE {s}
    BY <1>3 DEF Probe
  <2>2. Ends(s, relay')
    <3>1. Keeps(s, s)
      BY <1>2, NoMoreReflexive DEF Keeps
    <3> QED
      BY <1>1, <1>2, <2>1, <3>1, ProbeEnds, KeepsEnds
  <2> QED
    BY <1>2, <2>2, EndsAfterKeeps
<1>4. ASSUME Raw(c)
      PROVE  Ends(relay, relay')
  <2>1. PICK s \in Touched(relay, c) :
            relay' \in IF c \in Known(s) /\ Inferred(s, c) # {}
                       THEN UNION {RawEffect(s, c, r) \union PrestartEffect(s, c, r) :
                                      r \in Inferred(s, c)}
                       ELSE {s}
    BY <1>4 DEF Raw
  <2>2. Keeps(s, relay')
    <3>1. CASE relay' = s
      BY <1>2, <3>1, NoMoreReflexive DEF Keeps
    <3>2. CASE relay' # s
      <4>1. c \in Known(s)
        BY <2>1, <3>2
      <4>2. PICK r \in Inferred(s, c) :
               relay' \in RawEffect(s, c, r) \union PrestartEffect(s, c, r)
        BY <2>1, <3>2
      <4>3. r \in Room
        BY <1>1, <1>2, <4>2, InferredType
      <4> QED
        BY <1>1, <1>2, <4>1, <4>2, <4>3, RawKeeps, PrestartKeeps
    <3> QED
      BY <3>1, <3>2
  <2> QED
    BY <1>2, <2>2, KeepsTransitive, KeepsEnds
<1>5. ASSUME Other(c)
      PROVE  Ends(relay, relay')
  <2>1. PICK s \in Touched(relay, c) :
            relay' \in IF s.where[c] \in Room
                       THEN OtherEffect(s, c, s.where[c]) \union TinyEffect(s, c, s.where[c])
                       ELSE {s}
    BY <1>5 DEF Other
  <2>2. Keeps(s, relay')
    <3>1. CASE relay' = s
      BY <1>2, <3>1, NoMoreReflexive DEF Keeps
    <3>2. CASE relay' # s
      <4>1. s.where[c] \in Room
        BY <2>1, <3>2
      <4>2. relay' \in OtherEffect(s, c, s.where[c]) \/ relay' \in TinyEffect(s, c, s.where[c])
        BY <2>1, <4>1
      <4> QED
        BY <1>1, <1>2, <4>1, <4>2, OtherKeeps, TinyKeeps
    <3> QED
      BY <3>1, <3>2
  <2> QED
    BY <1>2, <2>2, KeepsTransitive, KeepsEnds
<1> QED
  BY <1>3, <1>4, <1>5

(* The maintenance thread.                                                 *)
LEMMA ResetBeginKeepsIInv ==
    ASSUME IInv, NEW q \in Room, ResetBegin(q)
    PROVE  IInv'
<1> DEFINE m == Put(relay.rooms, q, {})
<1>1. m \in [Room -> SUBSET Client] /\ \A r \in Room : m[r] = IF r = q THEN {} ELSE relay.rooms[r]
  <2>1. relay.rooms \in [Room -> SUBSET Client]
    BY DEF IInv, TypeOK, State
  <2> QED
    BY <2>1 DEF Put
<1>2. /\ relay' \in State /\ relay'.rooms = m /\ relay'.where = relay.where
      /\ relay'.saved = relay.saved /\ relay'.raw = relay.raw
      /\ relay'.started = relay.started
  <2> HIDE DEF m
  <2> QED
    BY <1>1 DEF ResetBegin, IInv, TypeOK, State, m
<1> HIDE DEF m
<1>3. resetting = NoRoom /\ resetting' = q /\ overlapped' = overlapped
  BY DEF ResetBegin
<1>4. TypeOK'
  BY <1>2 DEF ResetBegin, IInv, TypeOK
<1>5. Caps'
  BY <1>2 DEF IInv, Caps, Known
<1>6. RoomsMatch'
  <2>1. ASSUME ~overlapped', NEW r \in Room
        PROVE  relay'.rooms[r] = IF r = q THEN {} ELSE {c \in Client : relay.where[c] = r}
    <3>1. r # resetting
      BY <1>3, RelayAssumption
    <3>2. relay.rooms[r] = {c \in Client : relay.where[c] = r}
      BY <1>3, <2>1, <3>1 DEF IInv, RoomsMatch
    <3> QED
      BY <1>1, <1>2, <3>2
  <2> QED
    BY <1>2, <1>3, <2>1 DEF RoomsMatch
<1>7. StartedLive'
  BY <1>1, <1>2, <1>3, RelayAssumption DEF IInv, TypeOK, State, StartedLive
<1> QED
  BY <1>4, <1>5, <1>6, <1>7 DEF IInv

LEMMA ResetEndKeepsIInv ==
    ASSUME IInv, ResetEnd
    PROVE  IInv'
<1> DEFINE q == resetting
           in == {c \in Client : relay.where[c] = q}
<1>1. q \in Room /\ resetting' = NoRoom /\ overlapped' = overlapped
      /\ players' = players /\ active' = active
  BY DEF ResetEnd, IInv, TypeOK
<1>2. PICK D \in SUBSET in :
          relay' = [relay EXCEPT
             !.where = [c \in Client |->
                          IF c \in D THEN Unknown
                          ELSE IF c \in in THEN NoRoom ELSE relay.where[c]],
             !.saved = Put(relay.saved, resetting, {}),
             !.raw = relay.raw \ {resetting},
             !.started = relay.started \ {resetting}]
  BY DEF ResetEnd
<1> DEFINE w == [c \in Client |-> IF c \in D THEN Unknown
                                  ELSE IF c \in in THEN NoRoom ELSE relay.where[c]]
           k == Put(relay.saved, resetting, {})
<1>3. w \in [Client -> Room \union {NoRoom, Unknown}]
  BY DEF IInv, TypeOK, State
<1>4. k \in [Room -> SUBSET Client] /\ \A r \in Room : k[r] = IF r = q THEN {} ELSE relay.saved[r]
  <2>1. relay.saved \in [Room -> SUBSET Client]
    BY DEF IInv, TypeOK, State
  <2> QED
    BY <1>1, <2>1 DEF Put
<1>5. /\ relay' \in State /\ relay'.where = w /\ relay'.rooms = relay.rooms
      /\ relay'.saved = k /\ relay'.raw = relay.raw \ {q}
      /\ relay'.started = relay.started \ {q}
  <2> HIDE DEF w, k
  <2> QED
    BY <1>2, <1>3, <1>4 DEF IInv, TypeOK, State, w, k
<1>6. TypeOK'
  BY <1>1, <1>5 DEF IInv, TypeOK
<1>7. Fits(relay')
  <2>1. Known(relay') \subseteq Known(relay)
    BY <1>1, <1>5, RelayAssumption DEF Known
  <2>2. Pending(relay'.saved) \subseteq Pending(relay.saved)
    <3> HIDE DEF k
    <3> QED
      BY <1>4, <1>5 DEF Pending
  <2>3. relay'.raw \subseteq relay.raw
    BY <1>5
  <2>4. /\ IsFiniteSet(Known(relay)) /\ IsFiniteSet(Pending(relay.saved))
        /\ IsFiniteSet(relay.raw)
    <3>1. Known(relay) \subseteq Client /\ Pending(relay.saved) \subseteq Room
          /\ relay.raw \subseteq Room
      BY DEF IInv, TypeOK, State, Pending, Known
    <3> QED
      BY <3>1, FS_Subset, RelayAssumption
  <2> QED
    BY <2>1, <2>2, <2>3, <2>4, Limits, RelayAssumption DEF IInv, Caps, Fits
<1>8. ASSUME ~overlapped', NEW r \in Room
      PROVE  relay'.rooms[r] = {c \in Client : relay'.where[c] = r}
  <2>1. relay.rooms[r] = IF r = q THEN {} ELSE {c \in Client : relay.where[c] = r}
    BY <1>1, <1>8 DEF IInv, RoomsMatch
  <2>2. ASSUME NEW c \in Client
        PROVE  w[c] = r <=> r # q /\ relay.where[c] = r
    BY <1>1, RelayAssumption
  <2> HIDE DEF w
  <2> QED
    BY <1>5, <2>1, <2>2
<1>9. RoomsMatch'
  BY <1>1, <1>8, RelayAssumption DEF RoomsMatch
<1>10. StartedLive'
  BY <1>1, <1>5 DEF IInv, StartedLive
<1> QED
  BY <1>6, <1>7, <1>9, <1>10 DEF IInv, Caps, Fits

LEMMA NextIInv == IInv /\ [Next]_vars => IInv'
<1> SUFFICES ASSUME IInv, [Next]_vars PROVE IInv'
  OBVIOUS
<1>1. ASSUME NEW c \in Client, NEW r \in Room, Probe(c, r) PROVE IInv'
  BY <1>1, PacketEnds, StepKeepsIInv DEF Probe
<1>2. ASSUME NEW c \in Client, Raw(c) \/ Other(c) PROVE IInv'
  BY <1>2, PacketEnds, StepKeepsIInv DEF Raw, Other
<1>3. CASE Idle
  <2>1. relay \in State /\ Fits(relay) /\ Stepped /\ relay' \in Cleaned(relay)
    BY <1>3 DEF Idle, IInv, TypeOK, Caps, Fits
  <2> QED
    BY <2>1, CleanedKeeps, NoMoreKeeps, KeepsEnds, StepKeepsIInv
<1>4. ASSUME NEW r \in Room, GameChanges(r) PROVE IInv'
  <2>1. relay' = relay /\ resetting' = resetting /\ overlapped' = overlapped
    BY <1>4 DEF GameChanges
  <2>2. TypeOK'
    <3>1. PICK n \in Players :
            /\ players' = [players EXCEPT ![r] = n]
            /\ active' \in IF n = 0 THEN {active \ {r}} ELSE {active, active \union {r}}
      BY <1>4 DEF GameChanges
    <3>2. players' \in [Room -> Players] /\ players'[r] = n
          /\ \A x \in Room \ {r} : players'[x] = players[x]
      BY <3>1 DEF IInv, TypeOK
    <3>3. n > 0 \/ n = 0
      BY RelayAssumption
    <3>4. ASSUME NEW x \in active' PROVE x \in Room /\ players'[x] > 0
      <4>1. \A y \in active : y \in Room /\ players[y] > 0
        BY DEF IInv, TypeOK
      <4>2. CASE n = 0
        BY <3>1, <3>2, <3>4, <4>1, <4>2
      <4>3. CASE n > 0
        <5>1. n # 0
          BY <4>3
        <5>2. x \in active \/ x = r
          BY <3>1, <3>4, <5>1
        <5> QED
          BY <3>2, <4>1, <4>3, <5>2
      <4> QED
        BY <3>3, <4>2, <4>3
    <3> QED
      BY <2>1, <3>2, <3>4 DEF IInv, TypeOK
  <2> QED
    BY <2>1, <2>2 DEF IInv, RoomsMatch, StartedLive, Caps
<1>5. ASSUME NEW r \in Room, ResetBegin(r) PROVE IInv'
  BY <1>5, ResetBeginKeepsIInv
<1>6. CASE ResetEnd
  BY <1>6, ResetEndKeepsIInv
<1>7. CASE UNCHANGED vars
  BY <1>7 DEF vars, IInv, TypeOK, RoomsMatch, StartedLive, Caps
<1> QED
  BY <1>1, <1>2, <1>3, <1>4, <1>5, <1>6, <1>7 DEF Next

(* IInv holds in every state: the relay's threads keep it.                 *)
THEOREM Invariance == Spec => []IInv
  BY InitIInv, NextIInv, PTL DEF Spec

(* TypeOK: the tables of server.py 359-375 have their types, whatever      *)
(* packets, guesses and resets do to them.                                 *)
THEOREM TypeCorrect == Spec => []TypeOK
  BY Invariance, PTL DEF IInv

(* RoomsMatch: _udp_relay_rooms and the rooms of the clients agree, unless *)
(* a packet was handled in the middle of a reset.                          *)
THEOREM RoomsMatchCorrect == Spec => []RoomsMatch
  BY Invariance, PTL DEF IInv

(* StartedLive: no room without clients is in _udp_relay_raw_started_rooms,*)
(* unless a packet was handled in the middle of a reset.                   *)
THEOREM StartedLiveCorrect == Spec => []StartedLive
  BY Invariance, PTL DEF IInv

(* Caps: the limits on clients and on rooms with packets kept hold, in and *)
(* after every reset too.                                                  *)
THEOREM CapsCorrect == Spec => []Caps
  BY Invariance, PTL DEF IInv

-----------------------------------------------------------------------------
(* What a step does to the rooms.                                          *)
LEMMA StepEnds ==
    ASSUME IInv, [Next]_vars
    PROVE  \/ Ends(relay, relay') /\ UNCHANGED players
           \/ \A r \in Room : relay'.rooms[r] \subseteq relay.rooms[r]
<1>1. ASSUME NEW c \in Client, (\E r \in Room : Probe(c, r)) \/ Raw(c) \/ Other(c)
      PROVE  Ends(relay, relay') /\ UNCHANGED players
  BY <1>1, PacketEnds DEF Probe, Raw, Other, Stepped
<1>2. CASE Idle
  <2>1. relay \in State /\ Fits(relay) /\ relay' \in Cleaned(relay) /\ UNCHANGED players
    BY <1>2 DEF Idle, Stepped, IInv, TypeOK, Caps, Fits
  <2> QED
    BY <2>1, CleanedKeeps, NoMoreKeeps, KeepsEnds
<1>3. ASSUME NEW q \in Room, ResetBegin(q)
      PROVE  \A r \in Room : relay'.rooms[r] \subseteq relay.rooms[r]
  <2>1. relay \in State /\ relay.rooms \in [Room -> SUBSET Client]
    BY DEF IInv, TypeOK, State
  <2>2. relay'.rooms = Put(relay.rooms, q, {})
    BY <1>3, <2>1 DEF ResetBegin, State
  <2> QED
    BY <2>1, <2>2 DEF Put
<1>4. CASE ResetEnd
  <2>1. relay'.rooms = relay.rooms
    BY <1>4 DEF ResetEnd, IInv, TypeOK, State
  <2> QED
    BY <2>1
<1>5. CASE (\E r \in Room : GameChanges(r)) \/ UNCHANGED vars
  <2>1. relay' = relay
    BY <1>5 DEF GameChanges, vars
  <2> QED
    BY <2>1
<1> QED
  BY <1>1, <1>2, <1>3, <1>4, <1>5 DEF Next

(* Crowd: whatever a packet moves, guesses and prunes, a room that somebody*)
(* has come into does not hold more endpoints than its game has players.   *)
THEOREM CrowdCorrect == Spec => Crowd
<1>1. ASSUME IInv, [Next]_vars, NEW r \in Room, players[r] > 0,
             ~(relay'.rooms[r] \subseteq relay.rooms[r])
      PROVE  Cardinality(relay'.rooms[r]) <= Expected(r)
  BY <1>1, StepEnds DEF Ends
<1>2. IInv /\ [Next]_vars =>
         [\A r \in Room :
             players[r] > 0 /\ ~(relay'.rooms[r] \subseteq relay.rooms[r]) =>
                 Cardinality(relay'.rooms[r]) <= Expected(r)]_vars
  BY <1>1
<1> QED
  BY <1>2, Invariance, PTL DEF Spec, Crowd

(* HandedOver: by whichever of its ways a packet brings a second peer into *)
(* a room, what was kept for the room goes out in that step, but for the   *)
(* packet itself.                                                          *)
THEOREM HandedOverCorrect == Spec => HandedOver
<1>1. ASSUME IInv, [Next]_vars, NEW r \in Room,
             Cardinality(relay.rooms[r]) < 2, Cardinality(relay'.rooms[r]) >= 2
      PROVE  Cardinality(relay'.saved[r]) <= 1
  <2>1. relay \in State
    BY <1>1 DEF IInv, TypeOK
  <2>2. ~(relay'.rooms[r] \subseteq relay.rooms[r])
    <3> SUFFICES ASSUME relay'.rooms[r] \subseteq relay.rooms[r]
                 PROVE  FALSE
      OBVIOUS
    <3>1. /\ Cardinality(relay'.rooms[r]) \in Nat /\ Cardinality(relay.rooms[r]) \in Nat
          /\ Cardinality(relay'.rooms[r]) <= Cardinality(relay.rooms[r])
      BY <2>1, RoomsFinite
    <3> QED
      BY <1>1, <3>1
  <2>3. Ends(relay, relay')
    BY <1>1, <2>2, StepEnds
  <2>4. ~(Cardinality(relay'.rooms[r]) < 2)
    <3>1. Cardinality(relay'.rooms[r]) \in Nat
      BY <2>3, RoomsFinite DEF Ends
    <3> QED
      BY <1>1, <3>1
  <2> QED
    BY <2>2, <2>3, <2>4 DEF Ends
<1>2. IInv /\ [Next]_vars =>
         [\A r \in Room :
             Cardinality(relay.rooms[r]) < 2 /\ Cardinality(relay'.rooms[r]) >= 2 =>
                 Cardinality(relay'.saved[r]) <= 1]_vars
  BY <1>1
<1> QED
  BY <1>2, Invariance, PTL DEF Spec, HandedOver

-----------------------------------------------------------------------------
(***************************************************************************)
(* RawOrder.                                                               *)
(***************************************************************************)
USE RawOrderAssumption

(* While the room has not started, whoever holds packets has an entry of   *)
(* raw_order_next: a start would give it a new one.  This is what makes    *)
(* BufferAhead inductive.                                                  *)
OpenedOK ==
    ~started => \A c \in Racer \ resumed : next[c] = Absent => buffer[c] = {}

OrderInv == OrderTypeOK /\ OpenedOK /\ BufferAhead

-----------------------------------------------------------------------------
(* A replay sends a packet or keeps it.                                    *)
LEMMA ReplayKeeps ==
    ASSUME OrderTypeOK, NEW D \in SUBSET Racer, NEW K \in SUBSET Racer
    PROVE  /\ Kept(D, K) \subseteq Racer \X Opcode
           /\ GoesOut(D, K) \subseteq Racer \X Opcode
           /\ stash \subseteq GoesOut(D, K) \union Kept(D, K)
<1>1. stash \subseteq GoesOut(D, K) \union Kept(D, K)
  BY DEF Kept, GoesOut
<1> QED
  BY <1>1 DEF OrderTypeOK, Kept, GoesOut

(* What starting the order of a client does to its entry.                  *)
LEMMA OpensKeeps ==
    ASSUME OrderInv, NEW c \in Racer, NEW op \in Opcode
    PROVE  /\ Opens(c, op) \in [Racer -> {Absent} \union (First + 1) .. (Last + 1)]
           /\ \A x \in Racer \ resumed : \A k \in buffer[x] : k > Due(Opens(c, op), x)
           /\ Opens(c, op) # next => op \in Ordered /\ Due(Opens(c, op), c) = op
<1>1. CASE ~started /\ op \in Ordered \ {First} /\ next[c] = Absent
  <2>1. Opens(c, op) = [next EXCEPT ![c] = op]
    BY <1>1 DEF Opens
  <2>2. op \in (First + 1) .. (Last + 1)
    BY <1>1 DEF Ordered
  <2>3. Opens(c, op) \in [Racer -> {Absent} \union (First + 1) .. (Last + 1)]
    BY <2>1, <2>2 DEF OrderInv, OrderTypeOK
  <2>4. Due(Opens(c, op), c) = op
    BY <2>1, <2>2 DEF OrderInv, OrderTypeOK, Due, Absent
  <2>5. c \notin resumed => buffer[c] = {}
    BY <1>1 DEF OrderInv, OpenedOK
  <2>6. \A x \in Racer \ {c} : Due(Opens(c, op), x) = Due(next, x)
    BY <2>1 DEF OrderInv, OrderTypeOK, Due
  <2> QED
    BY <1>1, <2>3, <2>4, <2>5, <2>6 DEF OrderInv, BufferAhead
<1>2. CASE ~(~started /\ op \in Ordered \ {First} /\ next[c] = Absent)
  <2>1. Opens(c, op) = next
    BY <1>2 DEF Opens
  <2> QED
    BY <2>1 DEF OrderInv, OrderTypeOK, BufferAhead
<1> QED
  BY <1>1, <1>2

-----------------------------------------------------------------------------
(* What a packet that somebody receives does to the order, and what goes   *)
(* out: out is what was sent and n the entries when the packet came to be  *)
(* passed on. *)
LEMMA PassKeeps ==
    ASSUME OrderInv, NEW c \in Racer, NEW op \in Opcode,
           NEW n \in [Racer -> {Absent} \union (First + 1) .. (Last + 1)],
           NEW out \in SUBSET (Racer \X Opcode),
           \A x \in Racer \ resumed : \A k \in buffer[x] : k > Due(n, x),
           Pass(c, op, n, out)
    PROVE  /\ next' \in [Racer -> {Absent} \union (First + 1) .. (Last + 1)]
           /\ buffer' \in [Racer -> SUBSET Ordered]
           /\ sent' \subseteq Racer \X Opcode
           /\ \A x \in Racer \ resumed : \A k \in buffer'[x] : k > Due(next', x)
           /\ out \subseteq sent'
           /\ op \in buffer'[c] \/ <<c, op>> \in sent'
           /\ \A x \in Racer : \A k \in buffer[x] \ buffer'[x] : <<x, k>> \in sent'
<1>0. buffer \in [Racer -> SUBSET Ordered]
  BY DEF OrderInv, OrderTypeOK
<1>1. CASE Hold(c, op, n, out)
  <2>1. /\ op \in Ordered /\ op > Due(n, c) /\ next' = n
        /\ buffer' = [buffer EXCEPT ![c] = @ \union {op}]
        /\ sent' = out
    BY <1>1 DEF Hold
  <2>2. buffer' \in [Racer -> SUBSET Ordered]
    BY <1>0, <2>1
  <2>3. \A x \in Racer \ resumed : \A k \in buffer'[x] : k > Due(next', x)
    BY <1>0, <2>1
  <2>4. /\ op \in buffer'[c]
        /\ \A x \in Racer : buffer[x] \subseteq buffer'[x]
    BY <1>0, <2>1
  <2> QED
    BY <2>1, <2>2, <2>3, <2>4
<1>2. CASE InTurn(c, op, n, out)
  <2>1. PICK gap \in (op + 1) .. (Last + 1) :
           /\ gap \notin buffer[c]
           /\ (op + 1) .. (gap - 1) \subseteq buffer[c]
           /\ next' = [n EXCEPT ![c] = gap]
           /\ buffer' = [buffer EXCEPT ![c] = @ \ (op + 1) .. (gap - 1)]
           /\ sent' = out \union {<<c, k>> : k \in op .. (gap - 1)}
    BY <1>2 DEF InTurn
  <2>2. op \in Ordered /\ op = Due(n, c)
    BY <1>2 DEF InTurn
  <2>3. gap \in (First + 1) .. (Last + 1)
    BY <2>1, <2>2 DEF Ordered
  <2>4. /\ next' \in [Racer -> {Absent} \union (First + 1) .. (Last + 1)]
        /\ buffer' \in [Racer -> SUBSET Ordered]
    BY <1>0, <2>1, <2>3
  <2>5. ASSUME NEW x \in Racer \ resumed, NEW k \in buffer'[x]
        PROVE  k > Due(next', x)
    <3>1. CASE x = c
      <4>1. k \in buffer[c] /\ k \notin (op + 1) .. (gap - 1) /\ k # gap
        BY <1>0, <2>1, <2>5, <3>1
      <4>2. k \in Nat /\ k > op
        BY <1>0, <2>2, <2>5, <3>1, <4>1 DEF Ordered
      <4>3. Due(next', c) = gap
        BY <2>1, <2>3 DEF Due, Absent
      <4> QED
        BY <2>1, <2>2, <3>1, <4>1, <4>2, <4>3 DEF Ordered
    <3>2. CASE x # c
      <4>1. buffer'[x] = buffer[x] /\ Due(next', x) = Due(n, x)
        BY <1>0, <2>1, <3>2 DEF Due
      <4> QED
        BY <2>5, <4>1
    <3> QED
      BY <3>1, <3>2
  <2>6. /\ op \in op .. (gap - 1)
        /\ (op + 1) .. (gap - 1) \subseteq op .. (gap - 1)
        /\ op .. (gap - 1) \subseteq Opcode
    BY <2>2, <2>3, <2>1 DEF Ordered, Opcode
  <2>7. sent' \subseteq Racer \X Opcode /\ <<c, op>> \in sent'
    BY <2>1, <2>6
  <2>8. ASSUME NEW x \in Racer, NEW k \in buffer[x] \ buffer'[x]
        PROVE  <<x, k>> \in sent'
    <3>1. x = c /\ k \in (op + 1) .. (gap - 1)
      BY <1>0, <2>1, <2>8
    <3> QED
      BY <2>1, <2>6, <3>1
  <2> QED
    BY <2>1, <2>4, <2>5, <2>7, <2>8
<1>3. CASE OutOfTurn(c, op, n, out)
  BY <1>0, <1>3 DEF OutOfTurn
<1> QED
  BY <1>1, <1>2, <1>3 DEF Pass

-----------------------------------------------------------------------------
LEMMA EnterKeeps ==
    ASSUME OrderInv, NEW c \in Racer, Enter(c)
    PROVE  /\ OrderInv'
           /\ stash \subseteq sent' \union stash'
<1> DEFINE K == known \union {c}
           D == IF c \notin members /\ members # {} THEN {c} ELSE {}
<1>1. /\ known' = K /\ members' = members \union {c}
      /\ stash' = Kept(D, K) /\ sent' = GoesOut(D, K)
      /\ UNCHANGED <<started, next, buffer, rawSent, resumed>>
  BY DEF Enter
<1>2. D \in SUBSET Racer /\ K \in SUBSET Racer
  BY DEF OrderInv, OrderTypeOK
<1>3. /\ Kept(D, K) \subseteq Racer \X Opcode
      /\ GoesOut(D, K) \subseteq Racer \X Opcode
      /\ stash \subseteq GoesOut(D, K) \union Kept(D, K)
  BY <1>2, ReplayKeeps DEF OrderInv
<1> HIDE DEF D, K
<1>4. OrderTypeOK'
  <2>1. known' \subseteq Racer /\ members' \subseteq known'
    BY <1>1, <1>2 DEF OrderInv, OrderTypeOK, K
  <2> QED
    BY <1>1, <1>3, <2>1 DEF OrderInv, OrderTypeOK
<1>5. OpenedOK' /\ BufferAhead'
  BY <1>1 DEF OrderInv, OpenedOK, BufferAhead, Due
<1> QED
  BY <1>1, <1>3, <1>4, <1>5 DEF OrderInv

LEMMA RawPacketKeeps ==
    ASSUME OrderInv, NEW c \in Racer, NEW op \in Opcode, RawPacket(c, op)
    PROVE  /\ OrderInv'
           /\ stash \subseteq sent' \union stash'
           /\ \A x \in Racer : \A k \in buffer[x] \ buffer'[x] : <<x, k>> \in sent'
           /\ \/ <<c, op>> \in sent' \union stash'
              \/ op \in buffer'[c]
              \/ NoPlace(c)
<1> DEFINE K == known \union {c}
           D == IF started /\ (c \in members \/ members = {}) THEN {} ELSE {c}
           n == Opens(c, op)
<1>1. /\ known' = K /\ started' = TRUE /\ rawSent' = rawSent \union {c}
      /\ resumed' = resumed
  BY DEF RawPacket
<1>2. /\ n \in [Racer -> {Absent} \union (First + 1) .. (Last + 1)]
      /\ \A x \in Racer \ resumed : \A k \in buffer[x] : k > Due(n, x)
  BY OpensKeeps
<1>3. \E E \in SUBSET Racer :
        \/ /\ members' \subseteq known'
           /\ stash' = Kept(E, K)
           /\ Pass(c, op, n, GoesOut(E, K))
        \/ /\ members' \subseteq known' /\ members' = {c}
           /\ SetAside(c, op, n, GoesOut(E, K), Kept(E, K))
  <2>1. D \in SUBSET Racer
    OBVIOUS
  <2>2. CASE /\ members \ {c} # {}
             /\ members' = members \union {c}
             /\ stash' = Kept(D, K)
             /\ Pass(c, op, n, GoesOut(D, K))
    <3>1. members' \subseteq known'
      BY <1>1, <2>2 DEF OrderInv, OrderTypeOK
    <3> HIDE DEF D, K, n
    <3> QED
      BY <2>1, <2>2, <3>1
  <2>3. CASE /\ members \subseteq {c}
             /\ members' = {c}
             /\ \/ SetAside(c, op, n, GoesOut(D, K), Kept(D, K))
                \/ /\ known \ {c} # {}
                   /\ stash' = Kept(D, K)
                   /\ Pass(c, op, n, GoesOut(D, K))
    <3>1. members' \subseteq known'
      BY <1>1, <2>3
    <3> HIDE DEF D, K, n
    <3> QED
      BY <2>1, <2>3, <3>1
  <2>4. ASSUME NEW b \in known \ {c},
               members' = {c, b},
               stash' = Kept(D \union {b}, K),
               Pass(c, op, n, GoesOut(D \union {b}, K))
        PROVE  \E E \in SUBSET Racer :
                 /\ members' \subseteq known'
                 /\ stash' = Kept(E, K)
                 /\ Pass(c, op, n, GoesOut(E, K))
    <3>1. members' \subseteq known' /\ D \union {b} \in SUBSET Racer
      BY <1>1, <2>1, <2>4 DEF OrderInv, OrderTypeOK
    <3> HIDE DEF D, K, n
    <3> QED
      BY <2>4, <3>1
  <2> QED
    BY <2>2, <2>3, <2>4 DEF RawPacket
<1>4. PICK E \in SUBSET Racer :
        \/ /\ members' \subseteq known'
           /\ stash' = Kept(E, K)
           /\ Pass(c, op, n, GoesOut(E, K))
        \/ /\ members' \subseteq known' /\ members' = {c}
           /\ SetAside(c, op, n, GoesOut(E, K), Kept(E, K))
  BY <1>3
<1> DEFINE out == GoesOut(E, K)
           left == Kept(E, K)
<1>5. /\ left \subseteq Racer \X Opcode
      /\ out \subseteq Racer \X Opcode
      /\ stash \subseteq out \union left
  <2>1. K \in SUBSET Racer
    BY DEF OrderInv, OrderTypeOK
  <2> HIDE DEF K
  <2> QED
    BY <2>1, ReplayKeeps DEF OrderInv
<1>6. /\ known' \subseteq Racer
      /\ rawSent' \subseteq Racer
      /\ OpenedOK'
  BY <1>1 DEF OrderInv, OrderTypeOK, OpenedOK
<1> HIDE DEF K, D, n, out, left
<1>7. CASE members' \subseteq known' /\ stash' = left /\ Pass(c, op, n, out)
  <2>1. /\ next' \in [Racer -> {Absent} \union (First + 1) .. (Last + 1)]
        /\ buffer' \in [Racer -> SUBSET Ordered]
        /\ sent' \subseteq Racer \X Opcode
        /\ \A x \in Racer \ resumed : \A k \in buffer'[x] : k > Due(next', x)
        /\ out \subseteq sent'
        /\ op \in buffer'[c] \/ <<c, op>> \in sent'
        /\ \A x \in Racer : \A k \in buffer[x] \ buffer'[x] : <<x, k>> \in sent'
    BY <1>2, <1>5, <1>7, PassKeeps
  <2>2. OrderTypeOK'
    BY <1>1, <1>5, <1>6, <1>7, <2>1 DEF OrderInv, OrderTypeOK
  <2>3. BufferAhead'
    BY <1>1, <1>7, <2>1 DEF BufferAhead, Due
  <2>4. stash \subseteq sent' \union stash'
    BY <1>5, <1>7, <2>1
  <2> QED
    BY <1>6, <2>1, <2>2, <2>3, <2>4 DEF OrderInv
<1>8. CASE /\ members' \subseteq known' /\ members' = {c}
           /\ SetAside(c, op, n, out, left)
  <2>1. /\ next' = n /\ buffer' = buffer /\ sent' = out
        /\ \/ stash' = left \union {<<c, op>>}
           \/ /\ stash' = left
              /\ left = {} \/ Cardinality(left) >= StashMax
    BY <1>8 DEF SetAside
  <2>2. stash' \subseteq Racer \X Opcode
    BY <1>5, <2>1
  <2>3. OrderTypeOK'
    BY <1>1, <1>2, <1>5, <1>6, <1>8, <2>1, <2>2 DEF OrderInv, OrderTypeOK
  <2>4. BufferAhead'
    BY <1>1, <1>2, <2>1 DEF BufferAhead, Due
  <2>5. stash \subseteq sent' \union stash'
    BY <1>5, <2>1
  <2>6. <<c, op>> \in stash' \/ NoPlace(c)
    BY <1>8, <2>1 DEF NoPlace
  <2> QED
    BY <1>6, <2>1, <2>3, <2>4, <2>5, <2>6 DEF OrderInv
<1> QED
  BY <1>4, <1>7, <1>8 DEF out, left

LEMMA LeaveKeeps ==
    ASSUME OrderInv, NEW c \in Racer, Leave(c)
    PROVE  OrderInv'
<1>1. OrderTypeOK'
  BY DEF OrderInv, OrderTypeOK, Leave, Unopened
<1>2. OpenedOK'
  BY DEF OrderInv, OpenedOK, Leave, Unopened
<1>3. BufferAhead'
  BY DEF OrderInv, BufferAhead, Leave, Due
<1> QED
  BY <1>1, <1>2, <1>3 DEF OrderInv

LEMMA DropKeeps ==
    ASSUME OrderInv, NEW c \in Racer, Drop(c)
    PROVE  OrderInv'
<1>1. /\ next' = [next EXCEPT ![c] = Absent]
      /\ buffer' = [buffer EXCEPT ![c] = {}]
      /\ resumed \ {c} \subseteq resumed'
  BY DEF Drop
<1>2. next' \in [Racer -> {Absent} \union (First + 1) .. (Last + 1)]
      /\ buffer' \in [Racer -> SUBSET Ordered]
  BY <1>1 DEF OrderInv, OrderTypeOK
<1>3. OrderTypeOK'
  BY <1>2 DEF OrderInv, OrderTypeOK, Drop, Unopened
<1>4. OpenedOK'
  BY <1>1 DEF OrderInv, OrderTypeOK, OpenedOK, Drop, Unopened
<1>5. BufferAhead'
  BY <1>1 DEF OrderInv, OrderTypeOK, BufferAhead, Due
<1> QED
  BY <1>3, <1>4, <1>5 DEF OrderInv

LEMMA ResetKeeps ==
    ASSUME OrderInv, NEW idle, Reset(idle)
    PROVE  OrderInv'
<1>1. /\ next' \in [Racer -> {Absent} \union (First + 1) .. (Last + 1)]
      /\ buffer' \in [Racer -> SUBSET Ordered]
  BY DEF OrderInv, OrderTypeOK, Reset
<1>2. OrderTypeOK'
  BY <1>1 DEF OrderInv, OrderTypeOK, Reset, Unopened
<1>3. \A x \in Racer :
         \/ x \in idle /\ buffer'[x] = {}
         \/ x \notin idle /\ buffer'[x] = buffer[x] /\ next'[x] = next[x]
  BY DEF Reset
<1>4. \A x \in Racer \ resumed' :
         buffer'[x] = {} \/ (x \notin resumed /\ x \notin Unopened)
  BY <1>3 DEF Reset
<1>5. OpenedOK'
  BY <1>3, <1>4 DEF OpenedOK, Unopened
<1>6. BufferAhead'
  BY <1>3, <1>4 DEF OrderInv, BufferAhead, Due
<1> QED
  BY <1>2, <1>5, <1>6 DEF OrderInv

LEMMA ExpireKeeps ==
    ASSUME OrderInv, Expire
    PROVE  OrderInv'
<1>1. OrderTypeOK'
  BY DEF OrderInv, OrderTypeOK, Expire
<1>2. OpenedOK' /\ BufferAhead'
  BY DEF OrderInv, OrderTypeOK, OpenedOK, BufferAhead, Expire, Due
<1> QED
  BY <1>1, <1>2 DEF OrderInv

-----------------------------------------------------------------------------
(* The inductive invariant: types, and no packet held that could go out.   *)
THEOREM OrderInvariance == OrderSpec => []OrderInv
<1>1. OrderInit => OrderInv
  BY DEF OrderInit, OrderInv, OrderTypeOK, OpenedOK, BufferAhead
<1>2. OrderInv /\ [OrderNext]_orderVars => OrderInv'
  <2> SUFFICES ASSUME OrderInv, [OrderNext]_orderVars PROVE OrderInv'
    OBVIOUS
  <2>1. CASE UNCHANGED orderVars
    BY <2>1 DEF orderVars, OrderInv, OrderTypeOK, OpenedOK, BufferAhead, Due
  <2>2. ASSUME NEW c \in Racer, Enter(c) \/ Leave(c) \/ Drop(c) PROVE OrderInv'
    BY <2>2, EnterKeeps, LeaveKeeps, DropKeeps
  <2>3. ASSUME NEW c \in Racer, NEW op \in Opcode, RawPacket(c, op) PROVE OrderInv'
    BY <2>3, RawPacketKeeps
  <2>4. ASSUME NEW idle \in SUBSET Racer, Reset(idle) PROVE OrderInv'
    BY <2>4, ResetKeeps
  <2> QED
    BY <2>1, <2>2, <2>3, <2>4, ExpireKeeps DEF OrderNext
<1> QED
  BY <1>1, <1>2, PTL DEF OrderSpec

(* Nothing is held that could go out, except for clients that came back to *)
(* a room that had been empty.                                             *)
THEOREM BufferAheadCorrect == OrderSpec => []BufferAhead
  BY OrderInvariance, PTL DEF OrderInv

(* What a client leaves behind when it goes to another room or when the    *)
(* room is left by all is what the step leaves alone: the packets that     *)
(* are held and those that are kept aside. *)
LEMMA LostStep ==
    ASSUME OrderInv, OrderNext, NEW c \in Racer, NEW op \in Opcode
    PROVE  /\ op \in buffer[c] \ buffer'[c] => <<c, op>> \in sent' \/ c \notin known'
           /\ <<c, op>> \in stash \ stash' => <<c, op>> \in sent' \/ GivesUpRoom
<1>0. buffer \in [Racer -> SUBSET Ordered]
  BY DEF OrderInv, OrderTypeOK
<1>1. ASSUME NEW x \in Racer, Enter(x) PROVE buffer' = buffer
  BY <1>1 DEF Enter
<1>2. ASSUME NEW x \in Racer, Leave(x) PROVE buffer' = buffer /\ stash' = stash
  BY <1>2 DEF Leave
<1>3. ASSUME NEW x \in Racer, Drop(x)
      PROVE  /\ op \in buffer[c] \ buffer'[c] => c \notin known'
             /\ stash' = stash \/ GivesUpRoom
  BY <1>0, <1>3 DEF Drop, GivesUpRoom
<1>4. ASSUME NEW idle \in SUBSET Racer, Reset(idle)
      PROVE  /\ op \in buffer[c] \ buffer'[c] => c \notin known'
             /\ GivesUpRoom
  BY <1>0, <1>4 DEF Reset, GivesUpRoom
<1>5. CASE Expire
  BY <1>5 DEF Expire, GivesUpRoom
<1>6. ASSUME NEW x \in Racer, NEW k \in Opcode, RawPacket(x, k)
      PROVE  /\ stash \subseteq sent' \union stash'
             /\ op \in buffer[c] \ buffer'[c] => <<c, op>> \in sent'
  BY <1>6, RawPacketKeeps
<1> QED
  BY <1>1, <1>2, <1>3, <1>4, <1>5, <1>6, EnterKeeps DEF OrderNext

(* What the relay has taken of a client's raw packets goes out or is kept, *)
(* but for the packets it has no place for and for the rooms and clients   *)
(* it gives up.                                                            *)
THEOREM NothingLostCorrect == OrderSpec => NothingLost
<1> DEFINE Step(c, op) ==
             /\ RawPacket(c, op) =>
                   \/ <<c, op>> \in sent' \union stash'
                   \/ op \in buffer'[c]
                   \/ NoPlace(c)
             /\ op \in buffer[c] \ buffer'[c] =>
                   <<c, op>> \in sent' \/ c \notin known'
             /\ <<c, op>> \in stash \ stash' =>
                   <<c, op>> \in sent' \/ GivesUpRoom
<1>1. OrderInv /\ [OrderNext]_orderVars =>
         [\A c \in Racer, op \in Opcode : Step(c, op)]_orderVars
  <2> SUFFICES ASSUME OrderInv, OrderNext, NEW c \in Racer, NEW op \in Opcode
               PROVE  Step(c, op)
    OBVIOUS
  <2>1. RawPacket(c, op) =>
           \/ <<c, op>> \in sent' \union stash'
           \/ op \in buffer'[c]
           \/ NoPlace(c)
    BY RawPacketKeeps
  <2> QED
    BY <2>1, LostStep
<1> QED
  BY <1>1, OrderInvariance, PTL DEF OrderSpec, NothingLost
=============================================================================
