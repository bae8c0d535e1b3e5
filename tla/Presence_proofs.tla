-------------------------- MODULE Presence_proofs --------------------------
(***************************************************************************)
(* Theorems about Presence, for any users, games and number of timers:     *)
(* every variable keeps its type, nobody is shown a player who is gone     *)
(* without the notice that says so being under way, and a promoted guest   *)
(* has been sent the staging frames.  The argument is about the order of   *)
(* what is in `later': behind each frame that still names a player who has *)
(* left comes the notice of the departure.                                 *)
(***************************************************************************)
EXTENDS Presence, SequenceTheorems, TLAPS

-----------------------------------------------------------------------------
(* The operators of Games.                                                 *)
LEMMA MembersOK == ASSUME NEW g \in Game PROVE Members(g) \in SUBSET Uid
BY DEF Members, Game, Entry

LEMMA JoinOK ==
    ASSUME NEW g \in Game, NEW u \in Uid
    PROVE  /\ AddPlayer(g, u) \in Game
           /\ AddPlayer(g, u).state = g.state
           /\ Members(g) \subseteq Members(AddPlayer(g, u))
           /\ Members(AddPlayer(g, u)) \subseteq Members(g) \union {u}
<1>1. CASE Joins(g, u)
  <2> DEFINE h == [g EXCEPT !.parts = g.parts \union {<<u, 0>>}]
  <2>1. AddPlayer(g, u) = h
    BY <1>1 DEF AddPlayer
  <2>2. h \in Game /\ h.state = g.state /\ h.parts = g.parts \union {<<u, 0>>}
    BY DEF Game, Entry
  <2> HIDE DEF h
  <2>3. Members(h) = Members(g) \union {<<u, 0>>[1]}
    BY <2>2 DEF Members
  <2> QED
    BY <2>1, <2>2, <2>3
<1>2. CASE ~Joins(g, u)
  BY <1>2 DEF AddPlayer
<1> QED
  BY <1>1, <1>2

LEMMA LeaveOK ==
    ASSUME NEW g \in Game, NEW u \in Uid
    PROVE  /\ RemovePlayer(g, u) \in Game
           /\ RemovePlayer(g, u).state = g.state
           /\ Members(g) \ {u} \subseteq Members(RemovePlayer(g, u))
           /\ Members(RemovePlayer(g, u)) \subseteq Members(g)
<1> DEFINE e == <<u, Times(g, u) - 1>>
           h == RemovePlayer(g, u)
<1>1. /\ h \in Game /\ h.state = g.state /\ h.parts = g.parts \ {e}
  BY DEF RemovePlayer, Game
<1>2. e[1] = u
  OBVIOUS
<1> HIDE DEF e, h
<1>3. Members(g) \ {u} \subseteq Members(h)
  BY <1>1, <1>2 DEF Members
<1>4. Members(h) \subseteq Members(g)
  BY <1>1 DEF Members
<1> QED
  BY <1>1, <1>3, <1>4 DEF h

LEMMA StartOK ==
    ASSUME NEW g \in Game
    PROVE  /\ Start(g) \in Game
           /\ Start(g).state = "ACTIVE"
           /\ Members(Start(g)) = Members(g)
BY DEF Start, Game, Members

LEMMA OpenOK ==
    ASSUME NEW u \in Uid, NEW l \in Limits
    PROVE  /\ AddPlayer(NewGame(u, l), u) \in Game
           /\ Members(AddPlayer(NewGame(u, l), u)) \subseteq {u}
<1>1. NewGame(u, l) \in Game
  BY DEF NewGame, Game
<1>2. Members(NewGame(u, l)) = {}
  BY DEF NewGame, Members
<1> QED
  BY <1>1, <1>2, JoinOK

-----------------------------------------------------------------------------
(* Lists: one or two entries more at the end, or one fewer.                *)
LEMMA Longer ==
    ASSUME NEW S, NEW s \in Seq(S), NEW x \in S, NEW y \in S
    PROVE  /\ s \o <<>> = s
           /\ s \o <<x>> = Append(s, x)
           /\ s \o <<x, y>> = Append(Append(s, x), y)
OBVIOUS

LEMMA OneMore ==
    ASSUME NEW S, NEW s \in Seq(S), NEW x \in S
    PROVE  /\ Append(s, x) \in Seq(S)
           /\ Len(s) \in Nat
           /\ Len(Append(s, x)) = Len(s) + 1
           /\ Append(s, x)[Len(s) + 1] = x
           /\ \A k \in 1 .. Len(s) : Append(s, x)[k] = s[k]
OBVIOUS

Less(s, k) == SubSeq(s, 1, k - 1) \o SubSeq(s, k + 1, Len(s))

LEMMA OneLess ==
    ASSUME NEW S, NEW s \in Seq(S), NEW k \in 1 .. Len(s)
    PROVE  /\ Less(s, k) \in Seq(S)
           /\ Len(s) \in Nat
           /\ Len(Less(s, k)) = Len(s) - 1
           /\ \A j \in 1 .. (Len(s) - 1) :
                 Less(s, k)[j] = IF j < k THEN s[j] ELSE s[j + 1]
<1> DEFINE a == SubSeq(s, 1, k - 1)
           b == SubSeq(s, k + 1, Len(s))
<1>1. Len(s) \in Nat
  OBVIOUS
<1>2. a \in Seq(S) /\ Len(a) = k - 1 /\ \A j \in 1 .. (k - 1) : a[j] = s[j]
  BY <1>1
<1>3. /\ b \in Seq(S) /\ Len(b) = Len(s) - k
      /\ \A j \in 1 .. (Len(s) - k) : b[j] = s[k + j]
  BY <1>1
<1> HIDE DEF a, b
<1>4. a \o b \in Seq(S) /\ Len(a \o b) = Len(s) - 1
  <2>1. a \o b \in Seq(S) /\ Len(a \o b) = Len(a) + Len(b)
    BY <1>2, <1>3, ConcatProperties
  <2> QED
    BY <1>1, <1>2, <1>3, <2>1
<1>5. ASSUME NEW j \in 1 .. (Len(s) - 1)
      PROVE  (a \o b)[j] = IF j < k THEN s[j] ELSE s[j + 1]
  <2>1. j \in 1 .. (Len(a) + Len(b))
    BY <1>1, <1>2, <1>3
  <2>2. (a \o b)[j] = IF j <= Len(a) THEN a[j] ELSE b[j - Len(a)]
    BY <1>2, <1>3, <2>1, ConcatProperties
  <2>3. CASE j < k
    BY <1>1, <1>2, <2>2, <2>3
  <2>4. CASE ~(j < k)
    <3>1. j - (k - 1) \in 1 .. (Len(s) - k) /\ k + (j - (k - 1)) = j + 1
      BY <1>1, <2>4
    <3>2. b[j - (k - 1)] = s[j + 1]
      BY <1>3, <3>1
    <3> QED
      BY <1>1, <1>2, <2>2, <2>4, <3>2
  <2> QED
    BY <2>3, <2>4
<1> QED
  BY <1>1, <1>4, <1>5 DEF a, b, Less

-----------------------------------------------------------------------------
(***************************************************************************)
(* The types.  What is in `later' is about games that have been created,   *)
(* and a staging timer has its guest.                                      *)
(***************************************************************************)
ItemOK(x, n) == x \in Pending /\ x.room < n /\ (x.kind = "staging" => x.to # {})

ListOK(s, n) == s \in Seq(Pending) /\ \A k \in 1 .. Len(s) : ItemOK(s[k], n)

TypeInv ==
    /\ TypeOK
    /\ \A i \in GameId : i >= counter => table[i] = NoGame
    /\ ListOK(later, counter)

LEMMA ListGrows ==
    ASSUME NEW s, NEW n \in Nat, NEW m \in Nat, ListOK(s, n), n <= m
    PROVE  ListOK(s, m)
BY GamesAssumption DEF ListOK, ItemOK, Pending, GameId

LEMMA ListAppend ==
    ASSUME NEW s, NEW n \in Nat, ListOK(s, n), NEW x, ItemOK(x, n)
    PROVE  ListOK(Append(s, x), n)
<1>1. s \in Seq(Pending) /\ x \in Pending
  BY DEF ListOK, ItemOK
<1>2. /\ Append(s, x) \in Seq(Pending) /\ Len(s) \in Nat
      /\ Len(Append(s, x)) = Len(s) + 1 /\ Append(s, x)[Len(s) + 1] = x
      /\ \A k \in 1 .. Len(s) : Append(s, x)[k] = s[k]
  BY <1>1, OneMore
<1>3. \A k \in 1 .. (Len(s) + 1) : k = Len(s) + 1 \/ k \in 1 .. Len(s)
  BY <1>2
<1> QED
  BY <1>2, <1>3 DEF ListOK

LEMMA ListLess ==
    ASSUME NEW s, NEW n \in Nat, ListOK(s, n), NEW k \in 1 .. Len(s)
    PROVE  ListOK(Less(s, k), n)
<1>1. s \in Seq(Pending)
  BY DEF ListOK
<1>2. /\ Less(s, k) \in Seq(Pending) /\ Len(s) \in Nat /\ Len(Less(s, k)) = Len(s) - 1
      /\ \A j \in 1 .. (Len(s) - 1) : Less(s, k)[j] = IF j < k THEN s[j] ELSE s[j + 1]
  BY <1>1, OneLess
<1>3. \A j \in 1 .. (Len(s) - 1) : Less(s, k)[j] = s[j] \/ Less(s, k)[j] = s[j + 1]
  BY <1>2
<1>4. \A j \in 1 .. (Len(s) - 1) : j \in 1 .. Len(s) /\ j + 1 \in 1 .. Len(s)
  BY <1>2
<1> QED
  BY <1>2, <1>3, <1>4 DEF ListOK

(* Fewer addressees of one entry. *)
Narrow(s, k, rest) == [s EXCEPT ![k].to = rest]

LEMMA NarrowOK ==
    ASSUME NEW s \in Seq(Pending), NEW k \in 1 .. Len(s), NEW rest \in SUBSET Uid
    PROVE  /\ Narrow(s, k, rest) \in Seq(Pending)
           /\ Len(Narrow(s, k, rest)) = Len(s)
           /\ \A j \in 1 .. Len(s) : j # k => Narrow(s, k, rest)[j] = s[j]
           /\ Narrow(s, k, rest)[k] \in Pending
           /\ Narrow(s, k, rest)[k].kind = s[k].kind
           /\ Narrow(s, k, rest)[k].room = s[k].room
           /\ Narrow(s, k, rest)[k].who = s[k].who
           /\ Narrow(s, k, rest)[k].to = rest
<1> DEFINE x == [s[k] EXCEPT !.to = rest]
<1>1. s[k] \in Pending /\ Len(s) \in Nat /\ s \in [1 .. Len(s) -> Pending]
  OBVIOUS
<1>2. /\ x \in Pending /\ x.kind = s[k].kind /\ x.room = s[k].room /\ x.who = s[k].who
      /\ x.to = rest
  BY <1>1 DEF Pending
<1> HIDE DEF x
<1>3. [s EXCEPT ![k] = x] \in [1 .. Len(s) -> Pending]
  BY <1>1, <1>2
<1>4. /\ [s EXCEPT ![k] = x] \in Seq(Pending) /\ Len([s EXCEPT ![k] = x]) = Len(s)
      /\ \A j \in 1 .. Len(s) : j # k => [s EXCEPT ![k] = x][j] = s[j]
      /\ [s EXCEPT ![k] = x][k] = x
  BY <1>1, <1>2
<1>5. Narrow(s, k, rest) = [s EXCEPT ![k] = x]
  BY DEF Narrow, x
<1> QED
  BY <1>2, <1>4, <1>5

LEMMA ListNarrow ==
    ASSUME NEW s, NEW n \in Nat, ListOK(s, n), NEW k \in 1 .. Len(s),
           NEW rest \in SUBSET Uid, s[k].kind # "staging"
    PROVE  ListOK(Narrow(s, k, rest), n)
BY NarrowOK DEF ListOK, ItemOK

(* What Send and SentTo do to the list. *)
LEMMA ListSentTo ==
    ASSUME TypeInv, NEW k \in 1 .. Len(later), NEW v \in Uid, v \in later[k].to,
           later[k].kind # "staging", SentTo(k, v)
    PROVE  ListOK(later', counter)
<1>1. later \in Seq(Pending) /\ counter \in Nat /\ ListOK(later, counter)
  BY GamesAssumption DEF TypeInv, TypeOK
<1>2. CASE later[k].to \ {v} = {}
  BY <1>1, <1>2, ListLess DEF SentTo, Without, Less
<1>3. CASE later[k].to \ {v} # {}
  <2>1. later[k] \in Pending
    BY <1>1
  <2>2. later[k].to \ {v} \in SUBSET Uid
    BY <2>1 DEF Pending
  <2> QED
    BY <1>1, <1>3, <2>2, ListNarrow DEF SentTo, Narrow
<1> QED
  BY <1>2, <1>3

(* A user in a game, and the table when the user has left it. *)
LEMMA InGameOK ==
    ASSUME TypeInv, NEW u \in Uid, InGame(u)
    PROVE  game[u] \in GameId /\ table[game[u]] \in Game /\ game[u] < counter
BY GamesAssumption DEF TypeInv, TypeOK, InGame, GameId

LEMMA LeftOK ==
    ASSUME TypeInv, NEW u \in Uid, InGame(u)
    PROVE  LET i == game[u]
               t == AfterLeave(table, i, u)
           IN  /\ t \in [GameId -> Game \union {NoGame}]
               /\ \A j \in GameId : j # i => t[j] = table[j]
               /\ IF Removes(table[i], u) THEN t[i] = NoGame
                  ELSE t[i] = RemovePlayer(table[i], u) /\ t[i] \in Game
<1>1. game[u] \in GameId /\ table[game[u]] \in Game
  BY InGameOK
<1>2. RemovePlayer(table[game[u]], u) \in Game
  BY <1>1, LeaveOK
<1> QED
  BY <1>1, <1>2 DEF AfterLeave, TypeInv, TypeOK

LEMMA DepartureOK ==
    ASSUME TypeInv, NEW u \in Uid, InGame(u)
    PROVE  LET i == game[u]
               x == Item("roster", i, Others(i, u), Others(i, u), Any)
               y == Clear(u, i, Others(i, u))
           IN  /\ ItemOK(x, counter) /\ ItemOK(y, counter)
               /\ Departure(i, u) = IF Removes(table[i], u) THEN <<>> ELSE <<x, y>>
<1>1. game[u] \in GameId /\ table[game[u]] \in Game /\ game[u] < counter
  BY InGameOK
<1>2. Others(game[u], u) \in SUBSET Uid
  BY <1>1, MembersOK DEF Others
<1> QED
  BY <1>1, <1>2 DEF ItemOK, Pending, Item, Clear, Departure, Any

LEMMA DepartureList ==
    ASSUME TypeInv, NEW u \in Uid, InGame(u), Send(Departure(game[u], u))
    PROVE  ListOK(later', counter)
<1> DEFINE i == game[u]
           x == Item("roster", i, Others(i, u), Others(i, u), Any)
           y == Clear(u, i, Others(i, u))
<1>1. ItemOK(x, counter) /\ ItemOK(y, counter)
  BY DepartureOK
<1>2. Departure(i, u) = IF Removes(table[i], u) THEN <<>> ELSE <<x, y>>
  BY DepartureOK
<1>3. later \in Seq(Pending) /\ counter \in Nat /\ ListOK(later, counter)
  BY GamesAssumption DEF TypeInv, TypeOK
<1> HIDE DEF x, y
<1>4. later' = later \/ later' = Append(Append(later, x), y)
  BY <1>1, <1>2, <1>3, Longer DEF Send, ItemOK
<1> QED
  BY <1>1, <1>3, <1>4, ListAppend

LEMMA SendOne ==
    ASSUME TypeInv, NEW x, ItemOK(x, counter), Send(<<x>>)
    PROVE  later' = Append(later, x) /\ ListOK(later', counter)
<1>1. later \in Seq(Pending) /\ counter \in Nat /\ ListOK(later, counter)
  BY GamesAssumption DEF TypeInv, TypeOK
<1>2. later' = Append(later, x)
  BY <1>1, Longer DEF Send, ItemOK
<1> QED
  BY <1>1, <1>2, ListAppend

LEMMA SendNone == ASSUME TypeInv, Send(<<>>) PROVE later' = later
BY Longer DEF Send, TypeInv, TypeOK

(* A timer that runs: its entry goes, its frames come. *)
LEMMA BecomesNone ==
    ASSUME TypeInv, NEW k \in 1 .. Len(later), Becomes(k, <<>>)
    PROVE  later' = Less(later, k) /\ ListOK(later', counter)
<1>1. later \in Seq(Pending) /\ counter \in Nat /\ ListOK(later, counter)
  BY GamesAssumption DEF TypeInv, TypeOK
<1>2. Less(later, k) \in Seq(Pending) /\ ListOK(Less(later, k), counter)
  BY <1>1, OneLess, ListLess
<1>3. later' = Less(later, k)
  BY <1>2, Longer DEF Becomes, Without, Less
<1> QED
  BY <1>2, <1>3

LEMMA BecomesOne ==
    ASSUME TypeInv, NEW k \in 1 .. Len(later), NEW x, ItemOK(x, counter),
           Becomes(k, <<x>>)
    PROVE  later' = Append(Less(later, k), x) /\ ListOK(later', counter)
<1>1. later \in Seq(Pending) /\ counter \in Nat /\ ListOK(later, counter)
  BY GamesAssumption DEF TypeInv, TypeOK
<1>2. Less(later, k) \in Seq(Pending) /\ ListOK(Less(later, k), counter)
  BY <1>1, OneLess, ListLess
<1>3. later' = Append(Less(later, k), x)
  BY <1>2, Longer DEF Becomes, Without, Less, ItemOK
<1> QED
  BY <1>1, <1>2, <1>3, ListAppend

(* Rosters, and who is told of whom, are users. *)
LEMMA RosterOK ==
    ASSUME TypeInv, NEW V, NEW S \in SUBSET Uid, TellRoster(V, S)
    PROVE  shows' \in [Uid -> SUBSET Uid]
BY DEF TypeInv, TypeOK, TellRoster

LEMMA AfterPhaseOK ==
    ASSUME TypeInv, NEW t
    PROVE  AfterPhase(t) \in [GameId -> [rank : 0 .. 2, reset : BOOLEAN, unveiled : BOOLEAN]]
BY DEF TypeInv, TypeOK, AfterPhase, Fresh

LEMMA EvictedOK ==
    ASSUME TypeInv, NEW u \in Uid, InGame(u)
    PROVE  Others(game[u], u) \in SUBSET Uid /\ Evicted(game[u], u) \in SUBSET Uid
<1>1. Others(game[u], u) \in SUBSET Uid
  BY InGameOK, MembersOK DEF Others
<1> QED
  BY <1>1 DEF Evicted

-----------------------------------------------------------------------------
(* One lemma for each action that changes the rooms, and what the timers   *)
(* do; the other ones are in TypeStep.                                     *)
LEMMA GcreTypes ==
    ASSUME TypeInv, NEW u \in Uid, NEW l \in Limits, Gcre(u, l)
    PROVE  TypeInv'
<1> DEFINE i    == game[u]
           open == InGame(u) /\ table[i].state = "OPEN"
           left == IF InGame(u) THEN AfterLeave(table, i, u) ELSE table
           full == Full(left)
           out  == IF open THEN Evicted(i, u) ELSE {}
           new  == AddPlayer(NewGame(u, l), u)
<1>1. counter \in GameId /\ counter \in Nat /\ MaxGameId \in Nat
  BY GamesAssumption DEF Gcre, TypeInv, TypeOK, GameId
<1>2. /\ left \in [GameId -> Game \union {NoGame}]
      /\ \A j \in GameId : table[j] = NoGame => left[j] = NoGame
  BY LeftOK DEF InGame, TypeInv, TypeOK
<1>3. new \in Game
  BY OpenOK
<1>4. out \in SUBSET Uid
  BY EvictedOK
<1>5. ListOK(later', counter)
  <2>1. Send(IF open THEN Departure(i, u) ELSE <<>>)
    BY DEF Gcre
  <2>2. CASE open
    BY <2>1, <2>2, DepartureList
  <2>3. CASE ~open
    BY <2>1, <2>3, SendNone DEF TypeInv
  <2> QED
    BY <2>2, <2>3
<1>6. /\ table' = IF full THEN left ELSE [left EXCEPT ![counter] = new]
      /\ counter' = IF full THEN counter ELSE counter + 1
      /\ game' = [v \in Uid |->
             IF v = u THEN (IF full /\ ~InGame(u) THEN i
                            ELSE IF full THEN 0 ELSE counter)
             ELSE IF v \in out THEN 0 ELSE game[v]]
      /\ phase' = AfterPhase(left)
      /\ TellRoster(out \union {u}, {})
      /\ UNCHANGED joinVars
  BY DEF Gcre, NextId
<1> HIDE DEF i, open, left, full, out, new
<1>7. counter' \in 1 .. (MaxGameId + 1) /\ counter <= counter' /\ counter' \in Nat
  BY <1>1, <1>6 DEF GameId
<1>8. ListOK(later', counter')
  BY <1>1, <1>5, <1>7, ListGrows
<1>9. table' \in [GameId -> Game \union {NoGame}]
  BY <1>2, <1>3, <1>6
<1>10. \A j \in GameId : j >= counter' => table'[j] = NoGame
  <2> SUFFICES ASSUME NEW j \in GameId, j >= counter' PROVE table'[j] = NoGame
    OBVIOUS
  <2>1. j >= counter /\ (~full => j # counter)
    BY <1>1, <1>6, <1>7 DEF GameId
  <2>2. left[j] = NoGame
    BY <1>2, <2>1 DEF TypeInv
  <2> QED
    BY <1>1, <1>2, <1>6, <2>1, <2>2
<1>11. game' \in [Uid -> 0 .. MaxGameId]
  <2>1. i \in 0 .. MaxGameId /\ 0 \in 0 .. MaxGameId /\ counter \in 0 .. MaxGameId
    BY <1>1 DEF GameId, TypeInv, TypeOK, i
  <2> QED
    BY <1>6, <2>1 DEF TypeInv, TypeOK
<1>12. phase' \in [GameId -> [rank : 0 .. 2, reset : BOOLEAN, unveiled : BOOLEAN]]
  BY <1>6, AfterPhaseOK
<1>13. shows' \in [Uid -> SUBSET Uid]
  BY <1>6, RosterOK
<1> QED
  BY <1>6, <1>7, <1>8, <1>9, <1>10, <1>11, <1>12, <1>13 DEF TypeInv, TypeOK, ListOK, joinVars

LEMMA LeaveTypes == ASSUME TypeInv, NEW u \in Uid, Leave(u) PROVE TypeInv'
<1> DEFINE i   == game[u]
           out == Evicted(i, u) \union {u}
<1>1. InGame(u)
  BY DEF Leave
<1>2. ListOK(later', counter)
  BY <1>1, DepartureList DEF Leave
<1>3. /\ table' \in [GameId -> Game \union {NoGame}]
      /\ \A j \in GameId : table[j] = NoGame => table'[j] = NoGame
  BY <1>1, LeftOK DEF Leave, InGame
<1>4. shows' \in [Uid -> SUBSET Uid]
  BY RosterOK DEF Leave
<1>5. phase' \in [GameId -> [rank : 0 .. 2, reset : BOOLEAN, unveiled : BOOLEAN]]
  BY AfterPhaseOK DEF Leave
<1>6. game' \in [Uid -> 0 .. MaxGameId]
  BY GamesAssumption DEF Leave, TypeInv, TypeOK
<1> QED
  BY <1>2, <1>3, <1>4, <1>5, <1>6 DEF Leave, TypeInv, TypeOK, ListOK, joinVars

LEMMA GjoiTypes ==
    ASSUME TypeInv, NEW u \in Uid, NEW i \in GameId, NEW plain \in BOOLEAN, Gjoi(u, i, plain)
    PROVE  TypeInv'
<1>1. table[i] \in Game /\ i < counter /\ counter \in Nat /\ i \in 0 .. MaxGameId
  BY GamesAssumption DEF Gjoi, TypeInv, TypeOK, GameId
<1>2. AddPlayer(table[i], u) \in Game
  BY <1>1, JoinOK
<1>3. table' = [table EXCEPT ![i] = AddPlayer(table[i], u)]
  BY DEF Gjoi
<1>4. table' \in [GameId -> Game \union {NoGame}] /\ table'[i] = AddPlayer(table[i], u)
  BY <1>2, <1>3 DEF TypeInv, TypeOK
<1>5. \A j \in GameId : j >= counter => table'[j] = NoGame
  BY <1>1, <1>3 DEF TypeInv, TypeOK, GameId
<1>6. shows' \in [Uid -> SUBSET Uid]
  <2>1. Members(table'[i]) \in SUBSET Uid
    BY <1>2, <1>4, MembersOK
  <2> QED
    BY <2>1, RosterOK DEF Gjoi
<1>7. ListOK(later', counter)
  <2>1. ItemOK(Staging(u, i), counter)
    BY <1>1 DEF ItemOK, Pending, Staging, Item, Any
  <2>2. CASE plain
    BY <2>1, <2>2, SendOne DEF Gjoi
  <2>3. CASE ~plain
    BY <2>3, SendNone DEF Gjoi, TypeInv
  <2> QED
    BY <2>2, <2>3
<1>8. game' \in [Uid -> 0 .. MaxGameId]
  BY <1>1 DEF Gjoi, TypeInv, TypeOK
<1>9. phase' \in [GameId -> [rank : 0 .. 2, reset : BOOLEAN, unveiled : BOOLEAN]]
  BY DEF Gjoi, TypeInv, TypeOK
<1>10. /\ auxi' \in [Uid -> 0 .. MaxGameId] /\ promoted' \subseteq Uid
       /\ staged' \subseteq Uid /\ stagedIn' \in [Uid -> 0 .. MaxGameId]
  BY <1>1, GamesAssumption DEF Gjoi, Newcomer, TypeInv, TypeOK
<1>11. counter' = counter
  BY DEF Gjoi
<1> QED
  BY <1>4, <1>5, <1>6, <1>7, <1>8, <1>9, <1>10, <1>11 DEF TypeInv, TypeOK, ListOK

(* The commands that only tell somebody something. *)
LEMMA TellTypes ==
    ASSUME TypeInv, NEW u \in Uid,
           Gset(u) \/ Uadm(u) \/ Reenter(u) \/ ReenterView(u) \/ \E w \in Uid : Onln(u, w)
    PROVE  TypeInv'
<1>1. UNCHANGED <<roomVars, phase, joinVars, later>>
  BY DEF Gset, Uadm, Reenter, ReenterView, Onln
<1>2. ASSUME InGame(u) PROVE Members(table[game[u]]) \in SUBSET Uid
  BY <1>2, InGameOK, MembersOK
<1>3. shows' \in [Uid -> SUBSET Uid]
  <2>1. CASE Gset(u) \/ Uadm(u)
    BY <1>2, <2>1, RosterOK DEF Gset, Uadm, Answer
  <2>2. CASE Reenter(u)
    BY <1>2, <2>2, RosterOK DEF Reenter, Racing
  <2>3. CASE ReenterView(u)
    BY <2>3 DEF ReenterView, Cleared, TypeInv, TypeOK
  <2>4. ASSUME NEW w \in Uid, Onln(u, w) PROVE shows' \in [Uid -> SUBSET Uid]
    BY <1>2, <2>4 DEF Onln, Cleared, Shown, TypeInv, TypeOK
  <2> QED
    BY <2>1, <2>2, <2>3, <2>4
<1> QED
  BY <1>1, <1>3 DEF TypeInv, TypeOK, ListOK, roomVars, joinVars

LEMMA AuxiTypes == ASSUME TypeInv, NEW u \in Uid, Auxi(u) PROVE TypeInv'
<1> DEFINE i == game[u]
<1>1. InGame(u) /\ UNCHANGED roomVars
  BY DEF Auxi
<1>2. i \in GameId /\ table[i] \in Game /\ i < counter /\ Members(table[i]) \in SUBSET Uid
  BY <1>1, InGameOK, MembersOK
<1>3. CASE ActiveRefresh(i, u) /\ UNCHANGED <<phase, joinVars, later>>
  <2>1. shows' \in [Uid -> SUBSET Uid]
    BY <1>3 DEF ActiveRefresh, Shown, TypeInv, TypeOK
  <2> QED
    BY <1>1, <1>3, <2>1 DEF TypeInv, TypeOK, ListOK, roomVars, joinVars
<1>4. CASE Promote(u)
  <2>1. shows' \in [Uid -> SUBSET Uid]
    BY <1>2, <1>4 DEF Promote, Cleared, TypeInv, TypeOK
  <2>2. phase' \in [GameId -> [rank : 0 .. 2, reset : BOOLEAN, unveiled : BOOLEAN]]
    BY <1>4 DEF Promote, TypeInv, TypeOK
  <2>3. /\ auxi' \in [Uid -> 0 .. MaxGameId] /\ promoted' \subseteq Uid
        /\ staged' \subseteq Uid /\ stagedIn' \in [Uid -> 0 .. MaxGameId]
    BY <1>2, <1>4, GamesAssumption DEF Promote, TypeInv, TypeOK, GameId
  <2>4. later' = later
    BY <1>4 DEF Promote
  <2> QED
    BY <1>1, <2>1, <2>2, <2>3, <2>4 DEF TypeInv, TypeOK, ListOK, roomVars
<1>5. CASE /\ Send(<<Refresh(i, IF phase[i].rank = 1 THEN 1 ELSE Any)>>)
           /\ UNCHANGED <<phase, joinVars, shows>>
  <2>1. ItemOK(Refresh(i, IF phase[i].rank = 1 THEN 1 ELSE Any), counter)
    BY <1>2 DEF ItemOK, Pending, Refresh, Item, Any
  <2>2. ListOK(later', counter)
    BY <1>5, <2>1, SendOne
  <2> QED
    BY <1>1, <1>5, <2>2 DEF TypeInv, TypeOK, ListOK, roomVars, joinVars
<1> QED
  BY <1>3, <1>4, <1>5 DEF Auxi

LEMMA StartTypes ==
    ASSUME TypeInv, NEW u \in Uid,
           Ready(u) \/ CountDown(u) \/ \E upper \in BOOLEAN : Gsta(u, upper)
    PROVE  TypeInv'
<1> DEFINE i == game[u]
<1>1. /\ InGame(u) /\ i \in GameId /\ table[i] \in Game /\ i < counter
      /\ Members(table[i]) \in SUBSET Uid
  <2>1. InGame(u)
    BY DEF Ready, CountDown, Gsta
  <2> QED
    BY <2>1, InGameOK, MembersOK
<1>2. CASE Ready(u)
  <2>1. ItemOK(Refresh(i, IF phase[i].rank = 2 THEN 2 ELSE 1), counter)
    BY <1>1 DEF ItemOK, Pending, Refresh, Item, Any
  <2>2. ListOK(later', counter)
    BY <1>2, <2>1, SendOne DEF Ready
  <2>3. phase' \in [GameId -> [rank : 0 .. 2, reset : BOOLEAN, unveiled : BOOLEAN]]
    <3>1. phase[i] \in [rank : 0 .. 2, reset : BOOLEAN, unveiled : BOOLEAN]
      BY <1>1 DEF TypeInv, TypeOK
    <3>2. [phase[i] EXCEPT !.rank = IF phase[i].rank = 2 THEN 2 ELSE 1]
             \in [rank : 0 .. 2, reset : BOOLEAN, unveiled : BOOLEAN]
      BY <3>1
    <3> QED
      BY <1>1, <1>2, <3>2 DEF Ready, TypeInv, TypeOK
  <2> QED
    BY <1>2, <2>2, <2>3 DEF Ready, TypeInv, TypeOK, ListOK, roomVars, joinVars
<1>3. CASE CountDown(u)
  <2>1. phase' \in [GameId -> [rank : 0 .. 2, reset : BOOLEAN, unveiled : BOOLEAN]]
    <3>1. phase[i] \in [rank : 0 .. 2, reset : BOOLEAN, unveiled : BOOLEAN]
      BY <1>1 DEF TypeInv, TypeOK
    <3>2. [phase[i] EXCEPT !.rank = 2] \in [rank : 0 .. 2, reset : BOOLEAN, unveiled : BOOLEAN]
      BY <3>1
    <3> QED
      BY <1>1, <1>3, <3>2 DEF CountDown, TypeInv, TypeOK
  <2> QED
    BY <1>3, <2>1 DEF CountDown, TypeInv, TypeOK, ListOK, roomVars, joinVars
<1>4. ASSUME NEW upper \in BOOLEAN, Gsta(u, upper) PROVE TypeInv'
  <2>1. Start(table[i]) \in Game
    BY <1>1, StartOK
  <2>2. /\ table' \in [GameId -> Game \union {NoGame}]
        /\ \A j \in GameId : j >= counter => table'[j] = NoGame
    BY <1>1, <1>4, <2>1, GamesAssumption DEF Gsta, TypeInv, TypeOK, GameId
  <2>3. game' \in [Uid -> 0 .. MaxGameId]
    BY <1>1, <1>4, GamesAssumption DEF Gsta, InRace, TypeInv, TypeOK, GameId
  <2>4. shows' \in [Uid -> SUBSET Uid]
    BY <1>1, <1>4, RosterOK DEF Gsta, Bursts
  <2> QED
    BY <1>4, <2>2, <2>3, <2>4 DEF Gsta, TypeInv, TypeOK, ListOK, joinVars
<1> QED
  BY <1>2, <1>3, <1>4

LEMMA RunTypes ==
    ASSUME TypeInv, NEW k \in 1 .. Len(later), RunStaging(k) \/ RunRefresh(k)
    PROVE  TypeInv'
<1>1. /\ later[k] \in Pending /\ later[k].room < counter
      /\ later[k].kind = "staging" => later[k].to # {}
  BY DEF TypeInv, ListOK, ItemOK
<1> DEFINE i == later[k].room
           u == CHOOSE v \in Uid : v \in later[k].to
<1>2. i \in GameId /\ later[k].to \in SUBSET Uid
  BY <1>1 DEF Pending
<1>3. UNCHANGED <<roomVars, phase, joinVars, shows>>
  BY DEF RunStaging, RunRefresh
<1>4. ASSUME table[i] # NoGame PROVE Members(table[i]) \in SUBSET Uid
  BY <1>2, <1>4, MembersOK DEF TypeInv, TypeOK
<1>5. CASE Becomes(k, <<>>)
  BY <1>3, <1>5, BecomesNone DEF TypeInv, TypeOK, ListOK, roomVars, joinVars
<1>6. CASE /\ later[k].kind = "staging" /\ table[i] # NoGame
           /\ Becomes(k, <<StagingFrames(i, u)>>)
  <2>1. u \in Uid
    BY <1>1, <1>2, <1>6
  <2>2. ItemOK(StagingFrames(i, u), counter)
    BY <1>1, <1>2, <1>4, <1>6, <2>1 DEF ItemOK, Pending, StagingFrames, Item, Any
  <2> QED
    BY <1>3, <1>6, <2>2, BecomesOne DEF TypeInv, TypeOK, ListOK, roomVars, joinVars
<1>7. CASE /\ table[i] # NoGame
           /\ Becomes(k, <<Item("show", i, Members(table[i]), Members(table[i]), Any)>>)
  <2>1. ItemOK(Item("show", i, Members(table[i]), Members(table[i]), Any), counter)
    BY <1>1, <1>2, <1>4, <1>7 DEF ItemOK, Pending, Item, Any
  <2> QED
    BY <1>3, <1>7, <2>1, BecomesOne DEF TypeInv, TypeOK, ListOK, roomVars, joinVars
<1> QED
  BY <1>5, <1>6, <1>7 DEF RunStaging, RunRefresh

LEMMA SentTypes ==
    ASSUME TypeInv, NEW k \in 1 .. Len(later), NEW v \in Uid,
           SendStaged(k, v) \/ SendShow(k, v) \/ SendRoster(k, v) \/ SendClear(k, v)
    PROVE  TypeInv'
<1>1. later[k] \in Pending /\ v \in later[k].to /\ later[k].kind # "staging" /\ SentTo(k, v)
  BY DEF TypeInv, ListOK, ItemOK, SendStaged, SendShow, SendRoster, SendClear
<1>2. later[k].room \in GameId /\ later[k].who \in SUBSET Uid
  BY <1>1 DEF Pending
<1>3. ListOK(later', counter)
  BY <1>1, ListSentTo
<1>4. CASE SendStaged(k, v)
  <2>1. shows' \in [Uid -> SUBSET Uid]
    BY <1>2, <1>4 DEF SendStaged, Shown, Cleared, TypeInv, TypeOK
  <2>2. staged' \subseteq Uid /\ stagedIn' \in [Uid -> 0 .. MaxGameId]
    BY <1>2, <1>4, GamesAssumption DEF SendStaged, TypeInv, TypeOK, GameId
  <2> QED
    BY <1>3, <1>4, <2>1, <2>2 DEF SendStaged, TypeInv, TypeOK, ListOK, roomVars
<1>5. CASE SendShow(k, v) \/ SendRoster(k, v) \/ SendClear(k, v)
  <2>1. UNCHANGED <<roomVars, phase, joinVars>>
    BY <1>5 DEF SendShow, SendRoster, SendClear
  <2>2. shows' \in [Uid -> SUBSET Uid]
    <3>1. CASE SendShow(k, v)
      BY <1>2, <3>1 DEF SendShow, Shown, TypeInv, TypeOK
    <3>2. CASE SendRoster(k, v)
      BY <1>2, <3>2, RosterOK DEF SendRoster, TypeInv, TypeOK
    <3>3. CASE SendClear(k, v)
      BY <1>2, <3>3 DEF SendClear, Cleared, TypeInv, TypeOK
    <3> QED
      BY <1>5, <3>1, <3>2, <3>3
  <2> QED
    BY <1>3, <2>1, <2>2 DEF TypeInv, TypeOK, ListOK, roomVars, joinVars
<1> QED
  BY <1>4, <1>5

LEMMA TypeStep == TypeInv /\ [Next]_vars => TypeInv'
<1> SUFFICES ASSUME TypeInv, [Next]_vars PROVE TypeInv'
  OBVIOUS
<1>1. ASSUME NEW u \in Uid, Command(u) PROVE TypeInv'
  BY <1>1, GcreTypes, GjoiTypes, LeaveTypes, TellTypes, AuxiTypes, StartTypes DEF Command
<1>2. ASSUME NEW i \in GameId, ResetOver(i) PROVE TypeInv'
  <2>1. phase' \in [GameId -> [rank : 0 .. 2, reset : BOOLEAN, unveiled : BOOLEAN]]
    BY <1>2 DEF ResetOver, TypeInv, TypeOK
  <2> QED
    BY <1>2, <2>1 DEF ResetOver, TypeInv, TypeOK, ListOK, roomVars, joinVars
<1>3. ASSUME NEW k \in 1 .. MaxLater, Fire(k) PROVE TypeInv'
  <2>1. k \in 1 .. Len(later)
    BY <1>3 DEF Fire, TypeInv, TypeOK
  <2> QED
    BY <1>3, <2>1, RunTypes, SentTypes DEF Fire
<1>4. CASE UNCHANGED vars
  BY <1>4 DEF vars, roomVars, joinVars, TypeInv, TypeOK, ListOK
<1> QED
  BY <1>1, <1>2, <1>3, <1>4 DEF Next

LEMMA TypeInitially == Init => TypeInv
<1> SUFFICES ASSUME Init PROVE TypeInv
  OBVIOUS
<1>1. TypeOK
  BY GamesAssumption DEF Init, TypeOK, Fresh
<1>2. ListOK(later, counter)
  BY DEF Init, ListOK
<1> QED
  BY <1>1, <1>2 DEF Init, TypeInv

(* Every variable keeps its type. *)
THEOREM TypeCorrect == Spec => []TypeOK
<1>1. TypeInv => TypeOK
  BY DEF TypeInv
<1> QED
  BY <1>1, TypeInitially, TypeStep, PTL DEF Spec

-----------------------------------------------------------------------------
(***************************************************************************)
(* Frames and notices.  In a list s, a frame that tells v's client that u  *)
(* is in room i, and a notice that takes u off its screen; a list covers u *)
(* if such a notice comes behind each such frame.                          *)
(***************************************************************************)
Tells(x, i, v, u) == x.kind \in Frames /\ x.room = i /\ v \in x.to /\ u \in x.who

Takes(x, i, v, u) == x.kind = "clear" /\ x.room = i /\ v \in x.to /\ u \in x.who

Mends(s, i, v, u) == \E k \in 1 .. Len(s) : Takes(s[k], i, v, u)

Covers(s, i, v, u) ==
    \A j \in 1 .. Len(s) : Tells(s[j], i, v, u) =>
        \E k \in 1 .. Len(s) : j < k /\ Takes(s[k], i, v, u)

LEMMA TakesTells == ASSUME NEW x, NEW i, NEW v, NEW u, Takes(x, i, v, u) PROVE ~Tells(x, i, v, u)
BY DEF Takes, Tells, Frames

(* A new entry tells nothing, or is the notice itself. *)
LEMMA CoversAppend ==
    ASSUME NEW s \in Seq(Pending), NEW x \in Pending, NEW i, NEW v, NEW u
    PROVE  /\ Mends(s, i, v, u) => Mends(Append(s, x), i, v, u)
           /\ Covers(s, i, v, u) /\ ~Tells(x, i, v, u) => Covers(Append(s, x), i, v, u)
           /\ Takes(x, i, v, u) => /\ Mends(Append(s, x), i, v, u)
                                  /\ Covers(Append(s, x), i, v, u)
<1> DEFINE w == Append(s, x)
           n == Len(s)
<1>1. /\ n \in Nat /\ Len(w) = n + 1 /\ w[n + 1] = x
      /\ \A k \in 1 .. n : w[k] = s[k]
  BY OneMore
<1> HIDE DEF w, n
<1>2. /\ 1 .. n \subseteq 1 .. (n + 1) /\ n + 1 \in 1 .. (n + 1)
      /\ \A k \in 1 .. (n + 1) : k = n + 1 \/ k \in 1 .. n
      /\ \A k \in 1 .. n : k < n + 1
  BY <1>1
<1>3. Mends(s, i, v, u) => Mends(w, i, v, u)
  BY <1>1, <1>2 DEF Mends, n
<1>4. Covers(s, i, v, u) /\ ~Tells(x, i, v, u) => Covers(w, i, v, u)
  <2> SUFFICES ASSUME Covers(s, i, v, u), ~Tells(x, i, v, u),
                      NEW j \in 1 .. (n + 1), Tells(w[j], i, v, u)
               PROVE  \E k \in 1 .. (n + 1) : j < k /\ Takes(w[k], i, v, u)
    BY <1>1 DEF Covers
  <2>1. j \in 1 .. n /\ Tells(s[j], i, v, u)
    BY <1>1, <1>2
  <2>2. PICK k \in 1 .. n : j < k /\ Takes(s[k], i, v, u)
    BY <2>1 DEF Covers, n
  <2> QED
    BY <1>1, <1>2, <2>2
<1>5. ASSUME Takes(x, i, v, u) PROVE Mends(w, i, v, u) /\ Covers(w, i, v, u)
  <2>1. Takes(w[n + 1], i, v, u) /\ ~Tells(w[n + 1], i, v, u)
    BY <1>1, <1>5, TakesTells
  <2>2. Mends(w, i, v, u)
    BY <1>1, <1>2, <2>1 DEF Mends
  <2>3. Covers(w, i, v, u)
    BY <1>1, <1>2, <2>1 DEF Covers
  <2> QED
    BY <2>2, <2>3
<1> QED
  BY <1>3, <1>4, <1>5 DEF w

(* An entry less: a notice goes when no frame is before it. *)
LEMMA CoversLess ==
    ASSUME NEW s \in Seq(Pending), NEW k \in 1 .. Len(s), NEW i, NEW v, NEW u
    PROVE  /\ Mends(s, i, v, u) /\ ~Takes(s[k], i, v, u) => Mends(Less(s, k), i, v, u)
           /\ Covers(s, i, v, u)
              /\ (Takes(s[k], i, v, u) => \A j \in 1 .. (k - 1) : ~Tells(s[j], i, v, u))
              => Covers(Less(s, k), i, v, u)
<1> DEFINE w == Less(s, k)
           n == Len(s)
           at(c) == IF c < k THEN c ELSE c - 1
<1>1. /\ n \in Nat /\ Len(w) = n - 1 /\ k \in 1 .. n
      /\ \A j \in 1 .. (n - 1) : w[j] = IF j < k THEN s[j] ELSE s[j + 1]
  BY OneLess
<1> HIDE DEF w, n
<1>2. \A c \in 1 .. n : c # k => at(c) \in 1 .. (n - 1) /\ w[at(c)] = s[c]
  BY <1>1
<1>3. ASSUME Mends(s, i, v, u), ~Takes(s[k], i, v, u) PROVE Mends(w, i, v, u)
  <2>1. PICK c \in 1 .. n : Takes(s[c], i, v, u)
    BY <1>3 DEF Mends, n
  <2>2. at(c) \in 1 .. (n - 1) /\ w[at(c)] = s[c]
    BY <1>2, <1>3, <2>1
  <2> HIDE DEF at
  <2> QED
    BY <1>1, <2>1, <2>2 DEF Mends
<1>4. ASSUME Covers(s, i, v, u),
             Takes(s[k], i, v, u) => \A j \in 1 .. (k - 1) : ~Tells(s[j], i, v, u)
      PROVE  Covers(w, i, v, u)
  <2> SUFFICES ASSUME NEW j \in 1 .. (n - 1), Tells(w[j], i, v, u)
               PROVE  \E c \in 1 .. (n - 1) : j < c /\ Takes(w[c], i, v, u)
    BY <1>1 DEF Covers
  <2>1. PICK b \in 1 .. n : b # k /\ at(b) = j /\ s[b] = w[j]
    <3>1. CASE j < k
      BY <1>1, <3>1
    <3>2. CASE ~(j < k)
      <4>1. j + 1 \in 1 .. n /\ j + 1 # k /\ at(j + 1) = j /\ s[j + 1] = w[j]
        BY <1>1, <3>2
      <4> QED
        BY <4>1
    <3> QED
      BY <3>1, <3>2
  <2>2. PICK c \in 1 .. n : b < c /\ Takes(s[c], i, v, u)
    BY <1>4, <2>1 DEF Covers, n
  <2>3. c # k
    <3> SUFFICES ASSUME c = k PROVE FALSE
      OBVIOUS
    <3>1. b \in 1 .. (k - 1)
      BY <1>1, <2>2
    <3> QED
      BY <1>4, <2>1, <2>2, <3>1
  <2>4. at(c) \in 1 .. (n - 1) /\ w[at(c)] = s[c]
    BY <1>2, <2>3
  <2>5. j < at(c)
    BY <1>1, <2>1, <2>2, <2>3
  <2> HIDE DEF at
  <2> QED
    BY <2>2, <2>4, <2>5
<1> QED
  BY <1>3, <1>4 DEF w

(* Fewer addressees: for those who stay nothing changes. *)
LEMMA CoversNarrow ==
    ASSUME NEW s \in Seq(Pending), NEW k \in 1 .. Len(s), NEW rest \in SUBSET Uid,
           NEW i, NEW v, NEW u
    PROVE  LET w == Narrow(s, k, rest)
           IN  /\ Mends(s, i, v, u) /\ (Takes(s[k], i, v, u) => v \in rest)
                     => Mends(w, i, v, u)
               /\ Covers(s, i, v, u)
                  /\ rest \subseteq s[k].to
                  /\ (Takes(s[k], i, v, u) =>
                         v \in rest \/ \A j \in 1 .. (k - 1) : ~Tells(s[j], i, v, u))
                  => Covers(w, i, v, u)
<1> DEFINE w == Narrow(s, k, rest)
           n == Len(s)
<1>1. /\ Len(w) = n /\ n \in Nat /\ k \in 1 .. n
      /\ \A j \in 1 .. n : j # k => w[j] = s[j]
      /\ w[k].kind = s[k].kind /\ w[k].room = s[k].room /\ w[k].who = s[k].who
      /\ w[k].to = rest
  BY NarrowOK
<1> HIDE DEF w, n
<1>2. ASSUME Takes(s[k], i, v, u), v \in rest PROVE Takes(w[k], i, v, u)
  BY <1>1, <1>2 DEF Takes
<1>4. ASSUME Mends(s, i, v, u), Takes(s[k], i, v, u) => v \in rest PROVE Mends(w, i, v, u)
  <2>1. PICK c \in 1 .. n : Takes(s[c], i, v, u)
    BY <1>4 DEF Mends, n
  <2>2. Takes(w[c], i, v, u)
    BY <1>1, <1>2, <1>4, <2>1
  <2> QED
    BY <1>1, <2>2 DEF Mends
<1>5. ASSUME Covers(s, i, v, u), rest \subseteq s[k].to,
             Takes(s[k], i, v, u) =>
                v \in rest \/ \A j \in 1 .. (k - 1) : ~Tells(s[j], i, v, u)
      PROVE  Covers(w, i, v, u)
  <2> SUFFICES ASSUME NEW j \in 1 .. n, Tells(w[j], i, v, u)
               PROVE  \E c \in 1 .. n : j < c /\ Takes(w[c], i, v, u)
    BY <1>1 DEF Covers
  <2>1. Tells(s[j], i, v, u)
    <3>1. CASE j # k
      BY <1>1, <3>1
    <3>2. CASE j = k
      BY <1>1, <1>5, <3>2 DEF Tells
    <3> QED
      BY <3>1, <3>2
  <2>2. PICK c \in 1 .. n : j < c /\ Takes(s[c], i, v, u)
    BY <1>5, <2>1 DEF Covers, n
  <2>3. CASE c # k
    BY <1>1, <2>2, <2>3
  <2>4. CASE c = k
    <3>1. j \in 1 .. (k - 1)
      BY <1>1, <2>2, <2>4
    <3>2. v \in rest
      BY <1>5, <2>1, <2>2, <2>4, <3>1
    <3> QED
      BY <1>2, <2>2, <2>4, <3>2
  <2> QED
    BY <2>3, <2>4
<1> QED
  BY <1>4, <1>5 DEF w

(* An entry was sent to v. *)
LEMMA CoversSent ==
    ASSUME TypeInv, NEW k \in 1 .. Len(later), NEW v \in Uid, v \in later[k].to, SentTo(k, v),
           NEW i, NEW w, NEW u
    PROVE  /\ Mends(later, i, w, u) /\ ~(w = v /\ Takes(later[k], i, w, u))
                 => Mends(later', i, w, u)
           /\ Covers(later, i, w, u)
              /\ (w = v /\ Takes(later[k], i, w, u)
                    => \A j \in 1 .. (k - 1) : ~Tells(later[j], i, w, u))
              => Covers(later', i, w, u)
<1>1. later \in Seq(Pending)
  BY DEF TypeInv, TypeOK
<1>2. CASE later[k].to \ {v} = {}
  <2>1. later' = Less(later, k)
    BY <1>2 DEF SentTo, Without, Less
  <2>2. Takes(later[k], i, w, u) => w = v
    BY <1>2 DEF Takes
  <2> QED
    BY <1>1, <2>1, <2>2, CoversLess
<1>3. CASE later[k].to \ {v} # {}
  <2> DEFINE rest == later[k].to \ {v}
  <2>1. later' = Narrow(later, k, rest)
    BY <1>3 DEF SentTo, Narrow
  <2>2. later[k] \in Pending
    BY <1>1
  <2>3. rest \in SUBSET Uid /\ rest \subseteq later[k].to
    BY <2>2 DEF Pending
  <2>4. Takes(later[k], i, w, u) => w = v \/ w \in rest
    BY DEF Takes
  <2> HIDE DEF rest
  <2> QED
    BY <1>1, <2>1, <2>3, <2>4, CoversNarrow
<1> QED
  BY <1>2, <1>3

-----------------------------------------------------------------------------
(***************************************************************************)
(* Nobody is shown a player who is gone: the invariant.  For whoever sees  *)
(* an open room and whoever is not in it, the list covers the second one,  *)
(* and a client that shows that user has a notice coming.                  *)
(***************************************************************************)
Sees(v, i) ==
    /\ game[v] = i
    /\ table[i] # NoGame
    /\ table[i].state = "OPEN"
    /\ v \in Members(table[i])

Phantom(v, u, i) ==
    Sees(v, i) /\ u \notin Members(table[i])
        => /\ Covers(later, i, v, u)
           /\ u \in shows[v] => Mends(later, i, v, u)

PhantomInv == \A v, u \in Uid, i \in GameId : Phantom(v, u, i)

(* Nothing is told of the rooms still to come. *)
LEMMA NothingYet ==
    ASSUME NEW s, NEW i \in Nat, ListOK(s, i), NEW v, NEW u
    PROVE  Covers(s, i, v, u)
BY DEF ListOK, ItemOK, Covers, Tells

(* What a departure leaves to those who stay in room i or see another one. *)
LEMMA DepartureCovers ==
    ASSUME TypeInv, NEW a \in Uid, InGame(a), Send(Departure(game[a], a)),
           NEW v \in Uid, NEW u \in Uid, NEW i \in GameId, Phantom(v, u, i), v # a, Sees(v, i),
           AfterLeave(table, game[a], a)[i] # NoGame,
           u \notin Members(AfterLeave(table, game[a], a)[i])
    PROVE  Covers(later', i, v, u) /\ (u \in shows[v] => Mends(later', i, v, u))
<1> DEFINE b == game[a]
           x == Item("roster", b, Others(b, a), Others(b, a), Any)
           y == Clear(a, b, Others(b, a))
           t == AfterLeave(table, b, a)
<1>1. /\ b \in GameId /\ table[b] \in Game
      /\ x \in Pending /\ y \in Pending
      /\ Departure(b, a) = IF Removes(table[b], a) THEN <<>> ELSE <<x, y>>
      /\ \A j \in GameId : j # b => t[j] = table[j]
      /\ IF Removes(table[b], a) THEN t[b] = NoGame ELSE t[b] = RemovePlayer(table[b], a)
  BY InGameOK, DepartureOK, LeftOK DEF ItemOK
<1>2. later \in Seq(Pending)
  BY DEF TypeInv, TypeOK
<1>3. /\ x.kind = "roster" /\ x.room = b /\ x.who = Others(b, a)
      /\ y.kind = "clear" /\ y.room = b /\ y.to = Others(b, a) /\ y.who = {a}
  BY DEF Item, Clear
<1> HIDE DEF x, y, t
<1>4. Members(table[b]) \ {a} \subseteq Members(RemovePlayer(table[b], a))
  BY <1>1, LeaveOK
<1>5. CASE Removes(table[b], a)
  <2>1. i # b
    BY <1>1, <1>5 DEF t
  <2>2. later' = later
    BY <1>1, <1>2, <1>5, Longer DEF Send
  <2> QED
    BY <1>1, <2>1, <2>2 DEF Phantom, t
<1>6. CASE ~Removes(table[b], a)
  <2>1. later' = Append(Append(later, x), y) /\ Append(later, x) \in Seq(Pending)
    BY <1>1, <1>2, <1>6, Longer, OneMore DEF Send
  <2>2. ~Tells(y, i, v, u)
    BY <1>3 DEF Tells, Frames
  <2>3. CASE i = b /\ u = a
    <3>1. v \in Others(b, a)
      BY <2>3 DEF Others, Sees
    <3>2. Takes(y, i, v, u)
      BY <1>3, <2>3, <3>1 DEF Takes
    <3> QED
      BY <1>1, <2>1, <3>2, CoversAppend
  <2>4. CASE ~(i = b /\ u = a)
    <3>1. u \notin Members(table[i])
      BY <1>1, <1>4, <1>6, <2>4 DEF t
    <3>2. ~Tells(x, i, v, u)
      BY <1>3, <2>4, <3>1 DEF Tells, Others
    <3>3. Covers(later, i, v, u) /\ (u \in shows[v] => Mends(later, i, v, u))
      BY <3>1 DEF Phantom
    <3>4. /\ Covers(Append(later, x), i, v, u)
          /\ u \in shows[v] => Mends(Append(later, x), i, v, u)
      BY <1>1, <1>2, <3>2, <3>3, CoversAppend
    <3> QED
      BY <1>1, <2>1, <2>2, <3>4, CoversAppend
  <2> QED
    BY <2>3, <2>4
<1> QED
  BY <1>5, <1>6

LEMMA GcrePhantom ==
    ASSUME TypeInv, TypeInv', PhantomInv, NEW a \in Uid, NEW l \in Limits, Gcre(a, l)
    PROVE  PhantomInv'
<1> DEFINE b    == game[a]
           open == InGame(a) /\ table[b].state = "OPEN"
           left == IF InGame(a) THEN AfterLeave(table, b, a) ELSE table
           full == Full(left)
           out  == IF open THEN Evicted(b, a) ELSE {}
           new  == AddPlayer(NewGame(a, l), a)
<1>1. /\ table' = IF full THEN left ELSE [left EXCEPT ![counter] = new]
      /\ counter' = IF full THEN counter ELSE counter + 1
      /\ game' = [v \in Uid |->
             IF v = a THEN (IF full /\ ~InGame(a) THEN b
                            ELSE IF full THEN 0 ELSE counter)
             ELSE IF v \in out THEN 0 ELSE game[v]]
      /\ shows' = [v \in Uid |-> IF v \in out \union {a} THEN {} ELSE shows[v]]
      /\ Send(IF open THEN Departure(b, a) ELSE <<>>)
  BY DEF Gcre, NextId, TellRoster
<1>2. Members(new) \subseteq {a}
  BY OpenOK
<1>3. counter \in GameId /\ counter \in Nat /\ \A j \in GameId : j \in Nat \ {0}
  BY GamesAssumption DEF Gcre, TypeInv, TypeOK, GameId
<1>4. /\ left \in [GameId -> Game \union {NoGame}]
      /\ \A j \in GameId : table[j] = NoGame => left[j] = NoGame
  BY LeftOK DEF InGame, TypeInv, TypeOK
<1> SUFFICES ASSUME NEW v \in Uid, NEW u \in Uid, NEW i \in GameId,
                    Sees(v, i)', u \notin Members(table'[i])
             PROVE  Covers(later', i, v, u) /\ (u \in shows'[v] => Mends(later', i, v, u))
  BY DEF PhantomInv, Phantom
<1>5. CASE v = a
  <2>1. u \notin shows'[v]
    BY <1>1, <1>5
  <2>2. CASE full
    <3>1. ~InGame(a) /\ i = b
      BY <1>1, <1>3, <1>5, <2>2 DEF Sees
    <3> QED
      BY <1>1, <1>3, <2>2, <3>1 DEF Sees, InGame
  <2>3. CASE ~full
    <3>1. i = counter
      BY <1>1, <1>5, <2>3 DEF Sees
    <3>2. Covers(later', i, v, u)
      <4>1. ListOK(later', counter)
        <5>1. CASE open
          BY <1>1, <5>1, DepartureList
        <5>2. CASE ~open
          BY <1>1, <5>2, SendNone DEF TypeInv
        <5> QED
          BY <5>1, <5>2
      <4> QED
        BY <1>3, <3>1, <4>1, NothingYet
    <3> QED
      BY <2>1, <3>2
  <2> QED
    BY <2>2, <2>3
<1>6. CASE v # a
  <2>1. game[v] = i /\ shows'[v] = shows[v]
    BY <1>1, <1>3, <1>6 DEF Sees
  <2>2. ~full => i # counter
    BY <1>1, <1>2, <1>3, <1>4, <1>6 DEF Sees
  <2>3. table'[i] = left[i] /\ left[i] # NoGame
    BY <1>1, <1>4, <2>2 DEF Sees
  <2>4. table[i] # NoGame /\ table[i] \in Game
    BY <1>4, <2>3 DEF TypeInv, TypeOK
  <2>5. CASE InGame(a)
    <3>1. left = AfterLeave(table, b, a)
      BY <2>5
    <3>2. /\ b \in GameId /\ table[b] \in Game
          /\ \A j \in GameId : j # b => left[j] = table[j]
          /\ left[b] # NoGame => left[b] = RemovePlayer(table[b], a)
      BY <2>5, <3>1, InGameOK, LeftOK
    <3>3. Sees(v, i)
      <4>1. left[i].state = table[i].state /\ Members(left[i]) \subseteq Members(table[i])
        <5>1. /\ RemovePlayer(table[b], a).state = table[b].state
              /\ Members(RemovePlayer(table[b], a)) \subseteq Members(table[b])
          BY <3>2, LeaveOK
        <5> QED
          BY <2>3, <3>2, <5>1
      <4>2. table'[i].state = "OPEN" /\ v \in Members(table'[i])
        BY DEF Sees
      <4> QED
        BY <2>1, <2>3, <2>4, <4>1, <4>2 DEF Sees
    <3>4. CASE open
      <4>1. Send(Departure(game[a], a))
        BY <1>1, <3>4
      <4>2. Phantom(v, u, i)
        BY DEF PhantomInv
      <4> QED
        BY <1>6, <2>1, <2>3, <2>5, <3>1, <3>3, <4>1, <4>2, DepartureCovers
    <3>5. CASE ~open
      <4>1. later' = later
        BY <1>1, <3>5, SendNone
      <4>2. i # b
        BY <2>5, <3>3, <3>5 DEF Sees
      <4> QED
        BY <2>1, <2>3, <3>2, <3>3, <4>1, <4>2 DEF PhantomInv, Phantom
    <3> QED
      BY <3>4, <3>5
  <2>6. CASE ~InGame(a)
    <3>1. later' = later /\ table'[i] = table[i]
      BY <1>1, <2>3, <2>6, SendNone
    <3> QED
      BY <2>1, <3>1 DEF PhantomInv, Phantom, Sees
  <2> QED
    BY <2>5, <2>6
<1> QED
  BY <1>5, <1>6

LEMMA LeavePhantom ==
    ASSUME TypeInv, PhantomInv, NEW a \in Uid, Leave(a)
    PROVE  PhantomInv'
<1> DEFINE b   == game[a]
           out == Evicted(b, a) \union {a}
<1>1. /\ InGame(a)
      /\ table' = AfterLeave(table, b, a)
      /\ game' = [v \in Uid |-> IF v \in out THEN 0 ELSE game[v]]
      /\ shows' = [v \in Uid |-> IF v \in out THEN {} \ {v} ELSE shows[v]]
      /\ Send(Departure(game[a], a))
  BY DEF Leave, TellRoster
<1>2. \A j \in GameId : j # 0
  BY DEF GameId
<1>3. /\ b \in GameId /\ table[b] \in Game
      /\ \A j \in GameId : j # b => table'[j] = table[j]
      /\ table'[b] # NoGame => table'[b] = RemovePlayer(table[b], a)
  BY <1>1, InGameOK, LeftOK
<1> SUFFICES ASSUME NEW v \in Uid, NEW u \in Uid, NEW i \in GameId,
                    Sees(v, i)', u \notin Members(table'[i])
             PROVE  Covers(later', i, v, u) /\ (u \in shows'[v] => Mends(later', i, v, u))
  BY DEF PhantomInv, Phantom
<1>4. v \notin out /\ game[v] = i /\ shows'[v] = shows[v]
  BY <1>1, <1>2 DEF Sees
<1>5. table'[i] # NoGame /\ table'[i].state = "OPEN" /\ v \in Members(table'[i])
  BY DEF Sees
<1>6. /\ table[i] # NoGame /\ table'[i].state = table[i].state
      /\ Members(table'[i]) \subseteq Members(table[i])
  <2>1. /\ RemovePlayer(table[b], a).state = table[b].state
        /\ Members(RemovePlayer(table[b], a)) \subseteq Members(table[b])
    BY <1>3, LeaveOK
  <2>2. table[b] # NoGame
    BY <1>1 DEF InGame
  <2> QED
    BY <1>3, <1>5, <2>1, <2>2
<1>7. Sees(v, i)
  BY <1>4, <1>5, <1>6 DEF Sees
<1>8. Phantom(v, u, i)
  BY DEF PhantomInv
<1> QED
  BY <1>1, <1>4, <1>5, <1>7, <1>8, DepartureCovers

LEMMA GjoiPhantom ==
    ASSUME TypeInv, PhantomInv, NEW a \in Uid, NEW b \in GameId, NEW plain \in BOOLEAN,
           Gjoi(a, b, plain)
    PROVE  PhantomInv'
<1>1. /\ Served(a) /\ table[b] # NoGame /\ table[b] \in Game
      /\ table' = [table EXCEPT ![b] = AddPlayer(table[b], a)]
      /\ game' = [game EXCEPT ![a] = b]
      /\ Send(IF plain THEN <<Staging(a, b)>> ELSE <<>>)
      /\ shows' = [v \in Uid |-> IF v \in {a} THEN Members(table'[b]) \ {v} ELSE shows[v]]
  BY DEF Gjoi, TellRoster, TypeInv, TypeOK
<1>2. \/ later' = later
      \/ later' = Append(later, Staging(a, b)) /\ Staging(a, b) \in Pending
  <2>1. CASE plain
    <3>1. ItemOK(Staging(a, b), counter)
      BY <1>1, GamesAssumption DEF ItemOK, Pending, Staging, Item, Any, TypeInv, TypeOK, GameId
    <3> QED
      BY <1>1, <2>1, <3>1, SendOne DEF ItemOK
  <2>2. CASE ~plain
    BY <1>1, <2>2, SendNone
  <2> QED
    BY <2>1, <2>2
<1>3. later \in Seq(Pending) /\ \A i, v, u : ~Tells(Staging(a, b), i, v, u)
  BY DEF TypeInv, TypeOK, Tells, Staging, Item, Frames
<1>4. ASSUME NEW i, NEW v, NEW u
      PROVE  /\ Covers(later, i, v, u) => Covers(later', i, v, u)
             /\ Mends(later, i, v, u) => Mends(later', i, v, u)
  BY <1>2, <1>3, CoversAppend
<1>5. /\ AddPlayer(table[b], a).state = table[b].state
      /\ Members(table[b]) \subseteq Members(AddPlayer(table[b], a))
      /\ Members(AddPlayer(table[b], a)) \subseteq Members(table[b]) \union {a}
  BY <1>1, JoinOK
<1> SUFFICES ASSUME NEW v \in Uid, NEW u \in Uid, NEW i \in GameId,
                    Sees(v, i)', u \notin Members(table'[i])
             PROVE  Covers(later', i, v, u) /\ (u \in shows'[v] => Mends(later', i, v, u))
  BY DEF PhantomInv, Phantom
<1>6. game'[v] = i /\ table'[i].state = "OPEN" /\ v \in Members(table'[i]) /\ table'[i] # NoGame
  BY DEF Sees
<1>7. CASE v = a
  <2>1. i = b
    BY <1>1, <1>6, <1>7 DEF TypeInv, TypeOK
  <2>2. u \notin shows'[v]
    BY <1>1, <1>7, <2>1
  <2>3. Covers(later, i, v, u)
    BY <1>1, <1>7 DEF Served, Covers, Tells
  <2> QED
    BY <1>4, <2>2, <2>3
<1>8. CASE v # a
  <2>1. game[v] = i /\ shows'[v] = shows[v]
    BY <1>1, <1>6, <1>8 DEF TypeInv, TypeOK
  <2>2. /\ table[i] # NoGame /\ table[i].state = "OPEN" /\ v \in Members(table[i])
        /\ u \notin Members(table[i])
    BY <1>1, <1>5, <1>6, <1>8 DEF TypeInv, TypeOK
  <2>3. Sees(v, i) /\ Phantom(v, u, i)
    BY <2>1, <2>2 DEF Sees, PhantomInv
  <2> QED
    BY <1>4, <2>1, <2>2, <2>3 DEF Phantom
<1> QED
  BY <1>7, <1>8

(* A step that leaves the rooms alone, whose list covers and mends what it *)
(* did, and which shows nobody who is gone.                                *)
LEMMA RoomsKept ==
    ASSUME PhantomInv, UNCHANGED roomVars,
           \A v, u \in Uid, i \in GameId :
              /\ Covers(later, i, v, u) => Covers(later', i, v, u)
              /\ Covers(later, i, v, u) /\ Mends(later, i, v, u) /\ Sees(v, i)
                    => Mends(later', i, v, u) \/ u \notin shows'[v]
              /\ Sees(v, i) /\ u \in shows'[v] /\ u \notin Members(table[i])
                 /\ Covers(later, i, v, u)
                    => u \in shows[v] \/ Mends(later, i, v, u)
    PROVE  PhantomInv'
<1>1. ASSUME NEW v \in Uid, NEW u \in Uid, NEW i \in GameId PROVE Phantom(v, u, i)'
  <2>1. Phantom(v, u, i)
    BY DEF PhantomInv
  <2>2. Sees(v, i)' <=> Sees(v, i)
    BY DEF Sees, roomVars
  <2>3. table' = table
    BY DEF roomVars
  <2> QED
    BY <2>1, <2>2, <2>3 DEF Phantom
<1> QED
  BY <1>1 DEF PhantomInv

LEMMA TellPhantom ==
    ASSUME TypeInv, PhantomInv, NEW a \in Uid,
           Gset(a) \/ Uadm(a) \/ Reenter(a) \/ ReenterView(a) \/ \E w \in Uid : Onln(a, w)
    PROVE  PhantomInv'
<1>1. UNCHANGED roomVars /\ later' = later
  BY DEF Gset, Uadm, Reenter, ReenterView, Onln
<1>2. ASSUME NEW v \in Uid, NEW u \in Uid, NEW i \in GameId, Sees(v, i),
             u \in shows'[v], u \notin Members(table[i])
      PROVE  u \in shows[v]
  <2>1. game[v] = i
    BY <1>2 DEF Sees
  <2>2. CASE Gset(a) \/ Uadm(a)
    BY <1>2, <2>1, <2>2 DEF Gset, Uadm, Answer, TellRoster
  <2>3. CASE Reenter(a)
    BY <1>2, <2>1, <2>3 DEF Reenter, TellRoster
  <2>4. CASE ReenterView(a)
    BY <1>2, <2>1, <2>4 DEF ReenterView, Cleared, TypeInv, TypeOK
  <2>5. ASSUME NEW w \in Uid, Onln(a, w) PROVE u \in shows[v]
    BY <1>2, <2>1, <2>5 DEF Onln, Cleared, Shown, TypeInv, TypeOK
  <2> QED
    BY <2>2, <2>3, <2>4, <2>5
<1> QED
  BY <1>1, <1>2, RoomsKept

LEMMA AuxiPhantom == ASSUME TypeInv, PhantomInv, NEW a \in Uid, Auxi(a) PROVE PhantomInv'
<1> DEFINE b == game[a]
<1>1. InGame(a) /\ UNCHANGED roomVars
  BY DEF Auxi
<1>2. later \in Seq(Pending)
  BY DEF TypeInv, TypeOK
<1>3. CASE ActiveRefresh(b, a) /\ UNCHANGED <<phase, joinVars, later>>
  <2>1. ASSUME NEW v \in Uid, NEW u \in Uid, NEW i \in GameId, Sees(v, i),
               u \in shows'[v], u \notin Members(table[i])
        PROVE  u \in shows[v]
    BY <1>3, <2>1 DEF ActiveRefresh, Shown, Sees, TypeInv, TypeOK
  <2> QED
    BY <1>1, <1>3, <2>1, RoomsKept
<1>4. CASE Promote(a)
  <2>1. ASSUME NEW v \in Uid, NEW u \in Uid, NEW i \in GameId, Sees(v, i),
               u \in shows'[v], u \notin Members(table[i])
        PROVE  u \in shows[v]
    BY <1>4, <2>1 DEF Promote, Cleared, Sees, TypeInv, TypeOK
  <2>2. later' = later
    BY <1>4 DEF Promote
  <2> QED
    BY <1>1, <2>1, <2>2, RoomsKept
<1>5. CASE /\ Send(<<Refresh(b, IF phase[b].rank = 1 THEN 1 ELSE Any)>>)
           /\ UNCHANGED <<phase, joinVars, shows>>
  <2> DEFINE x == Refresh(b, IF phase[b].rank = 1 THEN 1 ELSE Any)
  <2>1. ItemOK(x, counter)
    BY <1>1, InGameOK DEF ItemOK, Pending, Refresh, Item, Any
  <2>2. later' = Append(later, x)
    BY <1>5, <2>1, SendOne
  <2>3. \A i, v, u : ~Tells(x, i, v, u)
    BY DEF Tells, Refresh, Item, Frames
  <2> HIDE DEF x
  <2>4. x \in Pending
    BY <2>1 DEF ItemOK
  <2> QED
    BY <1>1, <1>2, <1>5, <2>2, <2>3, <2>4, CoversAppend, RoomsKept
<1> QED
  BY <1>3, <1>4, <1>5 DEF Auxi

LEMMA StartPhantom ==
    ASSUME TypeInv, PhantomInv, NEW a \in Uid,
           Ready(a) \/ CountDown(a) \/ \E upper \in BOOLEAN : Gsta(a, upper)
    PROVE  PhantomInv'
<1> DEFINE b == game[a]
<1>1. InGame(a) /\ later \in Seq(Pending)
  BY DEF Ready, CountDown, Gsta, TypeInv, TypeOK
<1>2. b \in GameId /\ table[b] \in Game /\ b < counter
  BY <1>1, InGameOK
<1>3. CASE Ready(a)
  <2> DEFINE x == Refresh(b, IF phase[b].rank = 2 THEN 2 ELSE 1)
  <2>1. ItemOK(x, counter)
    BY <1>2 DEF ItemOK, Pending, Refresh, Item, Any
  <2>2. later' = Append(later, x) /\ UNCHANGED <<roomVars, joinVars, shows>>
    BY <1>3, <2>1, SendOne DEF Ready
  <2>3. \A i, v, u : ~Tells(x, i, v, u)
    BY DEF Tells, Refresh, Item, Frames
  <2> HIDE DEF x
  <2>4. x \in Pending
    BY <2>1 DEF ItemOK
  <2> QED
    BY <1>1, <2>2, <2>3, <2>4, CoversAppend, RoomsKept
<1>4. CASE CountDown(a)
  BY <1>4, RoomsKept DEF CountDown
<1>5. ASSUME NEW upper \in BOOLEAN, Gsta(a, upper) PROVE PhantomInv'
  <2>1. /\ table' = [table EXCEPT ![b] = Start(table[b])]
        /\ game' = [v \in Uid |-> IF v \in Members(table[b]) THEN b ELSE game[v]]
        /\ shows' = [v \in Uid |-> IF v \in Members(table[b])
                                      THEN Members(table[b]) \ {v} ELSE shows[v]]
        /\ later' = later
    BY <1>5 DEF Gsta, InRace, Bursts, TellRoster
  <2> SUFFICES ASSUME NEW v \in Uid, NEW u \in Uid, NEW i \in GameId,
                      Sees(v, i)', u \notin Members(table'[i])
               PROVE  Covers(later', i, v, u) /\ (u \in shows'[v] => Mends(later', i, v, u))
    BY DEF PhantomInv, Phantom
  <2>2. table'[b].state = "ACTIVE"
    BY <1>2, <2>1, StartOK DEF TypeInv, TypeOK
  <2>3. i # b
    BY <2>2 DEF Sees
  <2>4. table'[i] = table[i] /\ game[v] = i /\ shows'[v] = shows[v]
    BY <2>1, <2>3 DEF Sees, TypeInv, TypeOK
  <2>5. Sees(v, i) /\ Phantom(v, u, i)
    BY <2>4 DEF Sees, PhantomInv
  <2> QED
    BY <2>1, <2>4, <2>5 DEF Phantom
<1> QED
  BY <1>3, <1>4, <1>5

LEMMA RunPhantom ==
    ASSUME TypeInv, PhantomInv, NEW k \in 1 .. Len(later), RunStaging(k) \/ RunRefresh(k)
    PROVE  PhantomInv'
<1> DEFINE b == later[k].room
           a == CHOOSE v \in Uid : v \in later[k].to
<1>1. /\ later \in Seq(Pending) /\ later[k] \in Pending /\ b < counter
      /\ later[k].kind = "staging" => later[k].to # {}
  BY DEF TypeInv, TypeOK, ListOK, ItemOK
<1>2. b \in GameId /\ later[k].to \in SUBSET Uid
  BY <1>1 DEF Pending
<1>3. UNCHANGED roomVars /\ shows' = shows /\ \A i, v, u : ~Takes(later[k], i, v, u)
  BY DEF RunStaging, RunRefresh, Takes
<1>4. Less(later, k) \in Seq(Pending)
  BY <1>1, OneLess
<1>5. ASSUME NEW i, NEW v, NEW u
      PROVE  /\ Covers(later, i, v, u) => Covers(Less(later, k), i, v, u)
             /\ Mends(later, i, v, u) => Mends(Less(later, k), i, v, u)
  BY <1>1, <1>3, CoversLess
<1>6. CASE Becomes(k, <<>>)
  BY <1>3, <1>5, <1>6, BecomesNone, RoomsKept
<1>7. ASSUME NEW x, ItemOK(x, counter), Becomes(k, <<x>>), x.room = b,
             x.who = Members(table[b])
      PROVE  PhantomInv'
  <2>1. later' = Append(Less(later, k), x) /\ x \in Pending
    BY <1>7, BecomesOne DEF ItemOK
  <2> SUFFICES ASSUME NEW v \in Uid, NEW u \in Uid, NEW i \in GameId,
                      Sees(v, i)', u \notin Members(table'[i])
               PROVE  Covers(later', i, v, u) /\ (u \in shows'[v] => Mends(later', i, v, u))
    BY DEF PhantomInv, Phantom
  <2>2. Sees(v, i) /\ u \notin Members(table[i]) /\ Phantom(v, u, i)
    BY <1>3 DEF Sees, roomVars, PhantomInv
  <2>3. ~Tells(x, i, v, u)
    BY <1>7, <2>2 DEF Tells
  <2> QED
    BY <1>3, <1>4, <1>5, <2>1, <2>2, <2>3, CoversAppend DEF Phantom
<1>8. CASE /\ later[k].kind = "staging" /\ table[b] # NoGame
           /\ Becomes(k, <<StagingFrames(b, a)>>)
  <2>1. a \in Uid
    BY <1>1, <1>2, <1>8
  <2>2. Members(table[b]) \in SUBSET Uid
    BY <1>2, <1>8, MembersOK DEF TypeInv, TypeOK
  <2>3. ItemOK(StagingFrames(b, a), counter)
    BY <1>1, <1>2, <2>1, <2>2 DEF ItemOK, Pending, StagingFrames, Item, Any
  <2>4. StagingFrames(b, a).room = b /\ StagingFrames(b, a).who = Members(table[b])
    BY DEF StagingFrames, Item
  <2> HIDE DEF a, b
  <2> QED
    BY <1>7, <1>8, <2>3, <2>4
<1>9. CASE /\ table[b] # NoGame
           /\ Becomes(k, <<Item("show", b, Members(table[b]), Members(table[b]), Any)>>)
  <2> DEFINE x == Item("show", b, Members(table[b]), Members(table[b]), Any)
  <2>1. Members(table[b]) \in SUBSET Uid
    BY <1>2, <1>9, MembersOK DEF TypeInv, TypeOK
  <2>2. ItemOK(x, counter)
    BY <1>1, <1>2, <2>1 DEF ItemOK, Pending, Item, Any
  <2>3. x.room = b /\ x.who = Members(table[b])
    BY DEF Item
  <2> HIDE DEF x, b
  <2> QED
    BY <1>7, <1>9, <2>2, <2>3 DEF x
<1> QED
  BY <1>6, <1>8, <1>9 DEF RunStaging, RunRefresh

LEMMA SentPhantom ==
    ASSUME TypeInv, PhantomInv, NEW k \in 1 .. Len(later), NEW a \in Uid,
           SendStaged(k, a) \/ SendShow(k, a) \/ SendRoster(k, a) \/ SendClear(k, a)
    PROVE  PhantomInv'
<1>1. /\ UNCHANGED roomVars /\ a \in later[k].to /\ SentTo(k, a)
  BY DEF SendStaged, SendShow, SendRoster, SendClear
<1>2. CASE SendStaged(k, a) \/ SendShow(k, a) \/ SendRoster(k, a)
  <2>1. later[k].kind \in Frames
    BY <1>2 DEF SendStaged, SendShow, SendRoster, Frames
  <2>2. \A i, v, u : ~Takes(later[k], i, v, u)
    BY <2>1 DEF Takes, Frames
  <2>3. ASSUME NEW v \in Uid, NEW u \in Uid, NEW i \in GameId, Sees(v, i),
               u \in shows'[v], u \notin Members(table[i]), Covers(later, i, v, u)
        PROVE  u \in shows[v] \/ Mends(later, i, v, u)
    <3>1. game[v] = i
      BY <2>3 DEF Sees
    <3>2. u \in shows[v] \/ (later[k].room = i /\ v = a /\ u \in later[k].who)
      <4>1. CASE SendStaged(k, a)
        BY <2>3, <3>1, <4>1 DEF SendStaged, Shown, Cleared, TypeInv, TypeOK
      <4>2. CASE SendShow(k, a)
        BY <2>3, <3>1, <4>2 DEF SendShow, Shown, TypeInv, TypeOK
      <4>3. CASE SendRoster(k, a)
        BY <2>3, <3>1, <4>3 DEF SendRoster, TellRoster, TypeInv, TypeOK
      <4> QED
        BY <1>2, <4>1, <4>2, <4>3
    <3>3. ASSUME later[k].room = i, v = a, u \in later[k].who PROVE Mends(later, i, v, u)
      <4>1. Tells(later[k], i, v, u)
        BY <1>1, <2>1, <3>3 DEF Tells
      <4> QED
        BY <2>3, <4>1 DEF Covers, Mends
    <3> QED
      BY <3>2, <3>3
  <2>4. ASSUME NEW v, NEW u, NEW i
        PROVE  /\ Covers(later, i, v, u) => Covers(later', i, v, u)
               /\ Mends(later, i, v, u) => Mends(later', i, v, u)
    BY <1>1, <2>2, CoversSent
  <2> QED
    BY <1>1, <2>3, <2>4, RoomsKept
<1>3. CASE SendClear(k, a)
  <2>1. \A i, v, u : \A j \in 1 .. (k - 1) : ~Tells(later[j], i, v, u)
    BY <1>3 DEF SendClear, Tells
  <2>2. ASSUME NEW v \in Uid, NEW u \in Uid, NEW i \in GameId, Sees(v, i),
               Mends(later, i, v, u)
        PROVE  Mends(later', i, v, u) \/ u \notin shows'[v]
    <3>1. CASE v = a /\ Takes(later[k], i, v, u)
      BY <1>3, <2>2, <3>1 DEF SendClear, Cleared, Takes, Sees, TypeInv, TypeOK
    <3>2. CASE ~(v = a /\ Takes(later[k], i, v, u))
      BY <1>1, <2>2, <3>2, CoversSent
    <3> QED
      BY <3>1, <3>2
  <2>3. \A v, u \in Uid : u \in shows'[v] => u \in shows[v]
    BY <1>3 DEF SendClear, Cleared, TypeInv, TypeOK
  <2>4. ASSUME NEW v, NEW u, NEW i, Covers(later, i, v, u) PROVE Covers(later', i, v, u)
    BY <1>1, <2>1, <2>4, CoversSent
  <2> QED
    BY <1>1, <2>2, <2>3, <2>4, RoomsKept
<1> QED
  BY <1>2, <1>3

LEMMA PhantomStep == TypeInv /\ PhantomInv /\ [Next]_vars => PhantomInv'
<1> SUFFICES ASSUME TypeInv, PhantomInv, [Next]_vars PROVE PhantomInv'
  OBVIOUS
<1>1. TypeInv'
  BY TypeStep
<1>2. ASSUME NEW u \in Uid, Command(u) PROVE PhantomInv'
  BY <1>1, <1>2, GcrePhantom, GjoiPhantom, LeavePhantom, TellPhantom, AuxiPhantom,
     StartPhantom DEF Command
<1>3. ASSUME NEW i \in GameId, ResetOver(i) PROVE PhantomInv'
  BY <1>3, RoomsKept DEF ResetOver
<1>4. ASSUME NEW k \in 1 .. MaxLater, Fire(k) PROVE PhantomInv'
  <2>1. k \in 1 .. Len(later)
    BY <1>4 DEF Fire, TypeInv, TypeOK
  <2> QED
    BY <1>4, <2>1, RunPhantom, SentPhantom DEF Fire
<1>5. CASE UNCHANGED vars
  BY <1>5, RoomsKept DEF vars
<1> QED
  BY <1>2, <1>3, <1>4, <1>5 DEF Next

(* Nobody in an open room is shown a player who is gone for good: the      *)
(* notice that says so is under way, for any users, rooms and timers.      *)
THEOREM NoPhantomsCorrect == Spec => []NoPhantoms
<1>1. Init => PhantomInv
  BY DEF Init, PhantomInv, Phantom, Sees
<1>2. TypeInv /\ PhantomInv => NoPhantoms
  <2> SUFFICES ASSUME TypeInv, PhantomInv, NEW v \in Uid, InGame(v),
                      table[game[v]].state = "OPEN", v \in Members(table[game[v]]),
                      NEW u \in shows[v], u \notin Members(table[game[v]])
               PROVE  Correction(v, u, game[v])
    BY DEF NoPhantoms
  <2>1. game[v] \in GameId /\ u \in Uid
    BY InGameOK DEF TypeInv, TypeOK
  <2>2. Sees(v, game[v])
    BY DEF Sees, InGame
  <2>3. Mends(later, game[v], v, u)
    BY <2>1, <2>2 DEF PhantomInv, Phantom
  <2> QED
    BY <2>3 DEF Mends, Takes, Correction
<1> QED
  BY <1>1, <1>2, TypeInitially, TypeStep, PhantomStep, PTL DEF Spec

-----------------------------------------------------------------------------
(***************************************************************************)
(* Promotion.  Until a guest is promoted, staging frames on their way to   *)
(* it are those of the room it has joined, and if it has been staged, it   *)
(* was in that room.                                                       *)
(***************************************************************************)
Timely ==
    {x \in Pending : x.kind = "staged" =>
        \A u \in x.to : u \in promoted \/ x.room = auxi[u]}

StagedInv ==
    /\ later \in Seq(Timely)
    /\ \A u \in staged : u \in promoted \/ stagedIn[u] = auxi[u]

LEMMA EachTimely ==
    ASSUME NEW s \in Seq(Pending), NEW S \in SUBSET Pending, \A k \in 1 .. Len(s) : s[k] \in S
    PROVE  s \in Seq(S)
<1>1. Len(s) \in Nat /\ s \in [1 .. Len(s) -> S]
  OBVIOUS
<1> QED
  BY <1>1

(* Steps that change nothing of a guest's staging, and send no frame to    *)
(* stage one.                                                              *)
LEMMA SendTimely ==
    ASSUME TypeInv, StagedInv, UNCHANGED joinVars, later' \in Seq(Timely)
    PROVE  StagedInv'
<1>1. Timely' = Timely
  BY DEF Timely, joinVars
<1> QED
  BY <1>1 DEF StagedInv, joinVars

LEMMA DepartureTimely ==
    ASSUME TypeInv, StagedInv, NEW a \in Uid, InGame(a), Send(Departure(game[a], a))
    PROVE  later' \in Seq(Timely)
<1> DEFINE b == game[a]
           x == Item("roster", b, Others(b, a), Others(b, a), Any)
           y == Clear(a, b, Others(b, a))
<1>1. /\ x \in Pending /\ y \in Pending
      /\ Departure(b, a) = IF Removes(table[b], a) THEN <<>> ELSE <<x, y>>
  BY DepartureOK DEF ItemOK
<1>2. x \in Timely /\ y \in Timely /\ later \in Seq(Timely)
  BY <1>1 DEF Timely, Item, Clear, StagedInv
<1> HIDE DEF x, y
<1>3. later' = later \/ later' = Append(Append(later, x), y)
  BY <1>1, <1>2, Longer DEF Send
<1> QED
  BY <1>2, <1>3, OneMore

(* One entry of another kind more. *)
LEMMA AppendTimely ==
    ASSUME StagedInv, NEW x \in Pending, x.kind # "staged", later' = Append(later, x)
    PROVE  later' \in Seq(Timely)
<1>1. x \in Timely /\ later \in Seq(Timely)
  BY DEF Timely, StagedInv
<1> QED
  BY <1>1, OneMore

LEMMA GjoiStaged ==
    ASSUME TypeInv, TypeInv', StagedInv, NEW a \in Uid, NEW b \in GameId, NEW plain \in BOOLEAN,
           Gjoi(a, b, plain)
    PROVE  StagedInv'
<1>1. /\ auxi' = [auxi EXCEPT ![a] = b] /\ promoted' = promoted \ {a}
      /\ staged' = staged \ {a} /\ stagedIn' = [stagedIn EXCEPT ![a] = 0] /\ Served(a)
  BY DEF Gjoi, Newcomer
<1>2. later' \in Seq(Timely)
  <2>1. CASE plain
    <3>1. ItemOK(Staging(a, b), counter)
      BY GamesAssumption DEF Gjoi, ItemOK, Pending, Staging, Item, Any, TypeInv, TypeOK, GameId
    <3>2. Staging(a, b) \in Pending /\ Staging(a, b).kind # "staged"
      BY <3>1 DEF ItemOK, Staging, Item
    <3> QED
      BY <2>1, <3>1, <3>2, SendOne, AppendTimely DEF Gjoi
  <2>2. CASE ~plain
    BY <2>2, SendNone DEF Gjoi, StagedInv
  <2> QED
    BY <2>1, <2>2
<1>3. \A k \in 1 .. Len(later') : later'[k].kind = "staged" => a \notin later'[k].to
  <2>1. later \in Seq(Pending) /\ \A k \in 1 .. Len(later) :
           later[k].kind = "staged" => a \notin later[k].to
    BY <1>1 DEF Served, Frames, TypeInv, TypeOK
  <2>2. CASE plain
    <3>1. ItemOK(Staging(a, b), counter)
      BY GamesAssumption DEF Gjoi, ItemOK, Pending, Staging, Item, Any, TypeInv, TypeOK, GameId
    <3>2. later' = Append(later, Staging(a, b)) /\ Staging(a, b).kind = "staging"
      BY <2>2, <3>1, SendOne DEF Gjoi, Staging, Item
    <3>3. Staging(a, b) \in Pending
      BY <3>1 DEF ItemOK
    <3> QED
      BY <2>1, <3>2, <3>3
  <2>3. CASE ~plain
    BY <2>1, <2>3, SendNone DEF Gjoi
  <2> QED
    BY <2>2, <2>3
<1>4. \A k \in 1 .. Len(later') : later'[k] \in Timely'
  <2> SUFFICES ASSUME NEW k \in 1 .. Len(later') PROVE later'[k] \in Timely'
    OBVIOUS
  <2>1. later'[k] \in Timely /\ (later'[k].kind = "staged" => a \notin later'[k].to)
    BY <1>2, <1>3
  <2> QED
    BY <1>1, <2>1 DEF Timely, Pending, TypeInv, TypeOK
<1>5. later' \in Seq(Timely')
  BY <1>4, EachTimely DEF TypeInv, TypeOK, Timely
<1>6. \A u \in staged' : u \in promoted' \/ stagedIn'[u] = auxi'[u]
  BY <1>1 DEF StagedInv, TypeInv, TypeOK
<1> QED
  BY <1>5, <1>6 DEF StagedInv

LEMMA PromoteStaged ==
    ASSUME TypeInv, StagedInv, NEW a \in Uid, Promote(a)
    PROVE  StagedInv'
<1>1. /\ promoted' = promoted \union {a} /\ auxi' = [auxi EXCEPT ![a] = 0]
      /\ stagedIn' = IF a \in staged THEN stagedIn ELSE [stagedIn EXCEPT ![a] = game[a]]
      /\ staged' = staged \union {a} /\ later' = later
  BY DEF Promote
<1>2. Timely \in SUBSET Timely'
  BY <1>1 DEF Timely, Pending, TypeInv, TypeOK
<1>3. Timely' \in SUBSET Pending /\ later \in Seq(Pending)
  BY DEF Timely, TypeInv, TypeOK
<1>4. \A k \in 1 .. Len(later) : later[k] \in Timely'
  BY <1>2 DEF StagedInv
<1>5. later' \in Seq(Timely')
  BY <1>1, <1>3, <1>4, EachTimely
<1>6. \A u \in staged' : u \in promoted' \/ stagedIn'[u] = auxi'[u]
  BY <1>1 DEF StagedInv, TypeInv, TypeOK
<1> QED
  BY <1>5, <1>6 DEF StagedInv

LEMMA CommandStaged ==
    ASSUME TypeInv, TypeInv', StagedInv, NEW a \in Uid, Command(a)
    PROVE  StagedInv'
<1> DEFINE b == game[a]
<1>1. ASSUME NEW l \in Limits, Gcre(a, l) PROVE StagedInv'
  <2>1. Send(IF InGame(a) /\ table[b].state = "OPEN" THEN Departure(b, a) ELSE <<>>)
        /\ UNCHANGED joinVars
    BY <1>1 DEF Gcre
  <2> QED
    BY <2>1, DepartureTimely, SendNone, SendTimely DEF StagedInv
<1>2. ASSUME NEW i \in GameId, NEW plain \in BOOLEAN, Gjoi(a, i, plain) PROVE StagedInv'
  BY <1>2, GjoiStaged
<1>3. CASE Leave(a)
  BY <1>3, DepartureTimely, SendTimely DEF Leave
<1>4. CASE Gset(a) \/ Uadm(a) \/ Reenter(a) \/ ReenterView(a) \/ \E w \in Uid : Onln(a, w)
  <2>1. UNCHANGED <<joinVars, later>>
    BY <1>4 DEF Gset, Uadm, Reenter, ReenterView, Onln
  <2> QED
    BY <2>1, SendTimely DEF StagedInv
<1>5. ASSUME NEW r \in 0 .. Any, InGame(a), Send(<<Refresh(b, r)>>), UNCHANGED joinVars
      PROVE  StagedInv'
  <2>1. ItemOK(Refresh(b, r), counter)
    BY <1>5, InGameOK DEF ItemOK, Pending, Refresh, Item
  <2>2. Refresh(b, r) \in Pending /\ Refresh(b, r).kind # "staged"
    BY <2>1 DEF ItemOK, Refresh, Item
  <2>3. later' = Append(later, Refresh(b, r))
    BY <1>5, <2>1, SendOne
  <2> QED
    BY <1>5, <2>2, <2>3, AppendTimely, SendTimely
<1>6. CASE Auxi(a)
  <2>1. CASE ActiveRefresh(b, a) /\ UNCHANGED <<phase, joinVars, later>>
    BY <2>1, SendTimely DEF StagedInv
  <2>2. CASE Promote(a)
    BY <2>2, PromoteStaged
  <2>3. CASE /\ Send(<<Refresh(b, IF phase[b].rank = 1 THEN 1 ELSE Any)>>)
             /\ UNCHANGED <<phase, joinVars, shows>>
    <3>1. (IF phase[b].rank = 1 THEN 1 ELSE Any) \in 0 .. Any /\ InGame(a)
      BY <1>6 DEF Any, Auxi
    <3> QED
      BY <1>5, <2>3, <3>1
  <2> QED
    BY <1>6, <2>1, <2>2, <2>3 DEF Auxi
<1>7. CASE Ready(a)
  <2>1. (IF phase[b].rank = 2 THEN 2 ELSE 1) \in 0 .. Any /\ InGame(a)
    BY <1>7 DEF Any, Ready
  <2> QED
    BY <1>5, <1>7, <2>1 DEF Ready
<1>8. CASE CountDown(a) \/ \E upper \in BOOLEAN : Gsta(a, upper)
  BY <1>8, SendTimely DEF CountDown, Gsta, StagedInv
<1> QED
  BY <1>1, <1>2, <1>3, <1>4, <1>6, <1>7, <1>8 DEF Command

LEMMA RunStaged ==
    ASSUME TypeInv, StagedInv, NEW k \in 1 .. Len(later), RunStaging(k) \/ RunRefresh(k)
    PROVE  StagedInv'
<1> DEFINE b == later[k].room
           a == CHOOSE v \in Uid : v \in later[k].to
<1>1. /\ later[k] \in Pending /\ b < counter /\ later \in Seq(Timely)
      /\ later[k].kind = "staging" => later[k].to # {}
  BY DEF TypeInv, ListOK, ItemOK, StagedInv
<1>2. b \in GameId /\ later[k].to \in SUBSET Uid
  BY <1>1 DEF Pending
<1>3. UNCHANGED joinVars
  <2>1. CASE RunStaging(k)
    BY <2>1 DEF RunStaging
  <2>2. CASE RunRefresh(k)
    BY <2>2 DEF RunRefresh
  <2> QED
    BY <2>1, <2>2
<1>4. Less(later, k) \in Seq(Timely)
  BY <1>1, OneLess
<1>5. CASE Becomes(k, <<>>)
  BY <1>3, <1>4, <1>5, BecomesNone, SendTimely
<1>6. ASSUME NEW x \in Timely, ItemOK(x, counter), Becomes(k, <<x>>) PROVE StagedInv'
  BY <1>3, <1>4, <1>6, BecomesOne, OneMore, SendTimely
<1>7. CASE /\ later[k].kind = "staging" /\ table[b] # NoGame /\ ~Overtaken(a, b)
           /\ Becomes(k, <<StagingFrames(b, a)>>)
  <2>1. a \in Uid
    BY <1>1, <1>2, <1>7
  <2>2. Members(table[b]) \in SUBSET Uid
    BY <1>2, <1>7, MembersOK DEF TypeInv, TypeOK
  <2>3. ItemOK(StagingFrames(b, a), counter)
    BY <1>1, <1>2, <2>1, <2>2 DEF ItemOK, Pending, StagingFrames, Item, Any
  <2>4. StagingFrames(b, a) \in Timely
    BY <1>7, <2>3 DEF Timely, ItemOK, StagingFrames, Item, Overtaken
  <2> HIDE DEF a, b
  <2> QED
    BY <1>6, <1>7, <2>3, <2>4
<1>8. CASE /\ table[b] # NoGame
           /\ Becomes(k, <<Item("show", b, Members(table[b]), Members(table[b]), Any)>>)
  <2> DEFINE x == Item("show", b, Members(table[b]), Members(table[b]), Any)
  <2>1. Members(table[b]) \in SUBSET Uid
    BY <1>2, <1>8, MembersOK DEF TypeInv, TypeOK
  <2>2. ItemOK(x, counter)
    BY <1>1, <1>2, <2>1 DEF ItemOK, Pending, Item, Any
  <2>3. x \in Timely
    BY <2>2 DEF Timely, ItemOK, Item
  <2> HIDE DEF x
  <2> QED
    BY <1>6, <1>8, <2>2, <2>3 DEF x
<1> QED
  BY <1>5, <1>7, <1>8 DEF RunStaging, RunRefresh

(* What was sent to a. *)
LEMMA SentToTimely ==
    ASSUME TypeInv, StagedInv, NEW k \in 1 .. Len(later), NEW a \in Uid, a \in later[k].to,
           SentTo(k, a)
    PROVE  later' \in Seq(Timely)
<1>1. later \in Seq(Timely) /\ later \in Seq(Pending) /\ later[k] \in Timely
  BY DEF StagedInv, TypeInv, TypeOK
<1>2. CASE later[k].to \ {a} = {}
  <2>1. later' = Less(later, k)
    BY <1>2 DEF SentTo, Without, Less
  <2> QED
    BY <1>1, <2>1, OneLess
<1>3. CASE later[k].to \ {a} # {}
  <2> DEFINE rest == later[k].to \ {a}
             w    == Narrow(later, k, rest)
  <2>1. later' = w
    BY <1>3 DEF SentTo, Narrow
  <2>2. rest \in SUBSET Uid
    BY <1>1 DEF Timely, Pending
  <2>3. /\ w \in Seq(Pending) /\ Len(w) = Len(later)
        /\ \A j \in 1 .. Len(later) : j # k => w[j] = later[j]
        /\ w[k] \in Pending /\ w[k].kind = later[k].kind /\ w[k].room = later[k].room
        /\ w[k].to = rest
    BY <1>1, <2>2, NarrowOK
  <2>4. w[k] \in Timely
    BY <1>1, <2>3 DEF Timely
  <2> HIDE DEF w, rest
  <2>5. \A j \in 1 .. Len(w) : w[j] \in Timely
    BY <1>1, <2>3, <2>4
  <2>6. Timely \in SUBSET Pending
    BY DEF Timely
  <2> QED
    BY <2>1, <2>3, <2>5, <2>6, EachTimely
<1> QED
  BY <1>2, <1>3

LEMMA StagedStep == TypeInv /\ StagedInv /\ [Next]_vars => StagedInv'
<1> SUFFICES ASSUME TypeInv, StagedInv, [Next]_vars PROVE StagedInv'
  OBVIOUS
<1>1. TypeInv'
  BY TypeStep
<1>2. ASSUME NEW u \in Uid, Command(u) PROVE StagedInv'
  BY <1>1, <1>2, CommandStaged
<1>3. CASE \/ UNCHANGED vars
           \/ \E i \in GameId : ResetOver(i)
  BY <1>3, SendTimely DEF ResetOver, StagedInv, vars
<1>4. ASSUME NEW k \in 1 .. MaxLater, Fire(k) PROVE StagedInv'
  <2>1. k \in 1 .. Len(later)
    BY <1>4 DEF Fire, TypeInv, TypeOK
  <2>2. CASE RunStaging(k) \/ RunRefresh(k)
    BY <2>1, <2>2, RunStaged
  <2>3. ASSUME NEW a \in Uid, SendShow(k, a) \/ SendRoster(k, a) \/ SendClear(k, a)
        PROVE  StagedInv'
    <3>1. UNCHANGED joinVars /\ a \in later[k].to /\ SentTo(k, a)
      BY <2>3 DEF SendShow, SendRoster, SendClear
    <3> QED
      BY <2>1, <3>1, SentToTimely, SendTimely
  <2>4. ASSUME NEW a \in Uid, SendStaged(k, a) PROVE StagedInv'
    <3>1. /\ a \in later[k].to /\ SentTo(k, a) /\ later[k].kind = "staged"
          /\ staged' = staged \union {a}
          /\ stagedIn' = [stagedIn EXCEPT ![a] = later[k].room]
          /\ UNCHANGED <<auxi, promoted>>
      BY <2>4 DEF SendStaged
    <3>2. later' \in Seq(Timely) /\ Timely' = Timely
      BY <2>1, <3>1, SentToTimely DEF Timely
    <3>3. later[k] \in Timely
      BY <2>1 DEF StagedInv
    <3>4. a \in promoted \/ later[k].room = auxi[a]
      BY <3>1, <3>3 DEF Timely
    <3>5. \A u \in staged' : u \in promoted' \/ stagedIn'[u] = auxi'[u]
      BY <3>1, <3>4 DEF StagedInv, TypeInv, TypeOK
    <3> QED
      BY <3>2, <3>5 DEF StagedInv
  <2> QED
    BY <1>4, <2>2, <2>3, <2>4 DEF Fire
<1> QED
  BY <1>2, <1>3, <1>4 DEF Next

(* A guest is promoted only after it has been sent the staging frames of   *)
(* the room it is in, since it joined.                                     *)
THEOREM PromotedStagedCorrect == Spec => PromotedStaged
<1>1. Init => StagedInv
  BY DEF Init, StagedInv
<1>2. ASSUME TypeInv, StagedInv, [Next]_vars, NEW u \in Uid, u \notin promoted, u \in promoted'
      PROVE  stagedIn'[u] = game[u]
  <2>1. u \in Uid /\ Promote(u) /\ auxi[u] = game[u]
    <3>1. ASSUME NEW a \in Uid, Auxi(a) PROVE u = a /\ Promote(a) /\ auxi[a] = game[a]
      BY <1>2, <3>1 DEF Auxi, Promote, joinVars
    <3>2. PICK a \in Uid : Auxi(a)
      <4>1. ASSUME promoted' \subseteq promoted PROVE FALSE
        BY <1>2, <4>1
      <4> QED
        BY <1>2, <4>1 DEF Next, Command, Gcre, Gjoi, Newcomer, Leave, Gset, Uadm, Reenter,
           ReenterView, Onln, Ready, CountDown, Gsta, ResetOver, Fire, RunStaging, RunRefresh,
           SendStaged, SendShow, SendRoster, SendClear, vars, joinVars
    <3> QED
      BY <3>1, <3>2
  <2> QED
    BY <1>2, <2>1 DEF Promote, StagedInv, TypeInv, TypeOK
<1>3. TypeInv /\ StagedInv /\ [Next]_vars
        => [\A u \in Uid : u \notin promoted /\ u \in promoted' => stagedIn'[u] = game[u]]_vars
  BY <1>2
<1> QED
  BY <1>1, <1>3, TypeInitially, TypeStep, StagedStep, PTL DEF Spec, PromotedStaged
=============================================================================
