------------------------------- MODULE Relay -------------------------------
(***************************************************************************)
(* The tables of the UDP relay of server.py: which endpoint is in which    *)
(* race room, what is kept for an opponent who has not come yet, and which *)
(* rooms have started.  The relay's thread handles one packet at a time;   *)
(* it often has to guess who the opponent is, and moves the endpoint it    *)
(* guesses into the room.  Games come and go by the lobby's threads, and   *)
(* the maintenance thread resets a room in steps of its own, without a     *)
(* lock.  Which guess is made depends on addresses, bindings and times:    *)
(* here it may be any endpoint.  Race packets and their order are the      *)
(* subject of RawOrder; here it only counts which rooms have some kept.    *)
(***************************************************************************)
EXTENDS Integers, FiniteSetsExt

CONSTANTS Client,       \* UDP endpoints
          Room,         \* ids of games: the rooms packets may name
          NoRoom,       \* room = None
          Unknown,      \* the relay has no state of the endpoint
          MaxClients,   \* UDP_RELAY_MAX_CLIENTS
          MaxPending,   \* UDP_RELAY_MAX_PENDING_ROOMS
          Players       \* bound: the numbers of players a game may have

ASSUME RelayAssumption ==
          /\ IsFiniteSet(Client)
          /\ IsFiniteSet(Room)
          /\ NoRoom \notin Room
          /\ Unknown \notin Room \union {NoRoom}
          /\ MaxClients \in Nat \ {0}
          /\ MaxPending \in Nat \ {0}
          /\ Players \subseteq Nat
          /\ 0 \in Players

VARIABLES relay,        \* the tables, a record of the type State
          players,      \* players[r]: how many are in game r, 0 if there is none
          active,       \* the games in the state ACTIVE
          resetting,    \* the room the maintenance thread is resetting
          overlapped    \* history: the relay did something during a reset

vars == <<relay, players, active, resetting, overlapped>>

State ==
    [where   : [Client -> Room \union {NoRoom, Unknown}],   \* client.room
     rooms   : [Room -> SUBSET Client],     \* _udp_relay_rooms
     saved   : [Room -> SUBSET Client],     \* pending_room_packets, by source
     raw     : SUBSET Room,                 \* pending_room_raw_packets
     started : SUBSET Room]                 \* _udp_relay_raw_started_rooms

TypeOK ==
    /\ relay \in State
    /\ players \in [Room -> Players]
    /\ active \subseteq {r \in Room : players[r] > 0}
    /\ resetting \in Room \union {NoRoom}
    /\ overlapped \in BOOLEAN

Init ==
    /\ relay = [where   |-> [c \in Client |-> Unknown],
                rooms   |-> [r \in Room |-> {}],
                saved   |-> [r \in Room |-> {}],
                raw     |-> {},
                started |-> {}]
    /\ players = [r \in Room |-> 0]
    /\ active = {}
    /\ resetting = NoRoom
    /\ overlapped = FALSE

-----------------------------------------------------------------------------
(* The operators below take the tables, as s, to what they become; those   *)
(* that depend on times and addresses yield the set of what is possible.   *)
Known(s) == {c \in Client : s.where[c] # Unknown}

Peers(s, c) == IF s.where[c] \in Room THEN s.rooms[s.where[c]] \ {c} ELSE {}

(* f with v at x.                                                         *)
Put(f, x, v) == [y \in DOMAIN f |-> IF y = x THEN v ELSE f[y]]

Pending(store) == {r \in Room : store[r] # {}}

(* What is kept for the rooms in P and Q is thrown away.                   *)
Without(s, P, Q) ==
    [s EXCEPT !.saved = [r \in Room |-> IF r \in P THEN {} ELSE s.saved[r]],
              !.raw   = s.raw \ Q]

(* Packets for any rooms may be too old.                                   *)
Expired(s) ==
    {Without(s, P, Q) : P \in SUBSET Pending(s.saved), Q \in SUBSET s.raw}

DroppedKeepsStart(s, D) ==              \* mutant: raw_started_rooms is kept
    LET in(r)   == {c \in D : s.where[c] = r}
        gone(r) == in(r) # {} /\ s.rooms[r] # {} /\ s.rooms[r] \subseteq in(r)
    IN  [where   |-> [c \in Client |-> IF c \in D THEN Unknown ELSE s.where[c]],
         rooms   |-> [r \in Room |-> s.rooms[r] \ in(r)],
         saved   |-> [r \in Room |-> IF gone(r) THEN {} ELSE s.saved[r]],
         raw     |-> {r \in s.raw : ~gone(r)},
         started |-> s.started]

(* The clients in D are dropped.  The last one of a room takes with it     *)
(* what the relay kept for the room.                                       *)
Dropped(s, D) ==
    LET in(r)   == {c \in D : s.where[c] = r}
        gone(r) == in(r) # {} /\ s.rooms[r] # {} /\ s.rooms[r] \subseteq in(r)
    IN  [where   |-> [c \in Client |-> IF c \in D THEN Unknown ELSE s.where[c]],
         rooms   |-> [r \in Room |-> s.rooms[r] \ in(r)],
         saved   |-> [r \in Room |-> IF gone(r) THEN {} ELSE s.saved[r]],
         raw     |-> {r \in s.raw : ~gone(r)},
         started |-> {r \in s.started : ~gone(r)}]

(* Any clients may be idle.                                                *)
Cleaned(s) == UNION {Expired(Dropped(s, D)) : D \in SUBSET Known(s)}

Added(s, c) == [s EXCEPT !.where = Put(s.where, c, NoRoom)]

(* A packet of c has come.  A new client may find the table full, and if   *)
(* nobody in it is idle, the packet is ignored.                            *)
Touched(s, c) ==
    IF c \in Known(s) THEN {s}
    ELSE IF Cardinality(Known(s)) < MaxClients THEN {Added(s, c)}
    ELSE {IF Cardinality(Known(t)) < MaxClients THEN Added(t, c) ELSE t :
             t \in Cleaned(s)}

-----------------------------------------------------------------------------
LeftInName(s, c) == s                   \* mutant: prev_members is not updated

(* c leaves its room.  The last one takes the start with it.               *)
Left(s, c) ==
    LET q == s.where[c]
    IN  IF q \notin Room THEN s
        ELSE [s EXCEPT !.rooms = Put(s.rooms, q, s.rooms[q] \ {c}),
                       !.started = IF s.rooms[q] = {c} THEN s.started \ {q} ELSE s.started]

Joined(s, c, r) ==
    [s EXCEPT !.where = Put(s.where, c, r),
              !.rooms = Put(s.rooms, r, s.rooms[r] \union {c})]

(* The race packets kept for r are replayed to a client: not those that it *)
(* sent, nor those of clients that are gone.                               *)
RawReplayed(s, r) == {[s EXCEPT !.raw = K] : K \in {s.raw, s.raw \ {r}}}

ReplayedLate(s, r) ==                   \* mutant: replay from the third on
    IF Cardinality(s.rooms[r]) > 2
    THEN RawReplayed([s EXCEPT !.saved = Put(s.saved, r, {})], r)
    ELSE {s}

(* What is kept for r is replayed to the client that has just come and has *)
(* found somebody there.                                                   *)
Replayed(s, r) ==
    IF Cardinality(s.rooms[r]) > 1
    THEN RawReplayed([s EXCEPT !.saved = Put(s.saved, r, {})], r)
    ELSE {s}

(* How many endpoints the game has: two, before the opponent has joined.   *)
Expected(r) == IF players[r] > 2 THEN players[r] ELSE 2

(* The clients in D are taken out of r.                                    *)
TakenOut(s, r, D) ==
    [s EXCEPT !.where = [c \in Client |->
                            IF c \in D \intersect Known(s) THEN NoRoom ELSE s.where[c]],
              !.rooms = Put(s.rooms, r, s.rooms[r] \ D)]

PrunedTooFew(s, r) ==                   \* mutant: one more than expected stays
    IF players[r] = 0 \/ Cardinality(s.rooms[r]) <= Expected(r) + 1 THEN {s}
    ELSE {TakenOut(s, r, s.rooms[r] \ K) : K \in kSubset(Expected(r), s.rooms[r])}

(* If there are more than the game has players, those with the lowest rank *)
(* go.  Who that is depends on times and ports, and it may be the one who  *)
(* has just come.                                                          *)
Pruned(s, r) ==
    IF players[r] = 0 \/ Cardinality(s.rooms[r]) <= Expected(r) THEN {s}
    ELSE {TakenOut(s, r, s.rooms[r] \ K) : K \in kSubset(Expected(r), s.rooms[r])}

(* c is moved to r, by a packet of its own or by a guess.                  *)
Moved(s, c, r) ==
    IF s.where[c] = r THEN {s}
    ELSE UNION {Pruned(t, r) : t \in Replayed(Joined(Left(s, c), c, r), r)}

(* Who is c's opponent in r?  Nobody is, or somebody who need not be moved *)
(* there, or b is.                                                         *)
Guessed(s, c, r) == {s} \union (UNION {Moved(s, b, r) : b \in Known(s) \ {c}})

-----------------------------------------------------------------------------
(* The packet of c is kept for r, unless too many are.  For one more room  *)
(* the old ones are thrown away first, and there may still be no place.    *)
Saved(s, c, r) ==
    IF s.saved[r] # {}
    THEN {s, [s EXCEPT !.saved = Put(s.saved, r, s.saved[r] \union {c})]}
    ELSE {IF Cardinality(Pending(t.saved)) < MaxPending
          THEN [t EXCEPT !.saved = Put(t.saved, r, {c})] ELSE t : t \in Expired(s)}

StashedUnlimited(s, r) ==               \* mutant: no limit on rooms
    {s, [s EXCEPT !.raw = s.raw \union {r}]}

(* The same for a race packet.                                             *)
Stashed(s, r) ==
    IF r \in s.raw THEN {s}
    ELSE {IF Cardinality(t.raw) < MaxPending
          THEN [t EXCEPT !.raw = t.raw \union {r}] ELSE t : t \in Expired(s)}

(* The other place where what is kept for r goes out: all of it is gone as *)
(* soon as a packet finds two clients there.                               *)
Flushed(s, r) ==
    IF Cardinality(s.rooms[r]) > 1
    THEN [s EXCEPT !.saved = Put(s.saved, r, {})]
    ELSE s

(* The room starts: what the other side sent before is replayed to the     *)
(* client that starts it.                                                  *)
Started(s, r) ==
    IF r \in s.started THEN {s}
    ELSE RawReplayed([s EXCEPT !.started = s.started \union {r}], r)

(* Traffic in r: of a lone client the relay guesses the opponent, or keeps *)
(* the packet.                                                             *)
Passed(s, c, r) ==
    IF Peers(s, c) # {} THEN {s} ELSE Guessed(s, c, r) \union Stashed(s, r)

(* The room a packet of race traffic belongs to: the only active game or   *)
(* the only one with two players, else where its sender is, else the only  *)
(* room there is something of.  At most one.                               *)
Inferred(s, c) ==
    LET clues == <<active, {r \in Room : players[r] >= 2}, {s.where[c]} \intersect Room,
                   Pending(s.saved), s.raw, Pending(s.rooms)>>
        clear == {i \in DOMAIN clues : Cardinality(clues[i]) = 1}
    IN  IF clear = {} THEN {}
        ELSE clues[CHOOSE i \in clear : \A j \in clear : i <= j]

-----------------------------------------------------------------------------
(* What a packet does to the tables s, when its sender is in them.         *)

(* cmd 1 or 5 for the room r.  Of a lone client it is saved, after its     *)
(* opponent has been looked for once more: both the endpoint bound to the  *)
(* opponent's uid and the one seen last may be moved to r.                 *)
ProbeEffect(s, c, r) ==
    LET arrived == {Flushed(t, r) : t \in Moved(s, c, r)}
        alone   == {t \in arrived : Peers(t, c) = {}}
        booted  == UNION {Guessed(u, c, r) : u \in UNION {Guessed(t, c, r) : t \in alone}}
    IN  UNION ({Guessed(t, c, r) : t \in arrived} \union {Saved(t, c, r) : t \in booted})

(* Race traffic, in the room r that is inferred.                           *)
RawEffect(s, c, r) ==
    UNION {Passed(Flushed(t, r), c, r) :
              t \in UNION {Started(u, r) : u \in Moved(s, c, r)}}

(* A short 0x65: before the room has started it only shows where c is.     *)
PrestartEffect(s, c, r) ==
    IF r \in s.started THEN RawEffect(s, c, r) ELSE Moved(s, c, r)

(* Another command: c stays in its room q.                                 *)
OtherEffect(s, c, q) ==
    IF Peers(s, c) # {} THEN {Flushed(s, q)} ELSE Guessed(s, c, q)

(* A packet that is too short to name a room or to infer one from.         *)
TinyEffect(s, c, q) ==
    IF Peers(s, c) # {} THEN Started(s, q)
    ELSE UNION ({IF t.where[c] = q THEN Started(t, q) ELSE {t} : t \in Guessed(s, c, q)}
                \union {Stashed(t, q) : t \in Started(s, q)})

-----------------------------------------------------------------------------
(* The relay's thread did something.                                       *)
Stepped ==
    /\ overlapped' = (overlapped \/ resetting # NoRoom)
    /\ UNCHANGED <<players, active, resetting>>

(* Packets of clients there is no place for are ignored.                   *)
Probe(c, r) ==
    /\ relay' \in UNION {IF c \in Known(s) THEN ProbeEffect(s, c, r) ELSE {s} :
                            s \in Touched(relay, c)}
    /\ Stepped

Raw(c) ==
    /\ relay' \in UNION {IF c \in Known(s) /\ Inferred(s, c) # {}
                         THEN UNION {RawEffect(s, c, r) \union PrestartEffect(s, c, r) :
                                        r \in Inferred(s, c)}
                         ELSE {s} : s \in Touched(relay, c)}
    /\ Stepped

Other(c) ==
    /\ relay' \in UNION {IF s.where[c] \in Room
                         THEN OtherEffect(s, c, s.where[c]) \union TinyEffect(s, c, s.where[c])
                         ELSE {s} : s \in Touched(relay, c)}
    /\ Stepped

(* A second without packets.                                               *)
Idle ==
    /\ relay' \in Cleaned(relay)
    /\ Stepped

(* Game r is created, joined, left, started or over.                       *)
GameChanges(r) ==
    /\ \E n \in Players :
          /\ players' = [players EXCEPT ![r] = n]
          /\ active' \in IF n = 0 THEN {active \ {r}} ELSE {active, active \union {r}}
    /\ UNCHANGED <<relay, resetting, overlapped>>

(* The maintenance thread resets r, the game of a detached user, ...       *)
ResetBegin(r) ==
    /\ resetting = NoRoom
    /\ resetting' = r
    /\ relay' = [relay EXCEPT !.rooms = Put(relay.rooms, r, {})]
    /\ UNCHANGED <<players, active, overlapped>>

(* ... and, after that, its clients.  Those who are idle are dropped.      *)
ResetEnd ==
    /\ resetting # NoRoom
    /\ LET in == {c \in Client : relay.where[c] = resetting}
       IN  \E D \in SUBSET in :
              relay' = [relay EXCEPT
                 !.where = [c \in Client |->
                              IF c \in D THEN Unknown
                              ELSE IF c \in in THEN NoRoom ELSE relay.where[c]],
                 !.saved = Put(relay.saved, resetting, {}),
                 !.raw = relay.raw \ {resetting},
                 !.started = relay.started \ {resetting}]
    /\ resetting' = NoRoom
    /\ UNCHANGED <<players, active, overlapped>>

Next ==
    \/ \E c \in Client, r \in Room : Probe(c, r)
    \/ \E c \in Client : Raw(c) \/ Other(c)
    \/ Idle
    \/ \E r \in Room : GameChanges(r) \/ ResetBegin(r)
    \/ ResetEnd

Spec == Init /\ [][Next]_vars

-----------------------------------------------------------------------------
(* The two tables agree: a room's members are the clients that say they    *)
(* are in it, through moves, guesses, pruning and idle clients.  A member  *)
(* that had gone elsewhere would still be sent the room's packets; this    *)
(* says nothing of packets that go to one guessed or named receiver.  Only *)
(* a reset that the relay's thread interrupts may break it.                *)
RoomsMatch ==
    ~overlapped =>
        \A r \in Room :
            relay.rooms[r] = IF r = resetting THEN {} ELSE {c \in Client : relay.where[c] = r}

(* A room that has started has somebody in it: else the first packet of    *)
(* the next race there would not be taken for its start, and would not get *)
(* what was kept for it.                                                   *)
StartedLive ==
    ~overlapped =>
        \A r \in relay.started \ {resetting} : relay.rooms[r] # {}

(* CONFIG.md 184-189: the tables are limited, whatever the packets name.   *)
Caps ==
    /\ Cardinality(Known(relay)) <= MaxClients
    /\ Cardinality(Pending(relay.saved)) <= MaxPending
    /\ Cardinality(relay.raw) <= MaxPending

(* Nobody is let into a full room: a step that adds an endpoint to a room  *)
(* whose game exists leaves at most as many as the game has players.       *)
Crowd ==
    [][\A r \in Room :
          players[r] > 0 /\ ~(relay'.rooms[r] \subseteq relay.rooms[r]) =>
              Cardinality(relay'.rooms[r]) <= Expected(r)]_vars

(* The comment at 5834 says that the first probes of a room are kept until *)
(* a second peer reaches it: then they go out.  All that may be left is    *)
(* the packet that made the relay look for the peer.                       *)
HandedOver ==
    [][\A r \in Room :
          Cardinality(relay.rooms[r]) < 2 /\ Cardinality(relay'.rooms[r]) >= 2 =>
              Cardinality(relay'.saved[r]) <= 1]_vars
=============================================================================
